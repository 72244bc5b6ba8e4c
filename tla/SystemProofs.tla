---------------------------- MODULE SystemProofs ----------------------------
(***************************************************************************)
(* Both programs at once, for any number of other clients, sessions and    *)
(* failures, with SSL and without: the sessions serve the client as module *)
(* Client assumes of its server, so that what ClientProofs and             *)
(* ClientGuarantees prove of the client holds of it here, and what         *)
(* ServerProofs proves of the sessions holds with a client that reconnects *)
(* and through every end and restart of the server.                        *)
(***************************************************************************)
EXTENDS System, FiniteSetTheorems, SequenceTheorems, TLAPS

\* What is proved of the client, of TheClient.
CP == INSTANCE ClientGuarantees WITH
    ConnIds <- OwnConns, MaxFaults <- OwnFaults, faults <- seen,
    cl <- Own(cl), sv <- Own(sv), req <- Own(req), rsp <- Own(rsp), hand <- Own(hand)

\* The messages not answered yet: of the client, the one that listen() waits for.
Owed ==
    [k \in ConnIds |->
        IF k \notin OwnConns THEN owed[k]
        ELSE IF k = cur /\ pc = "read" THEN <<Request(cur, data)>> ELSE <<>>]

\* What is proved of the server, for messages of any kind.
SP == INSTANCE ServerProofs WITH RequestKinds <- MessageKinds \ {"cut"}, owed <- Owed

-----------------------------------------------------------------------------
(* The inductive invariant.                                                *)

OwnRequests(k) == [from : {k}, id : Items, kind : {"request"}]

\* On the connections of the client there are only its requests, and none once the
\* server has learnt of a failure.
OnlyOwnRequests ==
    \A k \in OwnConns :
        /\ \A i \in DOMAIN req[k] : req[k][i].from = k
        /\ sv[k] = "broken" => req[k] = <<>>

\* A session that serves the client works on one of its requests, and an operation of it
\* fails only when the client has left the connection or has been told of the failure.
OwnSession(s) ==
    conn[s] \in OwnConns =>
        /\ SP!HeaderKnown(s) \/ SP!Whole(s) => cdata[s] \in OwnRequests(conn[s])
        /\ op[s] \notin {"none", "accept"} /\ SP!Posted(s) /\ ~SP!PostedOk(s) =>
            cl[conn[s]] \in {"broken", "closed"}

\* The connections used before are closed, and the one in use is given up only once it
\* broke; nothing is left on it that is still to be answered.
ConnectionsUsed ==
    /\ \A k \in OwnConns : k < cur => cl[k] = "closed"
    /\ cur >= 1 => cl[cur] # "none"
    /\ pc = "open" /\ cur >= 1 => cl[cur] = "broken"
    /\ pc \in Ended /\ cur >= 1 /\ cl[cur] = "up" =>
        /\ rsp[cur] = <<>>
        /\ sv[cur] \in {"backlog", "up"} => req[cur] = <<>> /\ hand[cur] = <<>>

\* Connections that the client has left, and the server need not have set up yet: a
\* handshake may fail on each of them.
Abandoned ==
    {k \in OwnConns :
        /\ cl[k] \in {"broken", "closed"}
        /\ \/ sv[k] = "backlog"
           \/ \E s \in SessionIds : conn[s] = k /\ op[s] \in {"accept", "handshake"}}

\* Connections of other clients that the server is done with.
Over ==
    {k \in OtherConns :
        /\ cl[k] # "none"
        /\ sv[k] \in {"closed", "broken"}
        /\ \A s \in SessionIds : conn[s] # k}

\* The server ends for a failure, or on a connection that was abandoned, of which each is
\* due to a failure except the last, or on a connection of another client, of which none
\* ends it twice.
EndsExplained ==
    seen + Cardinality(Abandoned)
        <= 2 * faults + Cardinality(Over) + (IF lifetime = "alive" THEN 0 ELSE 1)

SystemInv ==
    /\ CP!ClientInv /\ CP!ScraperInv
    /\ SP!ServerInv
    /\ Items \subseteq RequestIds
    /\ owed \in [ConnIds -> Seq(Messages)]
    /\ hand = [k \in ConnIds |-> BeingServed(k)]
    /\ OnlyOwnRequests
    /\ \A s \in SessionIds : OwnSession(s)
    /\ ConnectionsUsed
    /\ EndsExplained

-----------------------------------------------------------------------------
(* The constants.                                                          *)

LEMMA Connections ==
    /\ MaxFaults \in Nat /\ Cardinality(OtherConns) \in Nat /\ OwnFaults \in Nat
    /\ OwnFaults = 2 * MaxFaults + Cardinality(OtherConns) + 1
    /\ OwnConns = 1..OwnFaults + 1 /\ IsFiniteSet(OwnConns) /\ IsFiniteSet(OtherConns)
    /\ OwnConns \subseteq ConnIds /\ OtherConns \subseteq ConnIds
    /\ ConnIds = OwnConns \cup OtherConns /\ OwnConns \cap OtherConns = {}
    /\ ConnIds \subseteq Nat \ {0} /\ Nobody \notin ConnIds
  <1>1. MaxFaults \in Nat /\ Cardinality(OtherConns) \in Nat
    BY ServerAssumption, SystemAssumption, FS_CardinalityType
  <1>2. OwnFaults \in Nat
    BY <1>1 DEF OwnFaults
  <1>3. IsFiniteSet(OwnConns)
    BY <1>2, FS_Interval DEF OwnConns
  <1> QED
    BY <1>1, <1>2, <1>3, ServerAssumption, SystemAssumption DEF OwnFaults, OwnConns

\* What ClientProofs and ServerProofs assume of the constants.
LEMMA ClientConstants ==
    SSL \in BOOLEAN /\ OwnFaults \in Nat /\ 1..OwnFaults + 1 \subseteq OwnConns
  BY Connections, ClientAssumption

LEMMA ClientFiles ==
    \A f \in Files :
        /\ f \in CP!File
        /\ \A n \in DOMAIN f.lines : f.lines[n].long => f.lines[n].kind # "blank"
        /\ ~f.newline => /\ f.lines # <<>>
                         /\ f.lines[Len(f.lines)].kind # "blank"
  BY FilesAssumption DEF CP!File, File, CP!Line, Line, CP!Kinds, Kinds

LEMMA ServerConstants ==
    /\ SSL \in BOOLEAN
    /\ RequestIds # {}
    /\ MessageKinds \ {"cut"} \subseteq SP!MessageKinds \ {"cut"}
    /\ MaxFaults \in Nat /\ MaxUnanswered \in [ConnIds -> Nat]
    /\ Nobody \notin ConnIds /\ Nothing \notin SP!Messages \cup SP!Answers
    /\ ConnIds \subseteq Nat /\ SessionIds \subseteq Nat /\ 0 \in SessionIds
  BY ServerAssumption
  DEF SP!MessageKinds, MessageKinds, SP!Messages, Messages, SP!Answers, Answers

-----------------------------------------------------------------------------
(* The server here and the server of ServerProofs.                         *)

\* A step of the server asks no message of the client.
LEMMA OwedUnchanged == UNCHANGED <<owed, pc, cur, data>> => Owed' = Owed
  BY DEF Owed, Request

LEMMA CompletionsAre ==
    ASSUME NEW s \in SessionIds, Owed' = Owed
    PROVE  /\ AcceptCompletes(s) => SP!AcceptCompletes(s)
           /\ AcceptErrs(s) => SP!AcceptErrs(s)
           /\ HandshakeCompletes(s) => SP!HandshakeCompletes(s)
           /\ HeaderCompletes(s) => SP!HeaderCompletes(s)
           /\ BodyCompletes(s) => SP!BodyCompletes(s)
           /\ WriteCompletes(s) => SP!WriteCompletes(s)
  BY DEF AcceptCompletes, SP!AcceptCompletes, AcceptErrs, SP!AcceptErrs,
         HandshakeCompletes, SP!HandshakeCompletes, HeaderCompletes, SP!HeaderCompletes,
         BodyCompletes, SP!BodyCompletes, WriteCompletes, SP!WriteCompletes,
         Pending, SP!Pending, Post, SP!Post, Fault, SP!Fault, EndOfStream, SP!EndOfStream,
         wireVars, SP!wireVars, sessionVars, SP!sessionVars

LEMMA HandlersAre ==
    ASSUME NEW s \in SessionIds, NEW ok \in BOOLEAN, Owed' = Owed
    PROVE  /\ AcceptHandler(s, ok) => SP!AcceptHandler(s, ok)
           /\ SessionCreationThrows(s, ok) => SP!SessionCreationThrows(s, ok)
           /\ HandshakeHandler(s, ok) => SP!HandshakeHandler(s, ok)
           /\ HeaderHandler(s, ok) => SP!HeaderHandler(s, ok)
           /\ BodyHandler(s, ok) => SP!BodyHandler(s, ok)
           /\ WriteHandler(s, ok) => SP!WriteHandler(s, ok)
  BY DEF AcceptHandler, SP!AcceptHandler, SessionCreationThrows, SP!SessionCreationThrows,
         HandshakeHandler, SP!HandshakeHandler, HeaderHandler, SP!HeaderHandler,
         BodyHandler, SP!BodyHandler, WriteHandler, SP!WriteHandler,
         Handles, SP!Handles, Continue, SP!Continue, EndSession, SP!EndSession,
         Terminate, SP!Terminate, StopServer, SP!StopServer, Fault, SP!Fault,
         HeaderParses, SP!HeaderParses, Resizes, SP!Resizes, Decodes, SP!Decodes, Executes, SP!Executes,
         Result, SP!Result, Response, SP!Response, wireVars, SP!wireVars

LEMMA CompletionInv ==
    ASSUME SP!ServerInv, Owed' = Owed, NEW s \in SessionIds, Completes(s) \/ AcceptErrs(s)
    PROVE  SP!ServerInv'
  <1> USE ServerConstants
  <1>1. CASE AcceptCompletes(s)
    BY <1>1, CompletionsAre, SP!AcceptCompletesInv
  <1>2. CASE AcceptErrs(s)
    BY <1>2, CompletionsAre, SP!AcceptErrsInv
  <1>3. CASE HandshakeCompletes(s)
    BY <1>3, CompletionsAre, SP!HandshakeCompletesInv
  <1>4. CASE HeaderCompletes(s)
    BY <1>4, CompletionsAre, SP!HeaderCompletesInv
  <1>5. CASE BodyCompletes(s)
    BY <1>5, CompletionsAre, SP!BodyCompletesInv
  <1>6. CASE WriteCompletes(s)
    BY <1>6, CompletionsAre, SP!WriteCompletesInv
  <1> QED
    BY <1>1, <1>2, <1>3, <1>4, <1>5, <1>6 DEF Completes

LEMMA HandlerInv ==
    ASSUME SP!ServerInv, Owed' = Owed, RunHandler PROVE SP!ServerInv'
  <1>0. PICK s \in SessionIds, ok \in BOOLEAN :
            \/ AcceptHandler(s, ok) \/ SessionCreationThrows(s, ok)
            \/ HandshakeHandler(s, ok)
            \/ HeaderHandler(s, ok) \/ BodyHandler(s, ok) \/ WriteHandler(s, ok)
    BY DEF RunHandler
  <1> USE ServerConstants
  <1>1. CASE AcceptHandler(s, ok)
    BY <1>1, HandlersAre, SP!AcceptHandlerInv
  <1>2. CASE SessionCreationThrows(s, ok)
    BY <1>2, HandlersAre, SP!SessionCreationThrowsInv
  <1>3. CASE HandshakeHandler(s, ok)
    BY <1>3, HandlersAre, SP!HandshakeHandlerInv
  <1>4. CASE HeaderHandler(s, ok)
    BY <1>4, HandlersAre, SP!HeaderHandlerInv
  <1>5. CASE BodyHandler(s, ok)
    BY <1>5, HandlersAre, SP!BodyHandlerInv
  <1>6. CASE WriteHandler(s, ok)
    BY <1>6, HandlersAre, SP!WriteHandlerInv
  <1> QED
    BY <1>0, <1>1, <1>2, <1>3, <1>4, <1>5, <1>6

\* The end of the server.
LEMMA TerminationInv ==
    ASSUME SP!ServerInv, Owed' = Owed, Terminate, faults' \in 0..MaxFaults
    PROVE  SP!ServerInv'
  <1>1. SP!Terminate
    BY DEF Terminate, SP!Terminate, StopServer, SP!StopServer
  <1>2. ~(~SSL /\ MessageKinds \ {"cut"} \subseteq {"request", "header"})
    BY DEF MessageKinds
  <1> QED
    BY <1>1, <1>2, ServerConstants, SP!TerminateInv

\* A server that is not running has no sessions.
LEMMA NoSessions ==
    ASSUME SP!ServerInv, ~running
    PROVE  \A s \in SessionIds :
            op[s] = "none" /\ conn[s] = Nobody /\ ~SP!Posted(s) /\ ~SP!PostedOk(s)
  <1>1. \A s \in SessionIds : op[s] = "none"
    BY DEF SP!ServerInv, SP!Operations
  <1>2. \A s \in SessionIds : ~SP!Posted(s)
    BY <1>1 DEF SP!ServerInv, SP!Operations
  <1> QED
    BY <1>1, <1>2 DEF SP!ServerInv, SP!Socket, SP!PostedOk, SP!Posted

LEMMA StartsAgainInv ==
    ASSUME SP!ServerInv, Owed' = Owed, ServerStartsAgain PROVE SP!ServerInv'
  <1> USE DEF SP!ServerInv
  <1>1. /\ ~running /\ running' = TRUE /\ count' = 1 /\ op' = [op EXCEPT ![0] = "accept"]
        /\ UNCHANGED <<cl, sv, req, rsp, faults, conn, cdata, response, ready>> /\ Owed' = Owed
    BY DEF ServerStartsAgain, ServerRestarts
  <1>2. \A s \in SessionIds :
            op[s] = "none" /\ conn[s] = Nobody /\ ~SP!Posted(s) /\ ~SP!PostedOk(s)
    BY <1>1, NoSessions
  <1>3. \A s \in SessionIds : ~SP!Posted(s)' /\ ~SP!PostedOk(s)'
    BY <1>1, <1>2 DEF SP!Posted, SP!PostedOk
  <1>4. 0 \in SessionIds /\ \A s \in SessionIds : s \in Nat /\ op'[s] = IF s = 0 THEN "accept" ELSE "none"
    BY <1>1, <1>2, ServerConstants DEF SP!ServerTypeOK
  <1>5. SP!ServerTypeOK'
    BY <1>1, <1>4 DEF SP!ServerTypeOK, SP!WireTypeOK, SP!Ops
  <1>6. SP!HandlersOnce'
    BY <1>1 DEF SP!Operations, SP!HandlersOnce
  <1>7. SP!Operations'
    BY <1>1, <1>3, <1>4, <1>6 DEF SP!Operations
  <1>8. SP!SocketsApart'
    BY <1>1 DEF SP!SocketsApart
  <1>9. \A s \in SessionIds : SP!Socket(s)' /\ SP!Buffer(s)'
    BY <1>1, <1>2, <1>3, <1>4 DEF SP!Socket, SP!Buffer, SP!HeaderKnown, SP!Whole
  <1>10. ASSUME NEW k \in ConnIds PROVE SP!Ends(k)' /\ SP!KindsSent(k)' /\ SP!Accounted(k)'
    <2>1. \A s \in SessionIds : ~SP!Holds(s, k) /\ ~SP!Holds(s, k)'
      BY <1>2, <1>4 DEF SP!Holds, SP!Serves
    <2>2. SP!Accounted(k)'
      BY <1>1, <2>1, ServerConstants, SP!UntouchedAccounted
    <2> QED
      BY <1>1, <2>2 DEF SP!Ends, SP!KindsSent
  <1>11. SP!StaysUp'
    BY <1>1 DEF SP!StaysUp
  <1> QED
    BY <1>5, <1>7, <1>8, <1>9, <1>10, <1>11

\* A failure of a connection.
LEMMA FailureInv ==
    ASSUME SP!ServerInv, Owed' = Owed, NEW k \in ConnIds, ConnectionFails(k)
    PROVE  SP!ServerInv'
  <1>1. SP!ConnectionFails(k)
    BY DEF ConnectionFails, SP!ConnectionFails, ResetConnection, SP!ResetConnection,
           ClientTimesOut, SP!ClientTimesOut, PeerResets, SP!PeerResets, Fault, SP!Fault,
           sessionVars, SP!sessionVars
  <1> QED
    BY <1>1, ServerConstants, SP!ConnectionFailsInv

\* Of the messages of other clients nothing is abstracted.
LEMMA OwedByOthers ==
    ASSUME owed \in [ConnIds -> Seq(Messages)], UNCHANGED <<pc, cur, data>>,
           NEW k \in OtherConns, NEW v
    PROVE  /\ Owed[k] = owed[k]
           /\ owed' = [owed EXCEPT ![k] = v] => Owed' = [Owed EXCEPT ![k] = v]
           /\ owed' = owed => Owed' = Owed
  <1>1. k \in ConnIds /\ k \notin OwnConns
    BY Connections
  <1> QED
    BY <1>1 DEF Owed, Request

LEMMA OthersInv ==
    ASSUME SP!ServerInv, owed \in [ConnIds -> Seq(Messages)], NEW k \in OtherConns, OthersStep(k)
    PROVE  SP!ServerInv'
  <1> USE ServerConstants
  <1>1. k \in ConnIds /\ UNCHANGED <<pc, cur, data>> /\ Owed[k] = owed[k]
    BY Connections, OwedByOthers DEF OthersStep, processVars, mainVars
  <1>2. CASE ClientConnects(k)
    <2>1. SP!ClientConnects(k)
      BY <1>1, <1>2, OwedByOthers DEF ClientConnects, SP!ClientConnects, sessionVars, SP!sessionVars
    <2> QED
      BY <1>1, <2>1, SP!ClientConnectsInv
  <1>3. CASE ClientSends(k)
    <2>1. PICK id \in RequestIds, kind \in RequestKinds :
            LET m == [Request(k, id) EXCEPT !.kind = kind] IN
            /\ owed' = [owed EXCEPT ![k] = Append(@, m)]
            /\ req' = [req EXCEPT ![k] = Append(@, m)]
      BY <1>3 DEF ClientSends
    <2> DEFINE m == [Request(k, id) EXCEPT !.kind = kind]
    <2>2. Owed' = [Owed EXCEPT ![k] = Append(@, m)]
      BY <1>1, <2>1, OwedByOthers
    <2>3. kind \in MessageKinds \ {"cut"}
      BY ServerAssumption
    <2>4. SP!ClientSends(k)
      BY <1>1, <1>3, <2>1, <2>2, <2>3
      DEF ClientSends, SP!ClientSends, sessionVars, SP!sessionVars, Request, SP!Request
    <2> QED
      BY <1>1, <2>4, SP!ClientSendsInv
  <1>4. CASE ClientReceives(k)
    <2>1. SP!ClientReceives(k)
      BY <1>1, <1>4, OwedByOthers DEF ClientReceives, SP!ClientReceives, sessionVars, SP!sessionVars
    <2> QED
      BY <1>1, <2>1, SP!ClientReceivesInv
  <1>5. CASE ClientCloses(k)
    <2>1. SP!ClientCloses(k)
      BY <1>1, <1>5, OwedByOthers
      DEF ClientCloses, SP!ClientCloses, CutShort, SP!CutShort, sessionVars, SP!sessionVars
    <2> QED
      BY <1>1, <2>1, SP!ClientClosesInv
  <1>6. CASE ConnectionFails(k)
    <2>1. Owed' = Owed
      BY <1>1, <1>6, OwedUnchanged DEF ConnectionFails
    <2> QED
      BY <1>1, <1>6, <2>1, FailureInv
  <1> QED
    BY <1>2, <1>3, <1>4, <1>5, <1>6 DEF OthersStep, ClientStep

-----------------------------------------------------------------------------
(* What the sessions hold.                                                 *)

LEMMA HoldsAre ==
    \A s, k : /\ Holds(s, k) <=> SP!Holds(s, k)
              /\ Holds(s, k)' <=> SP!Holds(s, k)'
  BY DEF Holds, SP!Holds, Serves, SP!Serves, Posted, SP!Posted

LEMMA ServedIs ==
    SP!SocketsApart => \A k \in ConnIds :
        /\ \A s \in SessionIds : SP!Holds(s, k) => BeingServed(k) = <<cdata[s]>>
        /\ ~SP!InService(k) => BeingServed(k) = <<>>
  <1> SUFFICES ASSUME SP!SocketsApart, NEW k \in ConnIds
               PROVE  /\ \A s \in SessionIds : SP!Holds(s, k) => BeingServed(k) = <<cdata[s]>>
                      /\ ~SP!InService(k) => BeingServed(k) = <<>>
    OBVIOUS
  <1> DEFINE held == {cdata[s] : s \in {t \in SessionIds : Holds(t, k)}}
  <1>1. ASSUME NEW s \in SessionIds, SP!Holds(s, k) PROVE BeingServed(k) = <<cdata[s]>>
    <2>1. \A t \in SessionIds : SP!Holds(t, k) => t = s
      BY <1>1, Connections DEF SP!Holds, SP!Serves, SP!SocketsApart
    <2>2. held = {cdata[s]}
      BY <1>1, <2>1, HoldsAre
    <2> QED
      BY <2>2 DEF BeingServed
  <1>2. ASSUME ~SP!InService(k) PROVE BeingServed(k) = <<>>
    <2>1. held = {}
      BY <1>2, HoldsAre DEF SP!InService
    <2> QED
      BY <2>1 DEF BeingServed
  <1> QED
    BY <1>1, <1>2

\* What the sessions hold is as it was while they and their handlers are.
LEMMA ServedUnchanged ==
    UNCHANGED <<sessionVars, ready>> => \A k : BeingServed(k)' = BeingServed(k)
  BY DEF sessionVars, BeingServed, Holds, Serves, Posted

-----------------------------------------------------------------------------
(* The messages of the client are accounted for because its listen() waits *)
(* for the answer to one before it sends the next.                         *)

OwnServed ==
    /\ CP!ClientInv /\ SP!SocketsApart
    /\ Items \subseteq RequestIds
    /\ hand = [k \in ConnIds |-> BeingServed(k)]
    /\ OnlyOwnRequests /\ ConnectionsUsed

LEMMA OwnTypes ==
    CP!ClientInv => \A k \in OwnConns :
        /\ cl[k] \in {"none", "up", "broken", "closed"}
        /\ sv[k] \in {"none", "backlog", "up", "broken", "closed"}
        /\ req[k] \in Seq([from : OwnConns, id : Items, kind : {"request"}])
        /\ hand[k] \in Seq([from : OwnConns, id : Items, kind : {"request"}])
        /\ rsp[k] \in Seq([from : OwnConns, id : Items])
  BY DEF CP!ClientInv, CP!ClientTypeOK, CP!WireTypeOK, CP!Requests, CP!Responses, CP!Items, Items,
         CP!ClientEnds, CP!ServerEnds, Own

\* The locals of the main thread.
LEMMA OwnLocals ==
    CP!ClientInv =>
        /\ cur \in 0..OwnFaults + 1 /\ data \in Items \cup {0} /\ cur \in Nat
        /\ cur >= 1 => cur \in OwnConns
        /\ pc \in {"open", "handshake", "poll", "front", "write", "read", "pop", "more", "stream"} \cup Ended
        /\ pc \notin {"open", "threw"} => cur \in OwnConns
        /\ pc \notin {"open"} \cup Ended => cur \in OwnConns /\ cl[cur] \in {"up", "broken"}
        /\ pc \in {"write", "read"} => data \in Items
  <1> SUFFICES ASSUME CP!ClientInv
               PROVE  /\ cur \in 0..OwnFaults + 1 /\ data \in Items \cup {0} /\ cur \in Nat
                      /\ cur >= 1 => cur \in OwnConns
                      /\ pc \in {"open", "handshake", "poll", "front", "write", "read", "pop", "more", "stream"} \cup Ended
                      /\ pc \notin {"open", "threw"} => cur \in OwnConns
                      /\ pc \notin {"open"} \cup Ended => cur \in OwnConns /\ cl[cur] \in {"up", "broken"}
                      /\ pc \in {"write", "read"} => data \in Items
    OBVIOUS
  <1>1. /\ cur \in 0..OwnFaults + 1 /\ data \in Items \cup {0} /\ queue \in Seq(Items)
        /\ pc \in {"open", "handshake", "poll", "front", "write", "read", "pop", "more", "stream"} \cup Ended
    BY DEF CP!ClientInv, CP!ClientTypeOK, CP!ScraperTypeOK, CP!Items, Items, CP!Ended, Ended
  <1>2. cur \in Nat /\ (cur >= 1 => cur \in OwnConns)
    BY <1>1, Connections
  <1>3. pc \notin {"open", "threw"} => cur \in OwnConns
    BY <1>2 DEF CP!ClientInv, CP!MainLocals
  <1>4. pc \notin {"open"} \cup Ended => Own(cl)[cur] \in {"up", "broken"}
    BY DEF CP!ClientInv, CP!MainLocals, CP!Connected, CP!Ended, Ended
  <1>5. pc \in {"write", "read"} => data \in Items
    BY <1>1 DEF CP!ClientInv, CP!MainLocals, CP!QueueNeverEmptyWhenUsed
  <1> QED
    BY <1>1, <1>2, <1>3, <1>4, <1>5 DEF Own, Ended

\* What is on the connection that listen() uses.
LEMMA OnConnection ==
    CP!ClientInv /\ pc \notin {"open"} \cup Ended /\ cl[cur] = "up" =>
        \/ pc # "read" /\ req[cur] = <<>> /\ hand[cur] = <<>> /\ rsp[cur] = <<>>
        \/ pc = "read" /\
            \/ req[cur] = <<Request(cur, data)>> /\ hand[cur] = <<>> /\ rsp[cur] = <<>>
            \/ req[cur] = <<>> /\ hand[cur] = <<Request(cur, data)>> /\ rsp[cur] = <<>> /\ sv[cur] = "up"
            \/ req[cur] = <<>> /\ hand[cur] = <<>> /\ rsp[cur] = <<Response(cur, data)>>
            \/ sv[cur] = "closed" /\ hand[cur] = <<>> /\ rsp[cur] = <<>>
  <1> SUFFICES ASSUME CP!ClientInv, pc \notin {"open"} \cup Ended, cl[cur] = "up"
               PROVE
        \/ pc # "read" /\ req[cur] = <<>> /\ hand[cur] = <<>> /\ rsp[cur] = <<>>
        \/ pc = "read" /\
            \/ req[cur] = <<Request(cur, data)>> /\ hand[cur] = <<>> /\ rsp[cur] = <<>>
            \/ req[cur] = <<>> /\ hand[cur] = <<Request(cur, data)>> /\ rsp[cur] = <<>> /\ sv[cur] = "up"
            \/ req[cur] = <<>> /\ hand[cur] = <<>> /\ rsp[cur] = <<Response(cur, data)>>
            \/ sv[cur] = "closed" /\ hand[cur] = <<>> /\ rsp[cur] = <<>>
    OBVIOUS
  <1>1. cur \in OwnConns
    BY OwnLocals
  <1>2. CP!Connected /\ Own(cl)[cur] = "up"
    BY <1>1 DEF CP!Connected, CP!Ended, Ended, Own
  <1>3. CP!OneInFlight
    BY DEF CP!ClientInv
  <1> QED
    BY <1>1, <1>2, <1>3 DEF CP!OneInFlight, Own, CP!Request, CP!Response, Request, Response

\* No connection of the client but the last is up, and that one only while it is used or
\* when the main thread has ended on it.
LEMMA UpIsCurrent ==
    CP!ClientInv /\ ConnectionsUsed =>
        \A k \in OwnConns : cl[k] = "up" => k = cur /\ pc # "open"
  <1> SUFFICES ASSUME CP!ClientInv, ConnectionsUsed, NEW k \in OwnConns, cl[k] = "up"
               PROVE  k = cur /\ pc # "open"
    OBVIOUS
  <1>1. k \in 1..OwnFaults + 1 /\ cur \in Nat /\ OwnFaults \in Nat
    BY Connections, OwnLocals
  <1>2. k <= cur
    <2> SUFFICES ASSUME k \in cur + 1..OwnFaults + 1 PROVE FALSE
      BY <1>1
    <2>1. Own(cl)[k] = "none"
      BY DEF CP!ClientInv, CP!FreshConnections
    <2> QED
      BY <2>1 DEF Own
  <1>3. ~(k < cur)
    BY DEF ConnectionsUsed
  <1>4. k = cur
    BY <1>1, <1>2, <1>3
  <1> QED
    BY <1>1, <1>4 DEF ConnectionsUsed

\* What SP!ServerInv says of a connection of the client, but for the session.
OwnWire(k) ==
    /\ SP!Accounted(k) /\ SP!KindsSent(k)
    /\ cl[k] = "none" => sv[k] = "none" /\ req[k] = <<>> /\ rsp[k] = <<>> /\ Owed[k] = <<>>

LEMMA OwnAccounted == OwnServed => \A k \in OwnConns : OwnWire(k)
  <1> SUFFICES ASSUME OwnServed, NEW k \in OwnConns PROVE OwnWire(k)
    OBVIOUS
  <1> USE DEF OwnServed
  <1>0. k \in ConnIds
    BY Connections
  <1>1. Owed[k] = IF k = cur /\ pc = "read" THEN <<Request(cur, data)>> ELSE <<>>
    BY <1>0 DEF Owed
  <1>2. SP!KindsSent(k)
    <2>1. \A i \in DOMAIN req[k] : req[k][i].kind = "request"
      <3> DEFINE R == [from : OwnConns, id : Items, kind : {"request"}]
      <3>1. req[k] \in Seq(R)
        BY OwnTypes
      <3> HIDE DEF R
      <3>2. \A i \in DOMAIN req[k] : req[k][i] \in R
        BY <3>1
      <3> USE DEF R
      <3> QED
        BY <3>2
    <2>2. \A i \in DOMAIN Owed[k] : Owed[k][i].kind = "request"
      BY <1>1 DEF Request
    <2> QED
      BY <2>1, <2>2 DEF SP!KindsSent, MessageKinds
  <1>3. SP!Accounted(k)
    <2> SUFFICES ASSUME cl[k] = "up" PROVE SP!Accounted(k)
      BY DEF SP!Accounted
    <2>1. k = cur /\ pc # "open"
      BY UpIsCurrent
    <2>2. hand[k] = BeingServed(k)
      BY <1>0
    <2>3. hand[k] = <<>> => SP!Held(k) = 0 /\ \A s \in SessionIds : ~SP!Holds(s, k)
      BY <1>0, <2>2, ServedIs DEF SP!Held, SP!InService
    <2>4. CASE /\ rsp[k] = <<>> /\ Owed[k] = <<>>
               /\ sv[k] \in {"backlog", "up"} => req[k] = <<>> /\ hand[k] = <<>>
      BY <2>3, <2>4 DEF SP!Accounted
    <2>5. CASE pc = "read" /\ req[k] = <<Request(k, data)>> /\ hand[k] = <<>> /\ rsp[k] = <<>>
      BY <1>1, <2>1, <2>3, <2>5 DEF SP!Accounted
    <2>6. CASE pc = "read" /\ req[k] = <<>> /\ hand[k] = <<Request(k, data)>> /\ rsp[k] = <<>>
      <3>1. SP!InService(k) /\ \A s \in SessionIds : SP!Holds(s, k) => cdata[s] = Request(k, data)
        <4> DEFINE r == Request(k, data)
        <4>1. BeingServed(k) = <<r>>
          BY <2>2, <2>6
        <4> HIDE DEF r
        <4>2. \A s \in SessionIds : SP!Holds(s, k) => <<cdata[s]>> = <<r>>
          BY <1>0, <4>1, ServedIs
        <4>3. SP!InService(k)
          BY <1>0, <4>1, ServedIs
        <4>4. \A s \in SessionIds : SP!Holds(s, k) => cdata[s] = r
          BY <4>2
        <4> QED
          BY <4>3, <4>4 DEF r
      <3> QED
        BY <1>1, <2>1, <2>6, <3>1 DEF SP!Accounted, SP!Held
    <2>7. CASE pc = "read" /\ req[k] = <<>> /\ hand[k] = <<>> /\ rsp[k] = <<Response(k, data)>>
      BY <1>1, <2>1, <2>3, <2>7 DEF SP!Accounted, SP!Result, SP!Response, Response, Request
    <2>8. CASE pc = "read" /\ sv[k] = "closed" /\ hand[k] = <<>> /\ rsp[k] = <<>>
      BY <1>1, <2>1, <2>8 DEF SP!Accounted
    <2>9. CASE pc \in Ended
      <3>1. cur >= 1
        BY <2>1, Connections
      <3> QED
        BY <1>1, <2>1, <2>4, <2>9, <3>1 DEF ConnectionsUsed, Ended
    <2> QED
      BY <1>1, <2>1, <2>4, <2>5, <2>6, <2>7, <2>8, <2>9, OnConnection
  <1>4. ASSUME cl[k] = "none"
        PROVE  sv[k] = "none" /\ req[k] = <<>> /\ rsp[k] = <<>> /\ Owed[k] = <<>>
    <2>1. cur \in Nat /\ OwnFaults \in Nat /\ k \in 1..OwnFaults + 1
      BY Connections, OwnLocals
    <2>2. k # cur /\ ~(k < cur)
      BY <1>4, <2>1 DEF ConnectionsUsed
    <2>3. k \in cur + 1..OwnFaults + 1
      BY <2>1, <2>2
    <2>4. CP!FreshConnections
      BY DEF CP!ClientInv
    <2> QED
      BY <1>1, <2>2, <2>3, <2>4 DEF CP!FreshConnections, Own
  <1> QED
    BY <1>2, <1>3, <1>4 DEF OwnWire

LEMMA OwedTyped ==
    CP!ClientInv /\ Items \subseteq RequestIds /\ owed \in [ConnIds -> Seq(Messages)]
        => Owed \in [ConnIds -> Seq(SP!Messages)]
  <1> SUFFICES ASSUME CP!ClientInv, Items \subseteq RequestIds,
                      owed \in [ConnIds -> Seq(Messages)], NEW k \in ConnIds
               PROVE  Owed[k] \in Seq(Messages)
    BY DEF Owed, SP!Messages, Messages, SP!MessageKinds, MessageKinds
  <1>1. CASE k = cur /\ pc = "read" /\ k \in OwnConns
    <2>1. Request(cur, data) \in Messages
      BY <1>1, OwnLocals DEF Messages, MessageKinds, Request
    <2> QED
      BY <1>1, <2>1 DEF Owed
  <1>2. CASE ~(k = cur /\ pc = "read" /\ k \in OwnConns)
    BY <1>2 DEF Owed
  <1> QED
    BY <1>1, <1>2

-----------------------------------------------------------------------------
(* The steps of the client's threads, as the server sees them.             *)

\* What a step of the client may do to its connections.
Moves(k) ==
    /\ sv'[k] = sv[k] \/ (sv[k] = "none" /\ sv'[k] = "backlog")
    /\ cl'[k] = "up" => cl[k] = "up" \/ sv'[k] = "backlog"
    /\ req[k] # <<>> => req'[k] # <<>> /\ req'[k][1] = req[k][1]

LEMMA ClientMovesInv ==
    ASSUME SP!ServerInv, UNCHANGED <<sessionVars, ready, running>>, SP!ServerTypeOK',
           \A k \in OwnConns : OwnWire(k)' /\ Moves(k),
           \A k \in OtherConns :
                /\ cl'[k] = cl[k] /\ sv'[k] = sv[k] /\ req'[k] = req[k]
                /\ rsp'[k] = rsp[k] /\ Owed'[k] = Owed[k]
    PROVE  SP!ServerInv'
  <1> USE DEF SP!ServerInv
  <1>1. UNCHANGED SP!sessionVars
    BY DEF sessionVars, SP!sessionVars
  <1>2. (\A t \in SessionIds : SP!Untouched(t)) /\ SP!Operations' /\ SP!SocketsApart'
    BY <1>1, ServerConstants, SP!SessionsUntouched
  <1>3. \A k \in ConnIds : k \in OwnConns \/ k \in OtherConns
    BY Connections
  <1>4. ASSUME NEW k \in ConnIds
        PROVE  /\ sv[k] \in {"up", "broken"} => sv'[k] \in {"up", "broken"}
               /\ sv'[k] = "up" => sv[k] = "up"
               /\ sv'[k] = "up" /\ req[k] # <<>> => req'[k] # <<>> /\ req'[k][1] = req[k][1]
    BY <1>3 DEF Moves
  <1>5. ASSUME NEW t \in SessionIds PROVE SP!Socket(t)' /\ SP!Buffer(t)'
    <2>1. conn[t] # Nobody => conn[t] \in ConnIds
      BY DEF SP!ServerTypeOK
    <2>2. SP!HeaderKnown(t) \/ SP!Whole(t) => conn[t] # Nobody
      BY DEF SP!HeaderKnown, SP!Whole, SP!Socket
    <2>3. conn[t] # Nobody =>
            /\ sv'[conn[t]] \in {"up", "broken"}
            /\ sv'[conn[t]] = "up" => sv[conn[t]] = "up"
            /\ sv'[conn[t]] = "up" /\ req[conn[t]] # <<>> =>
                req'[conn[t]] # <<>> /\ req'[conn[t]][1] = req[conn[t]][1]
      BY <1>4, <2>1 DEF SP!Socket
    <2> QED
      BY <1>2, <2>2, <2>3, ServerConstants, SP!UntouchedSocket, SP!UntouchedBuffer
  <1>6. ASSUME NEW k \in OwnConns PROVE SP!Ends(k)' /\ SP!KindsSent(k)' /\ SP!Accounted(k)'
    <2>1. k \in ConnIds
      BY Connections
    <2>2. sv'[k] = "up" => \E s \in SessionIds : conn'[s] = k
      BY <1>1, <1>4, <2>1 DEF SP!Ends, SP!sessionVars
    <2>3. sv'[k] = "broken" => cl'[k] # "up"
      BY <2>1 DEF SP!Ends, Moves
    <2> QED
      BY <2>2, <2>3 DEF OwnWire, SP!Ends
  <1>7. ASSUME NEW k \in OtherConns PROVE SP!Ends(k)' /\ SP!KindsSent(k)' /\ SP!Accounted(k)'
    <2>1. k \in ConnIds
      BY Connections
    <2>2. SP!Accounted(k)'
      BY <1>2, <2>1, ServerConstants, SP!UntouchedHolds, SP!UntouchedAccounted DEF SP!Untouched
    <2> QED
      BY <1>1, <2>1, <2>2 DEF SP!Ends, SP!KindsSent, SP!sessionVars
  <1>8. SP!StaysUp'
    BY DEF SP!StaysUp
  <1> QED
    BY <1>2, <1>3, <1>5, <1>6, <1>7, <1>8

LEMMA AppendEffect ==
    ASSUME NEW S, NEW s \in Seq(S), NEW e \in S
    PROVE  /\ Append(s, e) \in Seq(S) /\ Append(s, e) # <<>>
           /\ s # <<>> => Append(s, e)[1] = s[1]
  <1>1. Append(s, e) \in Seq(S) /\ Len(Append(s, e)) = Len(s) + 1
    OBVIOUS
  <1>2. s # <<>> => 1 \in 1..Len(s) /\ Append(s, e)[1] = s[1]
    OBVIOUS
  <1>3. Append(s, e) # <<>>
    BY AppendProperties
  <1> QED
    BY <1>1, <1>2, <1>3

\* A step of the main thread on its connections: what it does to the types of the wire
\* too, as far as another client may see them.
LEMMA MainMoves ==
    ASSUME SystemInv, MainStep
    PROVE  /\ UNCHANGED <<running, hand, executions>>
           /\ cl' \in [ConnIds -> ClientEnds] /\ sv' \in [ConnIds -> ServerEnds]
           /\ req' \in [ConnIds -> Seq(Messages)] /\ rsp' \in [ConnIds -> Seq(Answers)]
           /\ faults' \in 0..MaxFaults
           /\ \A k \in OwnConns : Moves(k)
           /\ \A k \in OtherConns :
                /\ cl'[k] = cl[k] /\ sv'[k] = sv[k] /\ req'[k] = req[k] /\ rsp'[k] = rsp[k]
  <1>1. /\ cl \in [ConnIds -> ClientEnds] /\ sv \in [ConnIds -> ServerEnds]
        /\ req \in [ConnIds -> Seq(Messages)] /\ rsp \in [ConnIds -> Seq(Answers)]
        /\ faults \in 0..MaxFaults /\ MaxFaults \in Nat
    BY Connections
    DEF SystemInv, SP!ServerInv, SP!ServerTypeOK, SP!WireTypeOK, ClientEnds, SP!ClientEnds,
        ServerEnds, SP!ServerEnds, SP!Messages, Messages, SP!MessageKinds, MessageKinds,
        SP!Answers, Answers
  <1>2. cur \notin OtherConns /\ cur \in Nat /\ (pc \notin {"open"} \cup Ended => cur \in OwnConns)
    BY OwnLocals, Connections DEF SystemInv
  <1>3. CASE Open
    <2>1. cur + 1 \in OwnConns
      <3>1. cur <= seen /\ seen \in 0..OwnFaults
        BY <1>3 DEF Open, SystemInv, CP!ClientInv, CP!FailuresAccounted, CP!ClientTypeOK, CP!WireTypeOK
      <3> QED
        BY <1>2, <3>1, Connections
    <2>2. cl[cur + 1] = "none" /\ sv[cur + 1] = "none"
      <3>1. cur + 1 \in cur + 1..OwnFaults + 1
        BY <1>2, <2>1, Connections
      <3> QED
        BY <2>1, <3>1 DEF SystemInv, CP!ClientInv, CP!FreshConnections, Own
    <2>3. /\ cl' = [k \in ConnIds |-> IF k = cur + 1 THEN "up"
                                      ELSE IF k = cur THEN "closed" ELSE cl[k]]
          /\ sv' = [sv EXCEPT ![cur + 1] = "backlog"]
          /\ UNCHANGED <<running, hand, executions, req, rsp, faults>>
      BY <1>3 DEF Open
    <2> QED
      BY <1>1, <1>2, <2>1, <2>2, <2>3, Connections DEF Moves, ClientEnds, ServerEnds
  <1>4. CASE OpenFails
    BY <1>1, <1>4 DEF OpenFails, Fault, Moves
  <1>5. CASE Write
    <2>1. /\ req' = [req EXCEPT ![cur] = Append(@, Request(cur, data))]
          /\ UNCHANGED <<running, hand, executions, cl, sv, rsp, faults>>
      BY <1>5 DEF Write
    <2>2. cur \in OwnConns /\ cur \in ConnIds /\ data \in Items
      BY <1>5, OwnLocals, Connections DEF Write, SystemInv, Ended
    <2>3. Request(cur, data) \in Messages
      BY <2>2 DEF SystemInv, Messages, MessageKinds, Request
    <2> DEFINE m == Request(cur, data)
    <2> HIDE DEF m
    <2>4. req[cur] \in Seq(Messages) /\ req' = [req EXCEPT ![cur] = Append(req[cur], m)] /\ m \in Messages
      BY <1>1, <2>1, <2>2, <2>3 DEF m
    <2>5. /\ Append(req[cur], m) \in Seq(Messages) /\ Append(req[cur], m) # <<>>
          /\ req[cur] # <<>> => Append(req[cur], m)[1] = req[cur][1]
      BY <2>4, AppendEffect
    <2> QED
      BY <1>1, <1>2, <2>1, <2>2, <2>4, <2>5 DEF Moves
  <1>6. CASE Read
    <2>1. /\ rsp' = [rsp EXCEPT ![cur] = Tail(@)] /\ rsp[cur] # <<>>
          /\ UNCHANGED <<running, hand, executions, cl, sv, req, faults>>
      BY <1>6 DEF Read
    <2>2. cur \in OwnConns /\ cur \in ConnIds
      BY <1>6, OwnLocals, Connections DEF Read, SystemInv, Ended
    <2>3. Tail(rsp[cur]) \in Seq(Answers)
      BY <1>1, <2>1, <2>2
    <2> QED
      BY <1>1, <1>2, <2>1, <2>2, <2>3 DEF Moves
  <1>7. CASE DestroyClient
    BY <1>1, <1>2, <1>7, Connections DEF DestroyClient, Moves, ClientEnds
  <1>8. CASE UNCHANGED <<wireVars, hand, executions>>
    BY <1>1, <1>8 DEF wireVars, Moves
  <1> QED
    BY <1>3, <1>4, <1>5, <1>6, <1>7, <1>8
    DEF MainStep, Handshake, HandshakeFails, Poll, TakeFront, PopFront, SendBroken, SendThrows,
        AskQueue, AskScraper, DestroyStatics, EndProcess

-----------------------------------------------------------------------------
(* The ends of the server are explained.                                   *)

LEMMA Sizes ==
    ASSUME NEW S, IsFiniteSet(S), NEW A \in SUBSET S, NEW B \in SUBSET S
    PROVE  /\ Cardinality(A) \in Nat /\ Cardinality(B) \in Nat
           /\ Cardinality(A) <= Cardinality(S)
           /\ A \subseteq B => Cardinality(A) <= Cardinality(B)
           /\ \A x : A \subseteq B \cup {x} => Cardinality(A) <= Cardinality(B) + 1
           /\ \A x : x \notin A /\ A \cup {x} \subseteq B => Cardinality(A) + 1 <= Cardinality(B)
           /\ A = {} => Cardinality(A) = 0
  <1>1. IsFiniteSet(A) /\ IsFiniteSet(B)
    BY FS_Subset
  <1>2. Cardinality(A) \in Nat /\ Cardinality(B) \in Nat
    BY <1>1, FS_CardinalityType
  <1>3. Cardinality(A) <= Cardinality(S) /\ (A \subseteq B => Cardinality(A) <= Cardinality(B))
    BY <1>1, FS_Subset
  <1>4. ASSUME NEW x, A \subseteq B \cup {x} PROVE Cardinality(A) <= Cardinality(B) + 1
    <2>1. IsFiniteSet(B \cup {x}) /\ Cardinality(B \cup {x}) <= Cardinality(B) + 1
      BY <1>1, <1>2, FS_AddElement
    <2>2. Cardinality(A) <= Cardinality(B \cup {x}) /\ Cardinality(B \cup {x}) \in Nat
      BY <1>4, <2>1, FS_Subset, FS_CardinalityType
    <2> QED
      BY <1>2, <2>1, <2>2
  <1>5. ASSUME NEW x, x \notin A, A \cup {x} \subseteq B PROVE Cardinality(A) + 1 <= Cardinality(B)
    <2>1. Cardinality(A \cup {x}) = Cardinality(A) + 1
      BY <1>1, <1>5, FS_AddElement
    <2>2. Cardinality(A \cup {x}) <= Cardinality(B)
      BY <1>1, <1>5, FS_Subset
    <2> QED
      BY <2>1, <2>2
  <1>6. A = {} => Cardinality(A) = 0
    BY FS_EmptySet
  <1> QED
    BY <1>2, <1>3, <1>4, <1>5, <1>6

LEMMA EndSizes ==
    /\ Cardinality(Abandoned) \in Nat /\ Cardinality(Over) \in Nat
    /\ Cardinality(Abandoned)' \in Nat /\ Cardinality(Over)' \in Nat
    /\ Cardinality(Over) <= Cardinality(OtherConns)
    /\ Cardinality(Over)' <= Cardinality(OtherConns)
    /\ Abandoned' \subseteq Abandoned => Cardinality(Abandoned)' <= Cardinality(Abandoned)
    /\ \A k : Abandoned' \subseteq Abandoned \cup {k} => Cardinality(Abandoned)' <= Cardinality(Abandoned) + 1
    /\ \A k : k \in Abandoned /\ Abandoned' = {} => Cardinality(Abandoned)' + 1 <= Cardinality(Abandoned)
    /\ Over \subseteq Over' => Cardinality(Over) <= Cardinality(Over)'
    /\ \A k : k \notin Over /\ Over \cup {k} \subseteq Over' => Cardinality(Over) + 1 <= Cardinality(Over)'
  <1>1. Abandoned \in SUBSET OwnConns /\ Abandoned' \in SUBSET OwnConns
    BY DEF Abandoned
  <1>2. Over \in SUBSET OtherConns /\ Over' \in SUBSET OtherConns
    BY DEF Over
  <1> HIDE DEF Abandoned, Over
  <1>3. /\ Cardinality(Abandoned) \in Nat /\ Cardinality(Abandoned') \in Nat
        /\ Abandoned' \subseteq Abandoned => Cardinality(Abandoned') <= Cardinality(Abandoned)
        /\ \A k : Abandoned' \subseteq Abandoned \cup {k} => Cardinality(Abandoned') <= Cardinality(Abandoned) + 1
        /\ \A k : k \notin Abandoned' /\ Abandoned' \cup {k} \subseteq Abandoned =>
                    Cardinality(Abandoned') + 1 <= Cardinality(Abandoned)
    <2>1. IsFiniteSet(OwnConns)
      BY Connections
    <2>2. /\ Cardinality(Abandoned) \in Nat /\ Cardinality(Abandoned') \in Nat
          /\ Abandoned' \subseteq Abandoned => Cardinality(Abandoned') <= Cardinality(Abandoned)
          /\ \A k : Abandoned' \subseteq Abandoned \cup {k} =>
                    Cardinality(Abandoned') <= Cardinality(Abandoned) + 1
      BY <1>1, <2>1, Sizes
    <2>3. \A k : k \notin Abandoned' /\ Abandoned' \cup {k} \subseteq Abandoned =>
                    Cardinality(Abandoned') + 1 <= Cardinality(Abandoned)
      BY <1>1, <2>1, Sizes
    <2> QED
      BY <2>2, <2>3
  <1>4. /\ Cardinality(Over) \in Nat /\ Cardinality(Over') \in Nat
        /\ Cardinality(Over) <= Cardinality(OtherConns) /\ Cardinality(Over') <= Cardinality(OtherConns)
        /\ Over \subseteq Over' => Cardinality(Over) <= Cardinality(Over')
        /\ \A k : k \notin Over /\ Over \cup {k} \subseteq Over' => Cardinality(Over) + 1 <= Cardinality(Over')
    BY <1>2, Sizes, Connections
  <1> QED
    BY <1>3, <1>4

\* It leaves room for no more than OwnFaults of them.
LEMMA EndsBounded ==
    EndsExplained /\ seen \in Nat /\ faults \in 0..MaxFaults => seen <= OwnFaults
  <1> SUFFICES ASSUME EndsExplained, seen \in Nat, faults \in 0..MaxFaults PROVE seen <= OwnFaults
    OBVIOUS
  <1> DEFINE a == Cardinality(Abandoned)
             o == Cardinality(Over)
             n == Cardinality(OtherConns)
  <1>1. a \in Nat /\ o \in Nat /\ n \in Nat /\ o <= n /\ MaxFaults \in Nat /\ OwnFaults = 2 * MaxFaults + n + 1
    BY EndSizes, Connections
  <1>2. seen + a <= 2 * faults + o + (IF lifetime = "alive" THEN 0 ELSE 1)
    BY DEF EndsExplained
  <1> HIDE DEF a, o, n
  <1>3. seen + a <= 2 * faults + o + 1
    BY <1>1, <1>2
  <1> QED
    BY <1>1, <1>3

\* How a step keeps them explained: it has no end to explain, or one more failure than
\* before, or a connection that can explain none after it.
EndsStep ==
    /\ {seen, seen', faults, faults'} \subseteq Nat
    /\ Over \subseteq Over' /\ (lifetime # "alive" => lifetime' # "alive")
    /\ \/ Abandoned' \subseteq Abandoned /\ faults' >= faults /\ seen' = seen
       \/ /\ \E k : Abandoned' \subseteq Abandoned \cup {k}
          /\ \/ faults' = faults + 1 /\ seen' = seen + 1
             \/ faults' = faults /\ seen' = seen /\ lifetime = "alive" /\ lifetime' # "alive"
       \/ /\ Abandoned' = {} /\ faults' = faults /\ seen' = seen + 1
          /\ \/ Abandoned # {}
             \/ \E k : k \notin Over /\ Over \cup {k} \subseteq Over'

LEMMA Twice == ASSUME NEW f \in Nat, NEW g \in Nat, g >= f PROVE 2 * f <= 2 * g /\ {2 * f, 2 * g} \subseteq Nat
  OBVIOUS

LEMMA EndsKept == EndsExplained /\ EndsStep => EndsExplained'
  <1> SUFFICES ASSUME EndsExplained, EndsStep PROVE EndsExplained'
    OBVIOUS
  <1> DEFINE a == Cardinality(Abandoned)
             b == Cardinality(Abandoned)'
             o == Cardinality(Over)
             p == Cardinality(Over)'
             l == IF lifetime = "alive" THEN 0 ELSE 1
             m == IF lifetime' = "alive" THEN 0 ELSE 1
  <1>1. a \in Nat /\ b \in Nat /\ o \in Nat /\ p \in Nat /\ o <= p
    BY EndSizes DEF EndsStep
  <1>2. l \in Nat /\ m \in Nat /\ l <= m
    BY DEF EndsStep
  <1>3. seen + a <= 2 * faults + o + l
    BY DEF EndsExplained
  <1>4. seen \in Nat /\ seen' \in Nat /\ faults \in Nat /\ faults' \in Nat
    BY DEF EndsStep
  <1>5. \/ b <= a /\ faults' >= faults /\ seen' = seen
        \/ b <= a + 1 /\ faults' = faults + 1 /\ seen' = seen + 1
        \/ b <= a + 1 /\ faults' = faults /\ seen' = seen /\ m = l + 1
        \/ b + 1 <= a /\ faults' = faults /\ seen' = seen + 1
        \/ b <= a /\ faults' = faults /\ seen' = seen + 1 /\ o + 1 <= p
    <2>1. CASE Abandoned' \subseteq Abandoned /\ faults' >= faults /\ seen' = seen
      BY <2>1, EndSizes
    <2>2. CASE \E k : Abandoned' \subseteq Abandoned \cup {k}
      <3>1. lifetime = "alive" /\ lifetime' # "alive" => m = l + 1
        OBVIOUS
      <3> QED
        BY <2>2, <3>1, EndSizes DEF EndsStep
    <2>3. CASE Abandoned' = {}
      <3>1. b <= a /\ (Abandoned # {} => b + 1 <= a)
        BY <2>3, EndSizes
      <3>2. (\E k : k \notin Over /\ Over \cup {k} \subseteq Over') => o + 1 <= p
        BY EndSizes
      <3> QED
        BY <1>1, <1>4, <2>3, <3>1, <3>2 DEF EndsStep
    <2> QED
      BY <2>1, <2>2, <2>3 DEF EndsStep
  <1> HIDE DEF a, b, o, p, l, m
  <1>6. seen' + b <= 2 * faults' + p + m
    <2>1. CASE b <= a /\ faults' >= faults /\ seen' = seen
      <3> DEFINE x == 2 * faults
                 y == 2 * faults'
      <3>1. x \in Nat /\ y \in Nat /\ x <= y
        BY <1>4, <2>1, Twice
      <3>2. seen + a <= x + o + l
        BY <1>3
      <3> HIDE DEF x, y
      <3>3. seen' + b <= y + p + m
        BY <1>1, <1>2, <1>4, <2>1, <3>1, <3>2
      <3> QED
        BY <3>3 DEF y
    <2>2. CASE b <= a + 1 /\ faults' = faults + 1 /\ seen' = seen + 1
      BY <1>1, <1>2, <1>3, <1>4, <2>2
    <2>3. CASE b <= a + 1 /\ faults' = faults /\ seen' = seen /\ m = l + 1
      BY <1>1, <1>2, <1>3, <1>4, <2>3
    <2>4. CASE b + 1 <= a /\ faults' = faults /\ seen' = seen + 1
      BY <1>1, <1>2, <1>3, <1>4, <2>4
    <2>5. CASE b <= a /\ faults' = faults /\ seen' = seen + 1 /\ o + 1 <= p
      BY <1>1, <1>2, <1>3, <1>4, <2>5
    <2> QED
      BY <1>5, <2>1, <2>2, <2>3, <2>4, <2>5
  <1> QED
    BY <1>6 DEF EndsExplained, a, b, o, p, l, m

LEMMA SystemTypes ==
    SystemInv =>
        /\ seen \in 0..OwnFaults /\ seen \in Nat
        /\ faults \in 0..MaxFaults /\ faults \in Nat /\ MaxFaults \in Nat
        /\ running \in BOOLEAN /\ executions \in [Items -> Nat]
        /\ cl \in [ConnIds -> ClientEnds] /\ sv \in [ConnIds -> ServerEnds]
        /\ req \in [ConnIds -> Seq(Messages)] /\ rsp \in [ConnIds -> Seq(Answers)]
        /\ op \in [SessionIds -> Ops] /\ conn \in [SessionIds -> ConnIds \cup {Nobody}]
        /\ cdata \in [SessionIds -> Messages \cup {Nothing}]
        /\ response \in [SessionIds -> Answers \cup {Nothing}]
  <1> SUFFICES ASSUME SystemInv
               PROVE
        /\ seen \in 0..OwnFaults /\ seen \in Nat
        /\ faults \in 0..MaxFaults /\ faults \in Nat /\ MaxFaults \in Nat
        /\ running \in BOOLEAN /\ executions \in [Items -> Nat]
        /\ cl \in [ConnIds -> ClientEnds] /\ sv \in [ConnIds -> ServerEnds]
        /\ req \in [ConnIds -> Seq(Messages)] /\ rsp \in [ConnIds -> Seq(Answers)]
        /\ op \in [SessionIds -> Ops] /\ conn \in [SessionIds -> ConnIds \cup {Nobody}]
        /\ cdata \in [SessionIds -> Messages \cup {Nothing}]
        /\ response \in [SessionIds -> Answers \cup {Nothing}]
    OBVIOUS
  <1>1. seen \in 0..OwnFaults /\ executions \in [Items -> Nat]
    BY DEF SystemInv, CP!ClientInv, CP!ClientTypeOK, CP!WireTypeOK, CP!Items, Items
  <1>2. /\ faults \in 0..MaxFaults /\ running \in BOOLEAN
        /\ cl \in [ConnIds -> ClientEnds] /\ sv \in [ConnIds -> ServerEnds]
        /\ req \in [ConnIds -> Seq(Messages)] /\ rsp \in [ConnIds -> Seq(Answers)]
    BY DEF SystemInv, SP!ServerInv, SP!ServerTypeOK, SP!WireTypeOK, ClientEnds, SP!ClientEnds,
        ServerEnds, SP!ServerEnds, SP!Messages, Messages, SP!MessageKinds, MessageKinds,
        SP!Answers, Answers
  <1>3. /\ op \in [SessionIds -> Ops] /\ conn \in [SessionIds -> ConnIds \cup {Nobody}]
        /\ cdata \in [SessionIds -> Messages \cup {Nothing}]
        /\ response \in [SessionIds -> Answers \cup {Nothing}]
    BY DEF SystemInv, SP!ServerInv, SP!ServerTypeOK, SP!Messages, Messages, SP!MessageKinds,
        MessageKinds, SP!Answers, Answers, SP!Ops, Ops
  <1> QED
    BY <1>1, <1>2, <1>3, Connections

\* The connection that start() opens is a fresh one, within the bound.
LEMMA NextConnection ==
    SystemInv /\ pc = "open" =>
        /\ cur + 1 \in OwnConns /\ cl[cur + 1] = "none" /\ sv[cur + 1] = "none"
        /\ cur >= 1 => cl[cur] = "broken"
  <1> SUFFICES ASSUME SystemInv, pc = "open"
               PROVE  cur + 1 \in OwnConns /\ cl[cur + 1] = "none" /\ sv[cur + 1] = "none"
    BY DEF SystemInv, ConnectionsUsed
  <1>1. cur \in Nat /\ seen \in 0..OwnFaults /\ OwnFaults \in Nat /\ OwnConns = 1..OwnFaults + 1
    BY OwnLocals, SystemTypes, Connections DEF SystemInv
  <1>2. cur <= seen
    BY DEF SystemInv, CP!ClientInv, CP!FailuresAccounted
  <1>3. cur + 1 \in OwnConns /\ cur + 1 \in cur + 1..OwnFaults + 1
    BY <1>1, <1>2
  <1> QED
    BY <1>3 DEF SystemInv, CP!ClientInv, CP!FreshConnections, Own

LEMMA MainEnds == ASSUME SystemInv, ByClient(MainStep) PROVE EndsStep
  <1>1. /\ seen \in Nat /\ faults \in Nat /\ seen' = seen + (faults' - faults)
        /\ UNCHANGED <<op, conn>>
    BY SystemTypes DEF ByClient, sessionVars
  <1>2. \A k \in OtherConns : cl'[k] = cl[k] /\ sv'[k] = sv[k]
    BY MainMoves DEF ByClient
  <1>3. Over \subseteq Over'
    BY <1>1, <1>2 DEF Over
  <1>4. cl \in [ConnIds -> ClientEnds] /\ sv \in [ConnIds -> ServerEnds] /\ OwnConns \subseteq ConnIds
    BY SystemTypes, Connections
  <1>5. CASE Open
    <2>1. /\ faults' = faults /\ lifetime' = lifetime
          /\ cl' = [k \in ConnIds |-> IF k = cur + 1 THEN "up"
                                      ELSE IF k = cur THEN "closed" ELSE cl[k]]
          /\ sv' = [sv EXCEPT ![cur + 1] = "backlog"]
          /\ cur \in Nat /\ (cur >= 1 => cl[cur] = "broken")
      BY <1>5, OwnLocals, NextConnection DEF Open, SystemInv
    <2>2. \A k \in OwnConns : /\ k >= 1 /\ k \in ConnIds
                              /\ cl'[k] \in {"broken", "closed"} => k # cur + 1
      BY <1>4, <2>1, Connections
    <2>3. \A k \in OwnConns : cl'[k] \in {"broken", "closed"} =>
                                cl[k] \in {"broken", "closed"} /\ sv'[k] = sv[k]
      BY <1>4, <2>1, <2>2
    <2>4. Abandoned' \subseteq Abandoned
      BY <1>1, <2>3 DEF Abandoned
    <2>5. seen' = seen
      BY <1>1, <2>1
    <2> QED
      BY <1>1, <1>3, <2>1, <2>4, <2>5 DEF EndsStep
  <1>6. CASE DestroyClient
    <2>1. /\ cl' = [k \in ConnIds |-> IF k = cur THEN "closed" ELSE cl[k]]
          /\ UNCHANGED <<sv, faults>> /\ lifetime = "alive" /\ lifetime' = "unwound"
      BY <1>6 DEF DestroyClient
    <2>2. \A k \in OwnConns : k # cur => cl'[k] = cl[k]
      BY <1>4, <2>1
    <2>3. Abandoned' \subseteq Abandoned \cup {cur}
      BY <1>1, <2>1, <2>2 DEF Abandoned
    <2>4. seen' = seen
      BY <1>1, <2>1
    <2> QED
      BY <1>1, <1>3, <2>1, <2>3, <2>4 DEF EndsStep
  <1>7. CASE OpenFails
    <2>1. UNCHANGED <<cl, sv, lifetime>> /\ (faults' = faults \/ faults' = faults + 1)
      BY <1>7 DEF OpenFails, Fault
    <2>2. Abandoned' = Abandoned
      BY <1>1, <2>1 DEF Abandoned
    <2>3. \/ faults' = faults /\ seen' = seen
          \/ faults' = faults + 1 /\ seen' = seen + 1
      BY <1>1, <2>1
    <2> QED
      BY <1>1, <1>3, <2>1, <2>2, <2>3 DEF EndsStep
  <1>8. CASE UNCHANGED <<cl, sv, faults>> /\ (lifetime # "alive" => lifetime' # "alive")
    <2>1. Abandoned' = Abandoned
      BY <1>1, <1>8 DEF Abandoned
    <2>2. seen' = seen
      BY <1>1, <1>8
    <2> QED
      BY <1>1, <1>3, <1>8, <2>1, <2>2 DEF EndsStep
  <1> QED
    BY <1>5, <1>6, <1>7, <1>8
    DEF ByClient, MainStep, Handshake, HandshakeFails, Poll, TakeFront, Write, Read, PopFront,
        SendBroken, SendThrows, AskQueue, AskScraper, DestroyStatics, EndProcess, wireVars

-----------------------------------------------------------------------------
(* The steps of the client's threads are those of a client on its own.     *)

LEMMA MainSimulates ==
    ASSUME SystemInv, ByClient(MainStep), seen' \in 0..OwnFaults PROVE CP!MainStep
  <1>1. /\ seen \in Nat /\ faults \in Nat /\ seen' = seen + (faults' - faults)
    BY SystemTypes DEF ByClient
  <1>2. /\ cl \in [ConnIds -> ClientEnds] /\ sv \in [ConnIds -> ServerEnds]
        /\ req \in [ConnIds -> Seq(Messages)] /\ rsp \in [ConnIds -> Seq(Answers)]
        /\ OwnConns \subseteq ConnIds
    BY SystemTypes, Connections
  <1>3. pc \notin {"open"} \cup Ended => cur \in OwnConns
    BY OwnLocals DEF SystemInv
  <1> USE DEF Own, scraperVars, CP!scraperVars, mainVars, CP!mainVars
  <1>4. CASE Open
    <2>1. seen' = seen /\ cur + 1 \in OwnConns
      BY <1>1, <1>4, NextConnection DEF Open
    <2>2. /\ Own(cl)' = [k \in OwnConns |-> IF k = cur + 1 THEN "up"
                                            ELSE IF k = cur THEN "closed" ELSE Own(cl)[k]]
          /\ Own(sv)' = [Own(sv) EXCEPT ![cur + 1] = "backlog"]
      BY <1>2, <1>4, <2>1 DEF Open
    <2>3. UNCHANGED <<Own(req), Own(rsp), Own(hand)>>
      BY <1>4 DEF Open
    <2>4. CP!Open
      BY <1>4, <2>1, <2>2, <2>3 DEF Open, CP!Open
    <2> QED
      BY <2>4 DEF CP!MainStep
  <1>5. CASE OpenFails
    <2>1. \/ ~running /\ seen' = seen
          \/ seen' = seen + 1
      BY <1>1, <1>5 DEF OpenFails, Fault
    <2>2. CP!Fault \/ (~running /\ seen' = seen)
      BY <1>1, <2>1, Connections DEF CP!Fault
    <2>3. CP!OpenFails
      BY <1>5, <2>2 DEF OpenFails, CP!OpenFails
    <2> QED
      BY <2>3 DEF CP!MainStep
  <1>6. CASE Write
    <2>1. seen' = seen /\ cur \in OwnConns
      BY <1>1, <1>3, <1>6 DEF Write, Ended
    <2>2. Own(req)' = [Own(req) EXCEPT ![cur] = Append(@, Request(cur, data))]
      BY <1>2, <1>6, <2>1 DEF Write
    <2>3. CP!Write
      BY <1>6, <2>1, <2>2 DEF Write, CP!Write, CP!Request, Request
    <2> QED
      BY <2>3 DEF CP!MainStep
  <1>7. CASE Read
    <2>1. seen' = seen /\ cur \in OwnConns
      BY <1>1, <1>3, <1>7 DEF Read, Ended
    <2>2. Own(rsp)' = [Own(rsp) EXCEPT ![cur] = Tail(@)]
      BY <1>2, <1>7, <2>1 DEF Read
    <2>3. CP!Read
      BY <1>7, <2>1, <2>2 DEF Read, CP!Read
    <2> QED
      BY <2>3 DEF CP!MainStep
  <1>8. CASE DestroyClient
    <2>1. seen' = seen
      BY <1>1, <1>8 DEF DestroyClient
    <2>2. Own(cl)' = [k \in OwnConns |-> IF k = cur THEN "closed" ELSE Own(cl)[k]]
      BY <1>2, <1>8 DEF DestroyClient
    <2>3. CP!DestroyClient
      BY <1>8, <2>1, <2>2 DEF DestroyClient, CP!DestroyClient, CP!Ended, Ended
    <2> QED
      BY <2>3 DEF CP!MainStep
  <1>9. CASE Handshake \/ HandshakeFails \/ SendBroken \/ SendThrows
    <2>1. seen' = seen /\ cur \in OwnConns
      BY <1>1, <1>3, <1>9 DEF Handshake, HandshakeFails, SendBroken, SendThrows, wireVars, Ended
    <2>2. UNCHANGED CP!wireVars
      BY <1>9, <2>1 DEF Handshake, HandshakeFails, SendBroken, SendThrows, wireVars, CP!wireVars
    <2>3. CP!Handshake \/ CP!HandshakeFails \/ CP!SendBroken \/ CP!SendThrows
      BY <1>9, <2>1, <2>2
      DEF Handshake, HandshakeFails, SendBroken, SendThrows,
          CP!Handshake, CP!HandshakeFails, CP!SendBroken, CP!SendThrows
    <2> QED
      BY <2>3 DEF CP!MainStep
  <1>10. CASE \/ Poll \/ TakeFront \/ PopFront \/ AskQueue \/ AskScraper
              \/ DestroyStatics \/ EndProcess
    <2>1. UNCHANGED <<wireVars, hand>>
      BY <1>10 DEF Poll, TakeFront, PopFront, AskQueue, AskScraper, DestroyStatics, EndProcess
    <2>2. UNCHANGED <<CP!wireVars, Own(hand)>>
      BY <1>1, <2>1 DEF wireVars, CP!wireVars
    <2>3. \/ CP!Poll \/ CP!TakeFront \/ CP!PopFront \/ CP!AskQueue \/ CP!AskScraper
          \/ CP!DestroyStatics \/ CP!EndProcess
      BY <1>10, <2>2
      DEF Poll, TakeFront, PopFront, AskQueue, AskScraper, DestroyStatics, EndProcess,
          CP!Poll, CP!TakeFront, CP!PopFront, CP!AskQueue, CP!AskScraper, CP!DestroyStatics,
          CP!EndProcess, Decide, CP!Decide, KeepAlive, CP!KeepAlive, ScraperGood, CP!ScraperGood
    <2> QED
      BY <2>3 DEF CP!MainStep
  <1> QED
    BY <1>4, <1>5, <1>6, <1>7, <1>8, <1>9, <1>10 DEF ByClient, MainStep

LEMMA ScraperSimulates ==
    ASSUME SystemInv, ByClient(ScraperRuns(ScraperNext)) PROVE CP!ScraperRuns(CP!ScraperNext)
  <1>1. seen' = seen
    BY SystemTypes DEF ByClient, ScraperRuns, wireVars
  <1>2. UNCHANGED <<CP!wireVars, Own(hand)>>
    BY <1>1 DEF ByClient, ScraperRuns, wireVars, CP!wireVars, Own
  <1>3. CP!ScraperNext
    BY DEF ByClient, ScraperRuns, ScraperNext, CP!ScraperNext, ScraperStep, CP!ScraperStep,
           GetDatum, CP!GetDatum, EndOfInput, CP!EndOfInput, WriteDatum, CP!WriteDatum,
           LeaveLoop, CP!LeaveLoop, ReadError, CP!ReadError, CanRead, CP!CanRead,
           StreamOk, CP!StreamOk, LineFlags, CP!LineFlags, AfterParsing, CP!AfterParsing
  <1> QED
    BY <1>2, <1>3 DEF ByClient, ScraperRuns, CP!ScraperRuns, mainVars, CP!mainVars

-----------------------------------------------------------------------------
(* The steps of the sessions are those of a server as the client knows it. *)

SameWire(k) == cl'[k] = cl[k] /\ sv'[k] = sv[k] /\ req'[k] = req[k] /\ rsp'[k] = rsp[k]

\* What no step of a server that goes on does: it abandons no connection, and what it is
\* done with it is done with for good.
QuietEnds ==
    /\ cl' = cl
    /\ \A k \in ConnIds :
        /\ sv'[k] = "backlog" => sv[k] = "backlog"
        /\ sv[k] \in {"closed", "broken"} => sv'[k] \in {"closed", "broken"}
    /\ \A s \in SessionIds :
        /\ conn'[s] # conn[s] /\ conn'[s] # Nobody => sv[conn'[s]] = "backlog"
        /\ conn'[s] = conn[s] /\ conn[s] # Nobody /\ op'[s] \in {"accept", "handshake"} =>
                op[s] \in {"accept", "handshake"}

LEMMA QuietEndsStep ==
    ASSUME SystemInv, ByServer(TRUE), running' = running, faults' \in {faults, faults + 1}, QuietEnds
    PROVE  EndsStep
  <1>1. seen \in Nat /\ faults \in Nat
    BY SystemTypes
  <1>2. seen' = seen /\ lifetime' = lifetime
    BY DEF ByServer, processVars
  <1>3. \A k \in ConnIds : k # Nobody
    BY Connections
  <1>4. Abandoned' \subseteq Abandoned
    <2> SUFFICES ASSUME NEW k \in OwnConns, cl'[k] \in {"broken", "closed"},
                        \/ sv'[k] = "backlog"
                        \/ \E s \in SessionIds : conn'[s] = k /\ op'[s] \in {"accept", "handshake"}
                 PROVE  \/ sv[k] = "backlog"
                        \/ \E s \in SessionIds : conn[s] = k /\ op[s] \in {"accept", "handshake"}
      BY DEF Abandoned, QuietEnds
    <2> QED
      BY <1>3, Connections DEF QuietEnds
  <1>5. Over \subseteq Over'
    <2> SUFFICES ASSUME NEW k \in OtherConns, cl[k] # "none", sv[k] \in {"closed", "broken"},
                        \A s \in SessionIds : conn[s] # k
                 PROVE  /\ cl'[k] # "none" /\ sv'[k] \in {"closed", "broken"}
                        /\ \A s \in SessionIds : conn'[s] # k
      BY DEF Over
    <2> QED
      BY <1>3, Connections DEF QuietEnds
  <1>6. faults' \in Nat /\ faults' >= faults
    BY <1>1
  <1> QED
    BY <1>1, <1>2, <1>4, <1>5, <1>6 DEF EndsStep

LEMMA NoneExecuted ==
    ASSUME executions \in [Items -> Nat], ByServer(TRUE),
           \A k \in OwnConns : hand'[k] = hand[k] \/ hand'[k] = <<>>
    PROVE  executions' = executions
  <1>1. \A n : ItemsTaken(n) = {}
    BY DEF ItemsTaken
  <1>2. \A n : Cardinality(ItemsTaken(n)) = 0
    BY <1>1, FS_EmptySet
  <1>3. executions' = [n \in Items |-> executions[n] + 0]
    BY <1>2 DEF ByServer
  <1> QED
    BY <1>3

LEMMA OneExecuted ==
    ASSUME executions \in [Items -> Nat], ByServer(TRUE), NEW k \in OwnConns, NEW m, m.id \in Items,
           hand[k] = <<>>, hand'[k] = <<m>>, \A j \in OwnConns : j # k => hand'[j] = hand[j]
    PROVE  executions' = [executions EXCEPT ![m.id] = @ + 1]
  <1>1. hand'[k] # <<>> /\ hand'[k][1] = m
    OBVIOUS
  <1>2. \A n : ItemsTaken(n) = IF n = m.id THEN {k} ELSE {}
    BY <1>1 DEF ItemsTaken
  <1>3. Cardinality({k}) = 1 /\ Cardinality({}) = 0
    BY FS_EmptySet, FS_Singleton
  <1>4. \A n : Cardinality(ItemsTaken(n)) = IF n = m.id THEN 1 ELSE 0
    BY <1>2, <1>3
  <1>5. executions' = [n \in Items |-> executions[n] + (IF n = m.id THEN 1 ELSE 0)]
    BY <1>4 DEF ByServer
  <1> DEFINE x == m.id
  <1>6. x \in Items /\ executions' = [n \in Items |-> executions[n] + (IF n = x THEN 1 ELSE 0)]
    BY <1>5
  <1> HIDE DEF x
  <1>7. \A n \in Items : executions[n] \in Nat /\ executions[n] + 0 = executions[n]
    OBVIOUS
  <1>8. executions' = [executions EXCEPT ![x] = executions[x] + 1]
    BY <1>6, <1>7
  <1> QED
    BY <1>8 DEF x

\* A step of the server in which nothing of the client's connections changes.
LEMMA AsStutter ==
    ASSUME SystemInv, ByServer(TRUE), running' = running,
           \A k \in OwnConns : SameWire(k) /\ hand'[k] = hand[k]
    PROVE  UNCHANGED CP!clientVars
  <1>1. executions' = executions
    BY SystemTypes, NoneExecuted
  <1>2. seen' = seen /\ UNCHANGED processVars
    BY DEF ByServer
  <1> QED
    BY <1>1, <1>2
    DEF processVars, mainVars, scraperVars, CP!clientVars, CP!wireVars, CP!mainVars, CP!scraperVars,
        SameWire, Own

\* A step in which one of them changes.
LEMMA AsSession ==
    ASSUME SystemInv, ByServer(TRUE), running, running' = running, NEW k \in OwnConns,
           \A j \in OwnConns : j # k => SameWire(j) /\ hand'[j] = hand[j],
           cl'[k] = cl[k],
           \/ /\ sv[k] = "backlog" /\ sv'[k] = "up"
              /\ req'[k] = req[k] /\ rsp'[k] = rsp[k] /\ hand'[k] = hand[k]
           \/ /\ sv[k] = "up" /\ sv'[k] = sv[k] /\ req[k] # <<>> /\ hand[k] = <<>>
              /\ req'[k] = Tail(req[k]) /\ hand'[k] = <<Head(req[k])>> /\ rsp'[k] = rsp[k]
           \/ /\ sv[k] = "up" /\ sv'[k] = sv[k] /\ cl[k] # "closed" /\ hand[k] # <<>>
              /\ rsp'[k] = Append(rsp[k], Response(k, Head(hand[k]).id))
              /\ hand'[k] = <<>> /\ req'[k] = req[k]
           \/ /\ sv[k] \in {"up", "broken"} /\ cl[k] # "up" /\ hand'[k] = <<>> /\ rsp'[k] = rsp[k]
              /\ \/ sv'[k] = sv[k] /\ req'[k] = req[k]
                 \/ sv'[k] = "closed" /\ req'[k] = <<>>
    PROVE  CP!RestOfWorld
  <1>1. /\ seen' = seen /\ UNCHANGED <<scraperVars, mainVars, answered, lifetime>>
        /\ executions \in [Items -> Nat]
    BY SystemTypes DEF ByServer, processVars
  <1>2. Own(cl)' = Own(cl)
    BY DEF SameWire, Own
  <1> USE DEF Own, SameWire, scraperVars, CP!scraperVars, mainVars, CP!mainVars
  <1>3. CASE /\ sv[k] = "backlog" /\ sv'[k] = "up"
             /\ req'[k] = req[k] /\ rsp'[k] = rsp[k] /\ hand'[k] = hand[k]
    <2>1. executions' = executions
      BY <1>1, <1>3, NoneExecuted
    <2>2. Own(sv)' = [Own(sv) EXCEPT ![k] = "up"] /\ UNCHANGED <<Own(req), Own(rsp), Own(hand)>>
      BY <1>3
    <2>3. CP!ServerAccepts(k)
      BY <1>1, <1>2, <1>3, <2>1, <2>2 DEF CP!ServerAccepts
    <2> QED
      BY <2>3 DEF CP!RestOfWorld, CP!ServerStep
  <1>4. CASE /\ sv[k] = "up" /\ sv'[k] = sv[k] /\ req[k] # <<>> /\ hand[k] = <<>>
             /\ req'[k] = Tail(req[k]) /\ hand'[k] = <<Head(req[k])>> /\ rsp'[k] = rsp[k]
    <2>1. Head(req[k]).id \in Items
      <3> DEFINE R == [from : OwnConns, id : Items, kind : {"request"}]
      <3>1. req[k] \in Seq(R) /\ req[k] # <<>>
        BY <1>4, OwnTypes DEF SystemInv
      <3> HIDE DEF R
      <3>2. Head(req[k]) \in R
        BY <3>1
      <3> QED
        BY <3>2 DEF R
    <2>2. executions' = [executions EXCEPT ![Head(req[k]).id] = @ + 1]
      BY <1>1, <1>4, <2>1, OneExecuted
    <2>3. /\ Own(req)' = [Own(req) EXCEPT ![k] = Tail(@)]
          /\ Own(hand)' = [Own(hand) EXCEPT ![k] = <<Head(req[k])>>]
          /\ UNCHANGED <<Own(sv), Own(rsp)>>
      BY <1>4
    <2>4. CP!ServerReads(k)
      BY <1>1, <1>2, <1>4, <2>2, <2>3 DEF CP!ServerReads
    <2> QED
      BY <2>4 DEF CP!RestOfWorld, CP!ServerStep
  <1>5. CASE /\ sv[k] = "up" /\ sv'[k] = sv[k] /\ cl[k] # "closed" /\ hand[k] # <<>>
             /\ rsp'[k] = Append(rsp[k], Response(k, Head(hand[k]).id))
             /\ hand'[k] = <<>> /\ req'[k] = req[k]
    <2>1. executions' = executions
      BY <1>1, <1>5, NoneExecuted
    <2>2. /\ Own(rsp)' = [Own(rsp) EXCEPT ![k] = Append(@, Response(k, Head(hand[k]).id))]
          /\ Own(hand)' = [Own(hand) EXCEPT ![k] = <<>>]
          /\ UNCHANGED <<Own(sv), Own(req)>>
      BY <1>5
    <2>3. CP!ServerWrites(k)
      BY <1>1, <1>2, <1>5, <2>1, <2>2 DEF CP!ServerWrites, CP!Response, Response
    <2> QED
      BY <2>3 DEF CP!RestOfWorld, CP!ServerStep
  <1>6. CASE /\ sv[k] \in {"up", "broken"} /\ cl[k] # "up" /\ hand'[k] = <<>> /\ rsp'[k] = rsp[k]
             /\ \/ sv'[k] = sv[k] /\ req'[k] = req[k]
                \/ sv'[k] = "closed" /\ req'[k] = <<>>
    <2>1. executions' = executions
      BY <1>1, <1>6, NoneExecuted
    <2>2. Own(hand)' = [Own(hand) EXCEPT ![k] = <<>>] /\ Own(rsp)' = Own(rsp)
      BY <1>6
    <2>3. \/ UNCHANGED <<Own(sv), Own(req)>>
          \/ /\ Own(sv)' = [Own(sv) EXCEPT ![k] = "closed"]
             /\ Own(req)' = [Own(req) EXCEPT ![k] = <<>>]
      BY <1>6
    <2>4. CP!ServerDrops(k)
      BY <1>1, <1>2, <1>6, <2>1, <2>2, <2>3 DEF CP!ServerDrops
    <2> QED
      BY <2>4 DEF CP!RestOfWorld
  <1> QED
    BY <1>3, <1>4, <1>5, <1>6

LEMMA CompletionEffect ==
    ASSUME SystemInv, NEW s \in SessionIds, NEW o, Pending(s, o), NEW ok \in BOOLEAN, Post(s, ok)
    PROVE  /\ running /\ op[s] = o /\ ~SP!Posted(s) /\ ~SP!PostedOk(s)
           /\ SP!Posted(s)' /\ (SP!PostedOk(s)' <=> ok)
           /\ \A t \in SessionIds : t # s =>
                (SP!Posted(t)' <=> SP!Posted(t)) /\ (SP!PostedOk(t)' <=> SP!PostedOk(t))
  <1>1. running /\ op[s] = o /\ ~SP!Posted(s)
    BY DEF Pending, SP!Posted
  <1>2. ready \in Seq(SP!Handlers) /\ SP!HandlersOnce /\ SP!Post(s, ok)
    BY DEF SystemInv, SP!ServerInv, SP!ServerTypeOK, SP!Operations, SP!Handlers, Post, SP!Post
  <1>3. ~SP!PostedOk(s)
    BY <1>1, ServerConstants, SP!OkIsPosted
  <1> QED
    BY <1>1, <1>2, <1>3, ServerConstants, SP!PostEffect

LEMMA HandlerEffect ==
    ASSUME SystemInv, NEW s \in SessionIds, NEW o, NEW ok \in BOOLEAN, Handles(s, o, ok),
           ready' = Tail(ready)
    PROVE  /\ running /\ op[s] = o
           /\ SP!Posted(s) /\ (SP!PostedOk(s) <=> ok) /\ ~SP!Posted(s)' /\ ~SP!PostedOk(s)'
           /\ \A t \in SessionIds : t # s =>
                (SP!Posted(t)' <=> SP!Posted(t)) /\ (SP!PostedOk(t)' <=> SP!PostedOk(t))
  <1>1. SP!ServerInv /\ SP!Handles(s, o, ok)
    BY DEF SystemInv, Handles, SP!Handles
  <1> QED
    BY <1>1, ServerConstants, SP!HandlesEffect

LEMMA HandSame ==
    ASSUME SystemInv, ByServer(TRUE), NEW j \in ConnIds,
           \A t \in SessionIds :
                /\ SP!Holds(t, j)' <=> SP!Holds(t, j)
                /\ SP!Holds(t, j) => cdata'[t] = cdata[t]
    PROVE  hand'[j] = hand[j]
  <1>1. \A t \in SessionIds : /\ Holds(t, j)' <=> Holds(t, j)
                              /\ Holds(t, j) => cdata'[t] = cdata[t]
    BY HoldsAre
  <1> DEFINE G == {cdata[s] : s \in {t \in SessionIds : Holds(t, j)}}
             H == {cdata'[s] : s \in {t \in SessionIds : Holds(t, j)'}}
             B(held) == IF held = {} THEN <<>> ELSE <<CHOOSE m \in held : TRUE>>
  <1>2. G = H
    BY <1>1
  <1>3. BeingServed(j) = B(G) /\ BeingServed(j)' = B(H)
    BY DEF BeingServed
  <1> HIDE DEF B, G, H
  <1>4. BeingServed(j)' = BeingServed(j)
    BY <1>2, <1>3
  <1> QED
    BY <1>4 DEF SystemInv, ByServer

\* A session that is left alone, or only goes on from what it has.
LEMMA OwnSessionKept ==
    ASSUME NEW t \in SessionIds, OwnSession(t), file' = file, conn'[t] = conn[t],
           conn[t] \in OwnConns /\ cl[conn[t]] \in {"broken", "closed"} => cl'[conn[t]] \in {"broken", "closed"},
           SP!HeaderKnown(t)' \/ SP!Whole(t)' =>
                (SP!HeaderKnown(t) \/ SP!Whole(t)) /\ cdata'[t] = cdata[t],
           op'[t] \notin {"none", "accept"} /\ SP!Posted(t)' /\ ~SP!PostedOk(t)' =>
                \/ op[t] \notin {"none", "accept"} /\ SP!Posted(t) /\ ~SP!PostedOk(t)
                \/ cl'[conn[t]] \in {"broken", "closed"}
    PROVE  OwnSession(t)'
  BY DEF OwnSession, OwnRequests, Items

LEMMA UntouchedOwn ==
    ASSUME NEW t \in SessionIds, OwnSession(t), file' = file, SP!Untouched(t),
           conn[t] \in OwnConns /\ cl[conn[t]] \in {"broken", "closed"} => cl'[conn[t]] \in {"broken", "closed"}
    PROVE  OwnSession(t)'
  <1>1. /\ op'[t] = op[t] /\ conn'[t] = conn[t] /\ cdata'[t] = cdata[t]
        /\ (SP!Posted(t)' <=> SP!Posted(t)) /\ (SP!PostedOk(t)' <=> SP!PostedOk(t))
    BY DEF SP!Untouched
  <1>2. (SP!HeaderKnown(t)' <=> SP!HeaderKnown(t)) /\ (SP!Whole(t)' <=> SP!Whole(t))
    BY <1>1 DEF SP!HeaderKnown, SP!Whole
  <1> QED
    BY <1>1, <1>2, OwnSessionKept

\* What is to be shown of a step of the server.
ServerStepOk ==
    /\ EndsStep
    /\ UNCHANGED CP!clientVars \/ CP!RestOfWorld
    /\ \A t \in SessionIds : OwnSession(t)'

LEMMA AcceptStep ==
    ASSUME SystemInv, NEW s \in SessionIds, ByServer(AcceptCompletes(s)) PROVE ServerStepOk
  <1>1. PICK k \in ConnIds : /\ sv[k] = "backlog" /\ conn' = [conn EXCEPT ![s] = k]
                             /\ sv' = [sv EXCEPT ![k] = "up"]
    BY DEF ByServer, AcceptCompletes
  <1>2. /\ Pending(s, "accept") /\ Post(s, TRUE) /\ ByServer(TRUE)
        /\ UNCHANGED <<cl, req, rsp, running, faults, op, cdata, response>> /\ file' = file
    BY DEF ByServer, AcceptCompletes, processVars, scraperVars
  <1>3. /\ running /\ op[s] = "accept" /\ ~SP!Posted(s) /\ ~SP!PostedOk(s)
        /\ \A t \in SessionIds : t # s =>
            (SP!Posted(t)' <=> SP!Posted(t)) /\ (SP!PostedOk(t)' <=> SP!PostedOk(t))
    BY <1>2, CompletionEffect
  <1>4. /\ sv \in [ConnIds -> ServerEnds] /\ conn \in [SessionIds -> ConnIds \cup {Nobody}]
        /\ sv'[k] = "up" /\ (\A j \in ConnIds : j # k => sv'[j] = sv[j])
        /\ conn'[s] = k /\ (\A t \in SessionIds : t # s => conn'[t] = conn[t])
    BY <1>1, SystemTypes
  <1>5. \A t \in SessionIds : t # s => SP!Untouched(t)
    BY <1>2, <1>3, <1>4 DEF SP!Untouched
  <1>6. \A j \in ConnIds : hand'[j] = hand[j]
    <2>1. \A j \in ConnIds, t \in SessionIds : SP!Holds(t, j)' <=> SP!Holds(t, j)
      BY <1>2, <1>3, <1>5, ServerConstants, SP!UntouchedHolds, SP!HoldsIs
    <2> QED
      BY <1>2, <2>1, HandSame
  <1>7. EndsStep
    BY <1>1, <1>2, <1>3, <1>4, QuietEndsStep DEF QuietEnds
  <1>8. UNCHANGED CP!clientVars \/ CP!RestOfWorld
    <2>1. \A j \in OwnConns : j # k => SameWire(j) /\ hand'[j] = hand[j]
      BY <1>2, <1>4, <1>6, Connections DEF SameWire
    <2>2. CASE k \in OwnConns
      BY <1>1, <1>2, <1>3, <1>4, <1>6, <2>1, <2>2, AsSession
    <2>3. CASE k \notin OwnConns
      BY <1>2, <2>1, <2>3, AsStutter
    <2> QED
      BY <2>2, <2>3
  <1>9. ASSUME NEW t \in SessionIds PROVE OwnSession(t)'
    <2>1. CASE t = s
      BY <1>2, <1>3, <2>1 DEF OwnSession, SP!HeaderKnown, SP!Whole
    <2>2. CASE t # s
      BY <1>2, <1>5, <2>2, UntouchedOwn DEF SystemInv
    <2> QED
      BY <2>1, <2>2
  <1> QED
    BY <1>7, <1>8, <1>9 DEF ServerStepOk

\* The connection of a session that has one.
LEMMA SessionConn ==
    ASSUME SystemInv, NEW s \in SessionIds, op[s] \notin {"none", "accept"}
    PROVE  /\ conn[s] \in ConnIds
           /\ sv[conn[s]] \in {"up", "broken"} /\ cl[conn[s]] # "none"
           /\ sv[conn[s]] = "broken" => cl[conn[s]] \in {"broken", "closed"}
           /\ \A t \in SessionIds : conn[t] = conn[s] => t = s
  <1>1. /\ conn[s] \in ConnIds /\ conn[s] # Nobody /\ sv[conn[s]] \in {"up", "broken"}
        /\ cl[conn[s]] # "none" /\ (sv[conn[s]] = "broken" => cl[conn[s]] # "up")
    BY SystemTypes DEF SystemInv, SP!ServerInv, SP!Socket, SP!Ends
  <1>2. \A t \in SessionIds : conn[t] = conn[s] => t = s
    BY <1>1 DEF SystemInv, SP!ServerInv, SP!SocketsApart
  <1>3. cl[conn[s]] \in {"none", "up", "broken", "closed"}
    BY <1>1, SystemTypes DEF ClientEnds
  <1> QED
    BY <1>1, <1>2, <1>3

\* An operation completes, and the session has nothing more than before.
LEMMA PostOnlyStep ==
    ASSUME SystemInv, NEW s \in SessionIds, NEW o, Pending(s, o), NEW ok \in BOOLEAN, Post(s, ok),
           ByServer(TRUE), UNCHANGED <<cl, sv, req, rsp, running, op, conn, cdata, response>>,
           faults' \in {faults, faults + 1}, o # "write", ok => o = "handshake",
           ~ok /\ o # "accept" => sv[conn[s]] = "broken" \/ cl[conn[s]] = "closed",
           o \in Ops \ {"none"}
    PROVE  ServerStepOk
  <1>1. /\ running /\ op[s] = o /\ ~SP!Posted(s) /\ ~SP!PostedOk(s)
        /\ SP!Posted(s)' /\ (SP!PostedOk(s)' <=> ok) /\ file' = file
        /\ \A t \in SessionIds : t # s =>
            (SP!Posted(t)' <=> SP!Posted(t)) /\ (SP!PostedOk(t)' <=> SP!PostedOk(t))
    BY CompletionEffect DEF ByServer, processVars, scraperVars
  <1>2. \A t \in SessionIds : t # s => SP!Untouched(t)
    BY <1>1 DEF SP!Untouched
  <1>3. \A j \in ConnIds : hand'[j] = hand[j]
    <2>1. \A j \in ConnIds, t \in SessionIds : SP!Holds(t, j)' <=> SP!Holds(t, j)
      BY <1>1, <1>2, ServerConstants, SP!UntouchedHolds, SP!HoldsIs
    <2> QED
      BY <2>1, HandSame
  <1>4. QuietEnds
    BY DEF QuietEnds
  <1>5. EndsStep
    BY <1>4, QuietEndsStep
  <1>6. UNCHANGED CP!clientVars
    BY <1>3, AsStutter, Connections DEF SameWire
  <1>7. ASSUME NEW t \in SessionIds PROVE OwnSession(t)'
    <2>1. CASE t = s
      <3>1. ~SP!HeaderKnown(s)' /\ ~SP!Whole(s)'
        BY <1>1 DEF SP!HeaderKnown, SP!Whole
      <3>2. ~ok /\ o # "accept" => cl[conn[s]] \in {"broken", "closed"}
        BY <1>1, SessionConn
      <3> QED
        BY <1>1, <2>1, <3>1, <3>2 DEF OwnSession
    <2>2. CASE t # s
      BY <1>1, <1>2, <2>2, UntouchedOwn DEF SystemInv
    <2> QED
      BY <2>1, <2>2
  <1> QED
    BY <1>5, <1>6, <1>7 DEF ServerStepOk

LEMMA OwnHead ==
    ASSUME SystemInv, NEW k \in OwnConns, req[k] # <<>>
    PROVE  Head(req[k]) = req[k][1] /\ Head(req[k]) \in OwnRequests(k) /\ sv[k] # "broken"
  <1> DEFINE R == [from : OwnConns, id : Items, kind : {"request"}]
  <1>1. req[k] \in Seq(R)
    BY OwnTypes DEF SystemInv
  <1>2. sv[k] # "broken" /\ \A i \in DOMAIN req[k] : req[k][i].from = k
    BY DEF SystemInv, OnlyOwnRequests
  <1> HIDE DEF R
  <1>3. 1 \in DOMAIN req[k] /\ Head(req[k]) = req[k][1] /\ req[k][1] \in R
    BY <1>1
  <1>4. req[k][1].from = k
    BY <1>2, <1>3
  <1> QED
    BY <1>2, <1>3, <1>4 DEF R, OwnRequests

LEMMA HeaderStep ==
    ASSUME SystemInv, NEW s \in SessionIds, ByServer(HeaderCompletes(s)) PROVE ServerStepOk
  <1> DEFINE k == conn[s]
  <1>1. /\ Pending(s, "header") /\ ByServer(TRUE) /\ file' = file
        /\ UNCHANGED <<cl, sv, req, rsp, running, faults, op, conn, response>>
    BY DEF ByServer, HeaderCompletes, processVars, scraperVars, wireVars
  <1>2. CASE EndOfStream(k) /\ Post(s, FALSE) /\ UNCHANGED cdata
    <2>1. sv[conn[s]] = "broken" \/ cl[conn[s]] = "closed"
      BY <1>2 DEF EndOfStream
    <2>2. "header" \in Ops \ {"none"} /\ faults' \in {faults, faults + 1}
      BY <1>1 DEF Ops
    <2> QED
      BY <1>1, <1>2, <2>1, <2>2, PostOnlyStep
  <1>3. CASE req[k] # <<>> /\ cdata' = [cdata EXCEPT ![s] = Head(req[k])] /\ Post(s, TRUE)
    <2>1. /\ running /\ op[s] = "header" /\ ~SP!Posted(s) /\ ~SP!PostedOk(s)
          /\ SP!Posted(s)' /\ SP!PostedOk(s)'
          /\ \A t \in SessionIds : t # s =>
            (SP!Posted(t)' <=> SP!Posted(t)) /\ (SP!PostedOk(t)' <=> SP!PostedOk(t))
      BY <1>1, <1>3, CompletionEffect
    <2>2. cdata'[s] = Head(req[k]) /\ \A t \in SessionIds : t # s => cdata'[t] = cdata[t]
      BY <1>3, SystemTypes
    <2>3. \A t \in SessionIds : t # s => SP!Untouched(t)
      BY <1>1, <2>1, <2>2 DEF SP!Untouched
    <2>4. \A j \in ConnIds : hand'[j] = hand[j]
      <3>1. ASSUME NEW j \in ConnIds, NEW t \in SessionIds
            PROVE  /\ SP!Holds(t, j)' <=> SP!Holds(t, j)
                   /\ SP!Holds(t, j) => cdata'[t] = cdata[t]
        BY <1>1, <2>1, <2>2, <2>3, ServerConstants, SP!UntouchedHolds, SP!HoldsIs
      <3> QED
        BY <1>1, <3>1, HandSame
    <2>5. QuietEnds
      BY <1>1 DEF QuietEnds
    <2>6. EndsStep
      BY <1>1, <2>5, QuietEndsStep
    <2>7. UNCHANGED CP!clientVars
      BY <1>1, <2>4, AsStutter, Connections DEF SameWire
    <2>8. ASSUME NEW t \in SessionIds PROVE OwnSession(t)'
      <3>1. CASE t = s
        <4>1. k \in OwnConns => Head(req[k]) \in OwnRequests(k)
          BY <1>3, OwnHead
        <4>2. OwnRequests(k)' = OwnRequests(k)
          BY <1>1 DEF OwnRequests, Items
        <4> QED
          BY <1>1, <2>1, <2>2, <3>1, <4>1, <4>2 DEF OwnSession, OwnRequests
      <3>2. CASE t # s
        BY <1>1, <2>3, <3>2, UntouchedOwn DEF SystemInv
      <3> QED
        BY <3>1, <3>2
    <2> QED
      BY <2>6, <2>7, <2>8 DEF ServerStepOk
  <1> QED
    BY <1>2, <1>3 DEF ByServer, HeaderCompletes

LEMMA ServedIsNext ==
    SP!SocketsApart' => \A k \in ConnIds :
        /\ \A s \in SessionIds : SP!Holds(s, k)' => BeingServed(k)' = <<cdata'[s]>>
        /\ ~SP!InService(k)' => BeingServed(k)' = <<>>
  <1> SUFFICES ASSUME SP!SocketsApart', NEW k \in ConnIds
               PROVE  /\ \A s \in SessionIds : SP!Holds(s, k)' => BeingServed(k)' = <<cdata'[s]>>
                      /\ ~SP!InService(k)' => BeingServed(k)' = <<>>
    OBVIOUS
  <1> DEFINE held == {cdata'[s] : s \in {t \in SessionIds : Holds(t, k)'}}
  <1>1. ASSUME NEW s \in SessionIds, SP!Holds(s, k)' PROVE BeingServed(k)' = <<cdata'[s]>>
    <2>1. \A t \in SessionIds : SP!Holds(t, k)' => t = s
      BY <1>1, Connections DEF SP!Holds, SP!Serves, SP!SocketsApart
    <2>2. held = {cdata'[s]}
      BY <1>1, <2>1, HoldsAre
    <2> QED
      BY <2>2 DEF BeingServed
  <1>2. ASSUME ~SP!InService(k)' PROVE BeingServed(k)' = <<>>
    <2>1. held = {}
      BY <1>2, HoldsAre DEF SP!InService
    <2> QED
      BY <2>1 DEF BeingServed
  <1> QED
    BY <1>1, <1>2


LEMMA BodyStep ==
    ASSUME SystemInv, SP!ServerInv', NEW s \in SessionIds, ByServer(BodyCompletes(s)) PROVE ServerStepOk
  <1> DEFINE k == conn[s]
  <1>1. /\ Pending(s, "body") /\ ByServer(TRUE) /\ file' = file
        /\ UNCHANGED <<cl, sv, rsp, running, faults, op, conn, cdata, response>>
    BY DEF ByServer, BodyCompletes, processVars, scraperVars, sessionVars
  <1>2. CASE EndOfStream(k) /\ Post(s, FALSE) /\ UNCHANGED req
    <2>1. sv[conn[s]] = "broken" \/ cl[conn[s]] = "closed"
      BY <1>2 DEF EndOfStream
    <2>2. "body" \in Ops \ {"none"} /\ faults' \in {faults, faults + 1}
      BY <1>1 DEF Ops
    <2> QED
      BY <1>1, <1>2, <2>1, <2>2, PostOnlyStep
  <1>3. CASE req[k] # <<>> /\ req' = [req EXCEPT ![k] = Tail(@)] /\ Post(s, Head(req[k]).kind # "cut")
    <2> DEFINE ok == Head(req[k]).kind # "cut"
    <2>0. ok \in BOOLEAN /\ Post(s, ok)
      BY <1>3
    <2> HIDE DEF ok
    <2>1. /\ running /\ op[s] = "body" /\ ~SP!Posted(s) /\ ~SP!PostedOk(s)
          /\ SP!Posted(s)' /\ (SP!PostedOk(s)' <=> ok)
          /\ \A t \in SessionIds : t # s =>
            (SP!Posted(t)' <=> SP!Posted(t)) /\ (SP!PostedOk(t)' <=> SP!PostedOk(t))
      BY <1>1, <2>0, CompletionEffect
    <2>2. \A t \in SessionIds : t # s => SP!Untouched(t)
      BY <1>1, <2>1 DEF SP!Untouched
    <2>3. /\ k \in ConnIds /\ sv[k] \in {"up", "broken"}
          /\ \A t \in SessionIds : conn[t] = k => t = s
      BY <2>1, SessionConn
    <2>4. /\ req'[k] = Tail(req[k]) /\ \A j \in ConnIds : j # k => req'[j] = req[j]
      BY <1>3, <2>3, SystemTypes
    <2>5. \A j \in ConnIds : j # k => hand'[j] = hand[j]
      <3>1. ASSUME NEW j \in ConnIds, j # k, NEW t \in SessionIds
            PROVE  SP!Holds(t, j)' <=> SP!Holds(t, j)
        BY <1>1, <2>1, <2>2, <3>1, ServerConstants, SP!UntouchedHolds, SP!HoldsIs
      <3> QED
        BY <1>1, <3>1, HandSame
    <2>6. QuietEnds
      BY <1>1 DEF QuietEnds
    <2>7. EndsStep
      BY <1>1, <2>6, QuietEndsStep
    <2>8. CASE k \in OwnConns
      <3>1. /\ Head(req[k]) = req[k][1] /\ Head(req[k]) \in OwnRequests(k) /\ sv[k] = "up"
        BY <1>3, <2>3, <2>8, OwnHead
      <3>2. ok
        BY <3>1 DEF ok, OwnRequests
      <3>3. SP!HeaderKnown(s) /\ cdata[s] = Head(req[k])
        BY <2>1, <3>1 DEF SP!HeaderKnown, SystemInv, SP!ServerInv, SP!Buffer
      <3>4. hand[k] = <<>>
        <4>1. ~SP!InService(k)
          <5>1. \A t \in SessionIds : ~SP!Holds(t, k)
            BY <2>1, <2>3, ServerConstants, SP!HoldsIs
          <5> QED
            BY <5>1 DEF SP!InService
        <4> QED
          BY <2>3, <4>1, ServedIs DEF SystemInv, SP!ServerInv
      <3>5. hand'[k] = <<Head(req[k])>>
        <4>1. SP!Holds(s, k)'
          BY <1>1, <2>1, <3>2, ServerConstants, SP!HoldsIs
        <4>2. SP!SocketsApart'
          BY DEF SP!ServerInv
        <4>3. BeingServed(k)' = <<cdata[s]>>
          BY <1>1, <2>3, <4>1, <4>2, ServedIsNext
        <4>4. hand'[k] = BeingServed(k)'
          BY <1>1, <2>3 DEF ByServer
        <4> QED
          BY <3>3, <4>3, <4>4
      <3>6. CP!RestOfWorld
        <4>1. \A j \in OwnConns : j # k => SameWire(j) /\ hand'[j] = hand[j]
          BY <1>1, <2>4, <2>5, Connections DEF SameWire
        <4> QED
          BY <1>1, <1>3, <2>1, <2>4, <2>8, <3>1, <3>4, <3>5, <4>1, AsSession
      <3>7. OwnSession(s)'
        BY <1>1, <2>1, <3>2, <3>3, OwnSessionKept DEF SystemInv
      <3>8. ASSUME NEW t \in SessionIds PROVE OwnSession(t)'
        BY <1>1, <2>2, <3>7, UntouchedOwn DEF SystemInv
      <3> QED
        BY <2>7, <3>6, <3>8 DEF ServerStepOk
    <2>9. CASE k \notin OwnConns
      <3>1. UNCHANGED CP!clientVars
        BY <1>1, <2>4, <2>5, <2>9, AsStutter, Connections DEF SameWire
      <3>2. ASSUME NEW t \in SessionIds PROVE OwnSession(t)'
        <4>1. CASE t = s
          BY <1>1, <2>9, <4>1 DEF OwnSession
        <4>2. CASE t # s
          BY <1>1, <2>2, <4>2, UntouchedOwn DEF SystemInv
        <4> QED
          BY <4>1, <4>2
      <3> QED
        BY <2>7, <3>1, <3>2 DEF ServerStepOk
    <2> QED
      BY <2>8, <2>9
  <1> QED
    BY <1>2, <1>3 DEF ByServer, BodyCompletes

LEMMA WriteStep ==
    ASSUME SystemInv, NEW s \in SessionIds, ByServer(WriteCompletes(s)) PROVE ServerStepOk
  <1> DEFINE k == conn[s]
  <1>1. /\ Pending(s, "write") /\ ByServer(TRUE) /\ file' = file
        /\ UNCHANGED <<cl, sv, req, running, faults, op, conn, cdata, response>>
    BY DEF ByServer, WriteCompletes, processVars, scraperVars, sessionVars
  <1>2. PICK ok \in BOOLEAN :
            /\ Post(s, ok)
            /\ \/ /\ ok /\ sv[k] = "up"
                  /\ rsp' = IF cl[k] = "closed" THEN rsp
                            ELSE [rsp EXCEPT ![k] = Append(@, response[s])]
               \/ ~ok /\ (sv[k] = "broken" \/ cl[k] = "closed") /\ UNCHANGED rsp
    BY DEF ByServer, WriteCompletes
  <1>3. /\ running /\ op[s] = "write" /\ ~SP!Posted(s) /\ ~SP!PostedOk(s)
        /\ SP!Posted(s)' /\ (SP!PostedOk(s)' <=> ok)
        /\ \A t \in SessionIds : t # s =>
          (SP!Posted(t)' <=> SP!Posted(t)) /\ (SP!PostedOk(t)' <=> SP!PostedOk(t))
    BY <1>1, <1>2, CompletionEffect
  <1>4. \A t \in SessionIds : t # s => SP!Untouched(t)
    BY <1>1, <1>3 DEF SP!Untouched
  <1>5. /\ k \in ConnIds /\ sv[k] \in {"up", "broken"} /\ cl[k] # "none"
        /\ sv[k] = "broken" => cl[k] \in {"broken", "closed"}
        /\ \A t \in SessionIds : conn[t] = k => t = s
    BY <1>3, SessionConn
  <1>6. \A j \in ConnIds : j # k => rsp'[j] = rsp[j] /\ hand'[j] = hand[j]
    <2>1. ASSUME NEW j \in ConnIds, j # k, NEW t \in SessionIds
          PROVE  SP!Holds(t, j)' <=> SP!Holds(t, j)
      BY <1>1, <1>3, <1>4, <2>1, ServerConstants, SP!UntouchedHolds, SP!HoldsIs
    <2>2. \A j \in ConnIds : j # k => rsp'[j] = rsp[j]
      BY <1>2, SystemTypes
    <2> QED
      BY <1>1, <2>1, <2>2, HandSame
  <1>7. QuietEnds
    BY <1>1 DEF QuietEnds
  <1>8. EndsStep
    BY <1>1, <1>7, QuietEndsStep
  <1>9. hand[k] = <<cdata[s]>> /\ hand'[k] = <<>>
    <2>1. SP!Holds(s, k)
      BY <1>3, ServerConstants, SP!HoldsIs
    <2>2. \A t \in SessionIds : ~SP!Holds(t, k)'
      BY <1>1, <1>3, <1>5, ServerConstants, SP!HoldsIs
    <2>3. SP!SocketsApart /\ SP!SocketsApart'
      BY <1>1 DEF SystemInv, SP!ServerInv, SP!SocketsApart
    <2>4. ~SP!InService(k)'
      BY <2>2 DEF SP!InService
    <2>5. BeingServed(k)' = <<>>
      BY <1>1, <1>5, <2>3, <2>4, ServedIsNext
    <2>6. hand'[k] = BeingServed(k)' /\ hand[k] = BeingServed(k)
      BY <1>1, <1>5 DEF SystemInv, ByServer
    <2> QED
      BY <1>5, <2>1, <2>3, <2>5, <2>6, ServedIs
  <1>10. UNCHANGED CP!clientVars \/ CP!RestOfWorld
    <2>1. \A j \in OwnConns : j # k => SameWire(j) /\ hand'[j] = hand[j]
      BY <1>1, <1>6, Connections DEF SameWire
    <2>2. CASE k \notin OwnConns
      BY <1>1, <2>1, <2>2, AsStutter
    <2>3. CASE k \in OwnConns /\ rsp' = rsp
      <3>1. cl[k] # "up" \/ rsp'[k] = Append(rsp[k], response[s])
        BY <1>2, <1>5, <2>3, SystemTypes
      <3>2. CASE cl[k] # "up"
        BY <1>1, <1>3, <1>5, <1>9, <2>1, <2>3, <3>2, AsSession
      <3>3. CASE cl[k] = "up"
        <4>1. rsp[k] \in Seq(Answers) /\ rsp[k] = Append(rsp[k], response[s])
          BY <1>5, <2>3, <3>1, <3>3, SystemTypes
        <4>2. Len(Append(rsp[k], response[s])) = Len(rsp[k]) + 1 /\ Len(rsp[k]) \in Nat
          BY <4>1
        <4> QED
          BY <4>1, <4>2
      <3> QED
        BY <3>2, <3>3
    <2>4. CASE k \in OwnConns /\ rsp' # rsp
      <3>1. sv[k] = "up" /\ cl[k] # "closed" /\ rsp'[k] = Append(rsp[k], response[s])
        BY <1>2, <1>5, <2>4, SystemTypes
      <3>2. response[s] = Response(k, cdata[s].id)
        <4>1. response[s] = SP!Result(cdata[s])
          BY <1>3 DEF SystemInv, SP!ServerInv, SP!Buffer
        <4>2. cdata[s].from = k
          BY <1>3, <2>4 DEF SystemInv, OwnSession, SP!Whole, OwnRequests
        <4> QED
          BY <4>1, <4>2 DEF SP!Result, SP!Response, Response
      <3>3. Head(hand[k]) = cdata[s] /\ hand[k] # <<>>
        BY <1>9
      <3>4. rsp'[k] = Append(rsp[k], Response(k, Head(hand[k]).id))
        BY <3>1, <3>2, <3>3
      <3> QED
        BY <1>1, <1>3, <1>9, <2>1, <2>4, <3>1, <3>3, <3>4, AsSession
    <2> QED
      BY <2>2, <2>3, <2>4
  <1>11. ASSUME NEW t \in SessionIds PROVE OwnSession(t)'
    <2>1. CASE t = s
      <3>1. SP!Whole(s) /\ SP!Whole(s)'
        BY <1>1, <1>3 DEF SP!Whole
      <3>2. ~ok => cl'[k] \in {"broken", "closed"}
        BY <1>1, <1>2, <1>5
      <3> QED
        BY <1>1, <1>3, <2>1, <3>1, <3>2, OwnSessionKept DEF SystemInv
    <2>2. CASE t # s
      BY <1>1, <1>4, <2>2, UntouchedOwn DEF SystemInv
    <2> QED
      BY <2>1, <2>2
  <1> QED
    BY <1>8, <1>10, <1>11 DEF ServerStepOk

LEMMA CompletionStep ==
    ASSUME SystemInv, SP!ServerInv', NEW s \in SessionIds, ByServer(Completes(s) \/ AcceptErrs(s))
    PROVE  ServerStepOk
  <1>0. ByServer(TRUE)
    BY DEF ByServer
  <1>1. CASE AcceptCompletes(s)
    BY <1>0, <1>1, AcceptStep DEF ByServer
  <1>2. CASE AcceptErrs(s)
    <2>1. /\ Pending(s, "accept") /\ Post(s, FALSE) /\ faults' \in {faults, faults + 1}
          /\ UNCHANGED <<cl, sv, req, rsp, running, op, conn, cdata, response>>
      BY <1>2 DEF AcceptErrs, Fault, sessionVars
    <2>2. "accept" \in Ops \ {"none"}
      BY DEF Ops
    <2> QED
      BY <1>0, <2>1, <2>2, PostOnlyStep
  <1>3. CASE HandshakeCompletes(s)
    <2>1. /\ Pending(s, "handshake") /\ faults' \in {faults, faults + 1}
          /\ UNCHANGED <<cl, sv, req, rsp, running, op, conn, cdata, response>>
      BY <1>3 DEF HandshakeCompletes, wireVars, sessionVars
    <2>2. \/ Post(s, TRUE)
          \/ (sv[conn[s]] = "broken" \/ cl[conn[s]] = "closed") /\ Post(s, FALSE)
      BY <1>3 DEF HandshakeCompletes
    <2>3. "handshake" \in Ops \ {"none"}
      BY DEF Ops
    <2>4. CASE Post(s, TRUE)
      BY <1>0, <2>1, <2>3, <2>4, PostOnlyStep
    <2>5. CASE (sv[conn[s]] = "broken" \/ cl[conn[s]] = "closed") /\ Post(s, FALSE)
      BY <1>0, <2>1, <2>3, <2>5, PostOnlyStep
    <2> QED
      BY <2>2, <2>4, <2>5
  <1>4. CASE HeaderCompletes(s)
    BY <1>0, <1>4, HeaderStep DEF ByServer
  <1>5. CASE BodyCompletes(s)
    BY <1>0, <1>5, BodyStep DEF ByServer
  <1>6. CASE WriteCompletes(s)
    BY <1>0, <1>6, WriteStep DEF ByServer
  <1> QED
    BY <1>1, <1>2, <1>3, <1>4, <1>5, <1>6 DEF ByServer, Completes

\* A handler of a session that goes on with its next operation.
LEMMA ContinueStep ==
    ASSUME SystemInv, NEW s \in SessionIds, NEW o, Handles(s, o, TRUE), NEW p, Continue(s, p),
           ByServer(TRUE),
           \/ o \in {"handshake", "write"} /\ p = "header"
           \/ o = "header" /\ p = "body"
           \/ o = "body" /\ p = "write"
    PROVE  ServerStepOk
  <1>1. /\ op' = [op EXCEPT ![s] = p] /\ ready' = Tail(ready) /\ file' = file
        /\ UNCHANGED <<cl, sv, req, rsp, running, faults, conn, cdata>>
    BY DEF Continue, wireVars, ByServer, processVars, scraperVars
  <1>2. /\ running /\ op[s] = o
        /\ SP!Posted(s) /\ SP!PostedOk(s) /\ ~SP!Posted(s)' /\ ~SP!PostedOk(s)'
        /\ \A t \in SessionIds : t # s =>
            (SP!Posted(t)' <=> SP!Posted(t)) /\ (SP!PostedOk(t)' <=> SP!PostedOk(t))
    BY <1>1, HandlerEffect
  <1>3. op'[s] = p /\ \A t \in SessionIds : t # s => op'[t] = op[t]
    BY <1>1, SystemTypes
  <1>4. \A j \in ConnIds : hand'[j] = hand[j]
    <2>1. \A j \in ConnIds, t \in SessionIds : SP!Holds(t, j)' <=> SP!Holds(t, j)
      BY <1>1, <1>2, <1>3, ServerConstants, SP!HoldsIs
    <2> QED
      BY <1>1, <2>1, HandSame
  <1>5. QuietEnds
    BY <1>1, <1>2, <1>3 DEF QuietEnds
  <1>6. EndsStep
    BY <1>1, <1>5, QuietEndsStep
  <1>7. UNCHANGED CP!clientVars
    BY <1>1, <1>4, AsStutter, Connections DEF SameWire
  <1>8. ASSUME NEW t \in SessionIds PROVE OwnSession(t)'
    <2>1. SP!HeaderKnown(t)' \/ SP!Whole(t)' => SP!HeaderKnown(t) \/ SP!Whole(t)
      BY <1>2, <1>3 DEF SP!HeaderKnown, SP!Whole
    <2>2. op'[t] \notin {"none", "accept"} /\ SP!Posted(t)' /\ ~SP!PostedOk(t)' =>
            op[t] \notin {"none", "accept"} /\ SP!Posted(t) /\ ~SP!PostedOk(t)
      BY <1>2, <1>3
    <2> QED
      BY <1>1, <2>1, <2>2, OwnSessionKept DEF SystemInv
  <1> QED
    BY <1>6, <1>7, <1>8 DEF ServerStepOk

\* The session that has accepted starts, and the next one waits for a connection.
LEMMA AcceptHandlerStep ==
    ASSUME SystemInv, NEW s \in SessionIds, NEW ok \in BOOLEAN, ByServer(AcceptHandler(s, ok))
    PROVE  ServerStepOk
  <1> DEFINE o == IF ~ok THEN "none" ELSE IF SSL THEN "handshake" ELSE "header"
  <1>1. /\ Handles(s, "accept", ok) /\ count \in SessionIds /\ ready' = Tail(ready)
        /\ op' = [op EXCEPT ![s] = o, ![count] = "accept"]
        /\ UNCHANGED <<cl, sv, req, rsp, running, faults, conn, cdata>>
        /\ file' = file /\ ByServer(TRUE)
    BY DEF AcceptHandler, wireVars, ByServer, processVars, scraperVars
  <1>2. o \in {"none", "handshake", "header"} /\ (~ok <=> o = "none")
    OBVIOUS
  <1> HIDE DEF o
  <1>3. /\ running /\ op[s] = "accept"
        /\ SP!Posted(s) /\ (SP!PostedOk(s) <=> ok) /\ ~SP!Posted(s)' /\ ~SP!PostedOk(s)'
        /\ \A t \in SessionIds : t # s =>
            (SP!Posted(t)' <=> SP!Posted(t)) /\ (SP!PostedOk(t)' <=> SP!PostedOk(t))
    BY <1>1, HandlerEffect
  <1>4. PICK c \in SessionIds : c = count
    BY <1>1
  <1>5. c # s /\ op[c] = "none" /\ ~SP!Posted(c) /\ ~SP!PostedOk(c) /\ conn[c] = Nobody
    <2>1. c \in Nat /\ s = c - 1 /\ op[c] = "none"
      BY <1>3, <1>4, ServerConstants DEF SystemInv, SP!ServerInv, SP!Operations, SP!ServerTypeOK
    <2>2. ~SP!Posted(c) /\ conn[c] = Nobody
      BY <2>1 DEF SystemInv, SP!ServerInv, SP!Operations, SP!Socket
    <2> QED
      BY <2>1, <2>2, ServerConstants, SP!OkIsPosted
  <1>6. op'[s] = o /\ op'[c] = "accept" /\ \A t \in SessionIds : t # s /\ t # c => op'[t] = op[t]
    BY <1>1, <1>4, <1>5, SystemTypes
  <1>7. /\ ~SP!Posted(c)' /\ ~SP!PostedOk(c)'
        /\ ok => SP!PostedOk(s) /\ conn[s] # Nobody
        /\ ~ok => conn[s] = Nobody
    BY <1>3, <1>5 DEF SystemInv, SP!ServerInv, SP!Socket
  <1>8. \A j \in ConnIds : hand'[j] = hand[j]
    <2>1. \A j \in ConnIds, t \in SessionIds : SP!Holds(t, j)' <=> SP!Holds(t, j)
      BY <1>1, <1>2, <1>3, <1>5, <1>6, ServerConstants, SP!HoldsIs
    <2> QED
      BY <1>1, <2>1, HandSame
  <1>9. QuietEnds
    <2>1. \A t \in SessionIds : conn[t] # Nobody /\ op'[t] \in {"accept", "handshake"} =>
                op[t] \in {"accept", "handshake"}
      BY <1>3, <1>5, <1>6
    <2> QED
      BY <1>1, <2>1 DEF QuietEnds
  <1>10. EndsStep
    BY <1>1, <1>9, QuietEndsStep
  <1>11. UNCHANGED CP!clientVars
    BY <1>1, <1>8, AsStutter, Connections DEF SameWire
  <1>12. ASSUME NEW t \in SessionIds PROVE OwnSession(t)'
    <2>1. SP!HeaderKnown(t)' \/ SP!Whole(t)' => SP!HeaderKnown(t) \/ SP!Whole(t)
      BY <1>2, <1>3, <1>5, <1>6, <1>7 DEF SP!HeaderKnown, SP!Whole
    <2>2. op'[t] \notin {"none", "accept"} /\ SP!Posted(t)' /\ ~SP!PostedOk(t)' =>
            op[t] \notin {"none", "accept"} /\ SP!Posted(t) /\ ~SP!PostedOk(t)
      BY <1>2, <1>3, <1>5, <1>6, <1>7
    <2> QED
      BY <1>1, <2>1, <2>2, OwnSessionKept DEF SystemInv
  <1> QED
    BY <1>10, <1>11, <1>12 DEF ServerStepOk

\* A session ends, one of the client's for a failure or because the client has left.
LEMMA EndSessionStep ==
    ASSUME SystemInv, SP!ServerInv', NEW s \in SessionIds, NEW o, NEW ok \in BOOLEAN,
           Handles(s, o, ok), EndSession(s), ByServer(TRUE), o \in {"header", "body", "write"},
           conn[s] \in OwnConns => ~ok
    PROVE  ServerStepOk
  <1>1. op[s] = o
    BY DEF Handles
  <1>2. PICK k \in ConnIds : k = conn[s]
    BY <1>1, SessionConn
  <1>3. /\ ready' = Tail(ready) /\ op' = [op EXCEPT ![s] = "none"]
        /\ conn' = [conn EXCEPT ![s] = Nobody] /\ cdata' = [cdata EXCEPT ![s] = Nothing]
        /\ sv' = [sv EXCEPT ![k] = "closed"] /\ req' = [req EXCEPT ![k] = <<>>]
        /\ UNCHANGED <<cl, rsp, running, faults>> /\ file' = file
    BY <1>2 DEF EndSession, ByServer, processVars, scraperVars
  <1>4. /\ running
        /\ SP!Posted(s) /\ (SP!PostedOk(s) <=> ok) /\ ~SP!Posted(s)' /\ ~SP!PostedOk(s)'
        /\ \A t \in SessionIds : t # s =>
            (SP!Posted(t)' <=> SP!Posted(t)) /\ (SP!PostedOk(t)' <=> SP!PostedOk(t))
    BY <1>3, HandlerEffect
  <1>5. /\ op'[s] = "none" /\ conn'[s] = Nobody
        /\ \A t \in SessionIds : t # s =>
            op'[t] = op[t] /\ conn'[t] = conn[t] /\ cdata'[t] = cdata[t]
    BY <1>3, SystemTypes
  <1>6. /\ sv'[k] = "closed" /\ req'[k] = <<>>
        /\ \A j \in ConnIds : j # k => sv'[j] = sv[j] /\ req'[j] = req[j]
    BY <1>3, SystemTypes
  <1>7. sv[k] \in {"up", "broken"} /\ \A t \in SessionIds : t # s => conn[t] # k
    BY <1>1, <1>2, SessionConn
  <1>8. \A j \in ConnIds : j # k => hand'[j] = hand[j]
    <2>1. ASSUME NEW j \in ConnIds, j # k, NEW t \in SessionIds
          PROVE  /\ SP!Holds(t, j)' <=> SP!Holds(t, j)
                 /\ SP!Holds(t, j) => cdata'[t] = cdata[t]
      BY <1>2, <1>4, <1>5, <2>1, ServerConstants, SP!HoldsIs
    <2> QED
      BY <2>1, HandSame
  <1>9. hand'[k] = <<>>
    <2>1. \A t \in SessionIds : ~SP!Holds(t, k)'
      BY <1>4, <1>5, <1>7, ServerConstants, SP!HoldsIs
    <2>2. ~SP!InService(k)' /\ SP!SocketsApart'
      BY <2>1 DEF SP!InService, SP!ServerInv
    <2>3. BeingServed(k)' = <<>>
      BY <2>2, ServedIsNext
    <2> QED
      BY <2>3 DEF ByServer
  <1>10. QuietEnds
    BY <1>3, <1>5, <1>6, <1>7 DEF QuietEnds
  <1>11. EndsStep
    BY <1>3, <1>10, QuietEndsStep
  <1>12. UNCHANGED CP!clientVars \/ CP!RestOfWorld
    <2>1. \A j \in OwnConns : j # k => SameWire(j) /\ hand'[j] = hand[j]
      BY <1>3, <1>6, <1>8, Connections DEF SameWire
    <2>2. CASE k \notin OwnConns
      BY <1>3, <2>1, <2>2, AsStutter
    <2>3. CASE k \in OwnConns
      <3>1. cl[k] \in {"broken", "closed"}
        BY <1>1, <1>2, <1>4, <2>3 DEF SystemInv, OwnSession
      <3> QED
        BY <1>3, <1>4, <1>6, <1>7, <1>9, <2>1, <2>3, <3>1, AsSession
    <2> QED
      BY <2>2, <2>3
  <1>13. ASSUME NEW t \in SessionIds PROVE OwnSession(t)'
    <2>1. CASE t = s
      <3>1. Nobody \notin OwnConns
        BY Connections
      <3>2. conn'[t] \notin OwnConns'
        BY <1>5, <2>1, <3>1 DEF OwnConns, OwnFaults
      <3> QED
        BY <3>2 DEF OwnSession
    <2>2. CASE t # s
      <3>1. (SP!HeaderKnown(t)' <=> SP!HeaderKnown(t)) /\ (SP!Whole(t)' <=> SP!Whole(t))
        BY <1>4, <1>5, <2>2 DEF SP!HeaderKnown, SP!Whole
      <3> QED
        BY <1>3, <1>4, <1>5, <2>2, <3>1, OwnSessionKept DEF SystemInv
    <2> QED
      BY <2>1, <2>2
  <1> QED
    BY <1>11, <1>12, <1>13 DEF ServerStepOk

\* The server ends, for a failure, or because of a connection that can end it only once.
LEMMA TerminateStep ==
    ASSUME SystemInv, ByServer(Terminate), running,
           \/ faults' = faults + 1
           \/ faults' = faults /\ \E s \in SessionIds :
                conn[s] \in Abandoned \/ (conn[s] \in OtherConns /\ cl[conn[s]] # "none")
    PROVE  EndsStep
  <1>1. /\ running' = FALSE /\ op' = [s \in SessionIds |-> "none"]
        /\ conn' = [s \in SessionIds |-> Nobody]
        /\ sv' = [k \in ConnIds |-> IF sv[k] \in {"backlog", "up"} THEN "closed" ELSE sv[k]]
        /\ cl' = cl /\ seen' = seen + 1 /\ lifetime' = lifetime
    BY DEF ByServer, Terminate, StopServer, processVars
  <1>2. /\ seen \in Nat /\ faults \in Nat /\ sv \in [ConnIds -> ServerEnds]
        /\ OwnConns \subseteq ConnIds /\ OtherConns \subseteq ConnIds /\ Nobody \notin ConnIds
    BY SystemTypes, Connections
  <1>3. Abandoned' = {}
    <2>1. \A k \in OwnConns : sv'[k] # "backlog"
      BY <1>1, <1>2
    <2>2. \A s \in SessionIds : op'[s] \notin {"accept", "handshake"}
      BY <1>1
    <2> QED
      BY <2>1, <2>2 DEF Abandoned
  <1>4. \A k \in OtherConns : \A s \in SessionIds : conn'[s] # k
    BY <1>1, <1>2
  <1>5. Over \subseteq Over'
    BY <1>1, <1>2, <1>4 DEF Over
  <1>6. ASSUME NEW s \in SessionIds, conn[s] \in OtherConns, cl[conn[s]] # "none"
        PROVE  \E k : k \notin Over /\ Over \cup {k} \subseteq Over'
    <2>1. conn[s] \notin Over
      BY DEF Over
    <2>2. sv[conn[s]] \in {"up", "broken"}
      BY <1>2, <1>6 DEF SystemInv, SP!ServerInv, SP!Socket
    <2>3. conn[s] \in Over'
      BY <1>1, <1>2, <1>4, <1>6, <2>2 DEF Over
    <2> QED
      BY <1>5, <2>1, <2>3
  <1> QED
    BY <1>1, <1>2, <1>3, <1>5, <1>6 DEF EndsStep

\* The bound on the ends that a step explains.
LEMMA EndsBoundedNext == EndsExplained' /\ seen' \in Nat /\ faults' \in 0..MaxFaults => seen' <= OwnFaults
  <1>1. (EndsExplained /\ seen \in Nat /\ faults \in 0..MaxFaults => seen <= OwnFaults)'
    BY EndsBounded, PTL
  <1> QED
    BY <1>1 DEF OwnFaults

LEMMA CrashStep ==
    ASSUME SystemInv, SP!ServerInv', ByServer(Terminate), running,
           \/ faults' = faults + 1
           \/ faults' = faults /\ \E s \in SessionIds :
                conn[s] \in Abandoned \/ (conn[s] \in OtherConns /\ cl[conn[s]] # "none")
    PROVE  ServerStepOk
  <1>1. EndsStep
    BY TerminateStep
  <1>2. seen \in Nat /\ seen' = seen + 1 /\ OwnFaults \in Nat
    BY SystemTypes, Connections DEF ByServer, Terminate, StopServer
  <1>3. seen' <= OwnFaults
    <2>1. EndsExplained'
      BY <1>1, EndsKept DEF SystemInv
    <2>2. faults' \in 0..MaxFaults
      BY DEF SP!ServerInv, SP!ServerTypeOK, SP!WireTypeOK
    <2> QED
      BY <1>2, <2>1, <2>2, EndsBoundedNext
  <1>4. CP!Fault
    BY <1>2, <1>3 DEF CP!Fault
  <1>5. \A k \in ConnIds : hand'[k] = <<>>
    <2>1. \A k \in ConnIds : ~SP!InService(k)'
      BY DEF ByServer, Terminate, SP!InService, SP!Holds, SP!Serves
    <2>2. SP!SocketsApart'
      BY DEF SP!ServerInv
    <2>3. \A k \in ConnIds : BeingServed(k)' = <<>>
      BY <2>1, <2>2, ServedIsNext
    <2> QED
      BY <2>3 DEF ByServer
  <1>6. executions' = executions
    <2>1. executions \in [Items -> Nat] /\ ByServer(TRUE)
      BY SystemTypes DEF ByServer
    <2> QED
      BY <1>5, <2>1, NoneExecuted, Connections
  <1>7. Own(hand)' = [k \in OwnConns |-> <<>>]
    BY <1>5, Connections DEF Own
  <1>8. Own(sv)' = [k \in OwnConns |-> IF Own(sv)[k] \in {"backlog", "up"} THEN "closed" ELSE Own(sv)[k]]
    BY Connections DEF Own, ByServer, Terminate, StopServer
  <1>9. UNCHANGED <<Own(cl), Own(req), Own(rsp)>>
    BY DEF Own, ByServer, Terminate
  <1>10. CP!ServerCrashes
    BY <1>4, <1>6, <1>7, <1>8, <1>9
    DEF CP!ServerCrashes, CP!ServerDies, CP!StopServer, ByServer, Terminate, StopServer, processVars,
        scraperVars, CP!scraperVars, mainVars, CP!mainVars
  <1>11. ASSUME NEW t \in SessionIds PROVE OwnSession(t)'
    <2>1. conn'[t] = Nobody
      BY DEF ByServer, Terminate
    <2>2. Nobody \notin OwnConns
      BY Connections
    <2>3. conn'[t] \notin OwnConns'
      BY <2>1, <2>2 DEF OwnConns, OwnFaults
    <2> QED
      BY <2>3 DEF OwnSession
  <1> QED
    BY <1>1, <1>10, <1>11 DEF ServerStepOk, CP!RestOfWorld

\* The session of a handler, before it runs.
LEMMA HandledIs ==
    ASSUME SystemInv, NEW s \in SessionIds, NEW o, NEW ok \in BOOLEAN, Handles(s, o, ok),
           o \notin {"none", "accept"}
    PROVE  /\ running /\ op[s] = o /\ SP!Posted(s) /\ (SP!PostedOk(s) <=> ok)
           /\ conn[s] \in OwnConns \/ (conn[s] \in OtherConns /\ cl[conn[s]] # "none")
  <1>1. running /\ op[s] = o /\ ready # <<>> /\ Head(ready) = [session |-> s, ok |-> ok]
    BY DEF Handles
  <1>2. /\ conn[s] \in ConnIds /\ cl[conn[s]] # "none"
    BY <1>1, SessionConn
  <1>3. ready \in Seq(SP!Handlers) /\ SP!HandlersOnce
    BY DEF SystemInv, SP!ServerInv, SP!ServerTypeOK, SP!Operations, SP!Handlers
  <1> DEFINE h == [session |-> s, ok |-> ok]
  <1>4. h.session = s /\ (h = [session |-> s, ok |-> TRUE] <=> ok)
    BY ServerConstants, SP!HandlerIs
  <1> HIDE DEF h
  <1>5. 1 \in DOMAIN ready /\ ready[1] = h
    BY <1>1, <1>3 DEF h
  <1>6. SP!Posted(s)
    BY <1>4, <1>5 DEF SP!Posted
  <1>7. SP!PostedOk(s) <=> ok
    <2>1. ASSUME NEW i \in DOMAIN ready, ready[i] = [session |-> s, ok |-> TRUE] PROVE i = 1
      BY <1>3, <1>4, <1>5, <2>1 DEF SP!HandlersOnce
    <2> QED
      BY <1>4, <1>5, <2>1 DEF SP!PostedOk
  <1> QED
    BY <1>1, <1>2, <1>6, <1>7, Connections

LEMMA HandlerStep ==
    ASSUME SystemInv, SP!ServerInv', ByServer(RunHandler) PROVE ServerStepOk
  <1>1. PICK s \in SessionIds, ok \in BOOLEAN :
            \/ AcceptHandler(s, ok) \/ SessionCreationThrows(s, ok)
            \/ HandshakeHandler(s, ok)
            \/ HeaderHandler(s, ok) \/ BodyHandler(s, ok) \/ WriteHandler(s, ok)
    BY DEF ByServer, RunHandler
  <1>2. ByServer(TRUE)
    BY DEF ByServer
  <1>3. CASE AcceptHandler(s, ok)
    BY <1>2, <1>3, AcceptHandlerStep DEF ByServer
  <1>4. CASE SessionCreationThrows(s, ok)
    <2>1. ByServer(Terminate) /\ running /\ faults' = faults + 1
      BY <1>2, <1>4 DEF SessionCreationThrows, Fault, Handles, ByServer
    <2> QED
      BY <2>1, CrashStep
  <1>5. CASE HandshakeHandler(s, ok)
    <2>1. Handles(s, "handshake", ok)
      BY <1>5 DEF HandshakeHandler
    <2>2. CASE ok /\ Continue(s, "header")
      BY <1>2, <2>1, <2>2, ContinueStep
    <2>3. CASE ~ok /\ Terminate /\ UNCHANGED faults
      <3>1. /\ running /\ op[s] = "handshake" /\ SP!Posted(s) /\ ~SP!PostedOk(s)
            /\ conn[s] \in OwnConns \/ (conn[s] \in OtherConns /\ cl[conn[s]] # "none")
        BY <2>1, <2>3, HandledIs
      <3>2. conn[s] \in OwnConns => conn[s] \in Abandoned
        BY <3>1 DEF SystemInv, OwnSession, Abandoned
      <3>3. ByServer(Terminate)
        BY <1>2, <2>3 DEF ByServer
      <3>4. \E t \in SessionIds :
                conn[t] \in Abandoned \/ (conn[t] \in OtherConns /\ cl[conn[t]] # "none")
        BY <3>1, <3>2
      <3> QED
        BY <2>3, <3>1, <3>3, <3>4, CrashStep
    <2> QED
      BY <1>5, <2>2, <2>3 DEF HandshakeHandler
  <1>6. CASE HeaderHandler(s, ok)
    <2>1. Handles(s, "header", ok)
      BY <1>6 DEF HeaderHandler
    <2>2. CASE ok /\ Continue(s, "body")
      BY <1>2, <2>1, <2>2, ContinueStep
    <2>3. CASE EndSession(s) /\ (ok => ~HeaderParses(cdata[s]))
      <3>1. op[s] = "header" /\ (SP!PostedOk(s) <=> ok)
        BY <2>1, HandledIs
      <3>2. conn[s] \in OwnConns => ~ok
        BY <2>3, <3>1 DEF SystemInv, OwnSession, SP!HeaderKnown, OwnRequests, HeaderParses
      <3> QED
        BY <1>2, <2>1, <2>3, <3>2, EndSessionStep
    <2>4. CASE ok /\ ~Resizes(cdata[s]) /\ Terminate /\ UNCHANGED faults
      <3>1. /\ running /\ op[s] = "header" /\ (SP!PostedOk(s) <=> ok)
            /\ conn[s] \in OwnConns \/ (conn[s] \in OtherConns /\ cl[conn[s]] # "none")
        BY <2>1, HandledIs
      <3>2. conn[s] \notin OwnConns
        BY <2>4, <3>1 DEF SystemInv, OwnSession, SP!HeaderKnown, OwnRequests, Resizes
      <3>3. ByServer(Terminate)
        BY <1>2, <2>4 DEF ByServer
      <3> QED
        BY <2>4, <3>1, <3>2, <3>3, CrashStep
    <2> QED
      BY <1>6, <2>2, <2>3, <2>4 DEF HeaderHandler
  <1>7. CASE BodyHandler(s, ok)
    <2>1. Handles(s, "body", ok)
      BY <1>7 DEF BodyHandler
    <2>2. CASE ok /\ Continue(s, "write")
      BY <1>2, <2>1, <2>2, ContinueStep
    <2>3. CASE ok /\ ~(Decodes(cdata[s]) /\ Executes(cdata[s])) /\ Terminate /\ UNCHANGED faults
      <3>1. /\ running /\ op[s] = "body" /\ (SP!PostedOk(s) <=> ok)
            /\ conn[s] \in OwnConns \/ (conn[s] \in OtherConns /\ cl[conn[s]] # "none")
        BY <2>1, HandledIs
      <3>2. conn[s] \notin OwnConns
        BY <2>3, <3>1 DEF SystemInv, OwnSession, SP!Whole, OwnRequests, Decodes, Executes
      <3>3. ByServer(Terminate)
        BY <1>2, <2>3 DEF ByServer
      <3> QED
        BY <2>3, <3>1, <3>2, <3>3, CrashStep
    <2>4. CASE ~ok /\ EndSession(s)
      BY <1>2, <2>1, <2>4, EndSessionStep
    <2> QED
      BY <1>7, <2>2, <2>3, <2>4 DEF BodyHandler
  <1>8. CASE WriteHandler(s, ok)
    <2>1. Handles(s, "write", ok)
      BY <1>8 DEF WriteHandler
    <2>2. CASE ok /\ Continue(s, "header")
      BY <1>2, <2>1, <2>2, ContinueStep
    <2>3. CASE ~ok /\ EndSession(s)
      BY <1>2, <2>1, <2>3, EndSessionStep
    <2> QED
      BY <1>8, <2>2, <2>3 DEF WriteHandler
  <1> QED
    BY <1>1, <1>3, <1>4, <1>5, <1>6, <1>7, <1>8

\* The server is killed, or starts again.
LEMMA RestartStep ==
    ASSUME SystemInv, SP!ServerInv', ByServer(ServerKilled \/ ServerStartsAgain) PROVE ServerStepOk
  <1>1. ByServer(TRUE)
    BY DEF ByServer
  <1>2. CASE ServerKilled
    <2>1. ByServer(Terminate) /\ running /\ faults' = faults + 1
      BY <1>1, <1>2 DEF ServerKilled, Fault, ByServer
    <2> QED
      BY <2>1, CrashStep
  <1>3. CASE ServerStartsAgain
    <2>1. /\ ~running /\ running' = TRUE /\ op' = [op EXCEPT ![0] = "accept"]
          /\ UNCHANGED <<cl, sv, req, rsp, faults, conn, cdata, response, ready>>
          /\ UNCHANGED processVars /\ seen' = seen /\ file' = file /\ lifetime' = lifetime
      BY <1>1, <1>3 DEF ServerStartsAgain, ServerRestarts, ByServer, processVars, scraperVars
    <2>2. \A s \in SessionIds :
            op[s] = "none" /\ conn[s] = Nobody /\ ~SP!Posted(s) /\ ~SP!PostedOk(s)
      BY <2>1, NoSessions DEF SystemInv
    <2>3. \A s \in SessionIds : op'[s] \in {"none", "accept"}
      BY <2>1, <2>2, SystemTypes
    <2>4. \A j \in ConnIds : hand'[j] = hand[j]
      <3>1. \A j \in ConnIds, t \in SessionIds : ~SP!Holds(t, j) /\ ~SP!Holds(t, j)'
        BY <2>2, <2>3 DEF SP!Holds, SP!Serves
      <3> QED
        BY <1>1, <3>1, HandSame
    <2>5. executions' = executions
      BY <1>1, <2>4, SystemTypes, NoneExecuted, Connections
    <2>6. CP!WireFails
      BY <2>1, <2>4, <2>5, Connections
      DEF CP!WireFails, CP!ServerRestarts, Own, processVars, scraperVars, CP!scraperVars, mainVars,
          CP!mainVars
    <2>7. EndsStep
      <3>1. \A k \in OwnConns, s \in SessionIds : conn'[s] # k
        BY <2>1, <2>2, Connections
      <3>2. Abandoned' \subseteq Abandoned
        BY <2>1, <3>1 DEF Abandoned
      <3>3. Over' = Over
        BY <2>1 DEF Over
      <3> QED
        BY <2>1, <3>2, <3>3, SystemTypes DEF EndsStep
    <2>8. ASSUME NEW t \in SessionIds PROVE OwnSession(t)'
      <3>1. conn'[t] \notin OwnConns'
        BY <2>1, <2>2, Connections DEF OwnConns, OwnFaults
      <3> QED
        BY <3>1 DEF OwnSession
    <2> QED
      BY <2>6, <2>7, <2>8 DEF ServerStepOk, CP!RestOfWorld
  <1> QED
    BY <1>2, <1>3 DEF ByServer

-----------------------------------------------------------------------------
(* What is known of the connections of the client is kept.                 *)

ClientKeeps ==
    /\ OnlyOwnRequests' /\ ConnectionsUsed'
    /\ \A k \in OwnConns : cl[k] \in {"broken", "closed"} => cl'[k] \in {"broken", "closed"}

\* What the server and the network may do to a connection of the client.
WorldMoves(k) ==
    /\ cl'[k] = cl[k] \/ (cl[k] = "up" /\ cl'[k] = "broken")
    /\ req'[k] \in {req[k], <<>>} \/ (req[k] # <<>> /\ req'[k] = Tail(req[k]) /\ sv'[k] = "up")
    /\ sv'[k] = "broken" => sv[k] = "broken" \/ req'[k] = <<>>
    /\ cl'[k] = "up" => rsp'[k] = rsp[k] \/ (sv[k] = "up" /\ hand[k] # <<>>)
    /\ cl'[k] = "up" /\ sv'[k] \in {"backlog", "up"} =>
        /\ sv[k] \in {"backlog", "up"}
        /\ req[k] = <<>> /\ hand[k] = <<>> => req'[k] = <<>> /\ hand'[k] = <<>>

LEMMA RestMoves == ASSUME SystemInv, CP!RestOfWorld PROVE \A k \in OwnConns : WorldMoves(k)
  <1>1. /\ cl \in [ConnIds -> ClientEnds] /\ sv \in [ConnIds -> ServerEnds]
        /\ OwnConns \subseteq ConnIds
    BY SystemTypes, Connections
  <1> USE DEF Own, WorldMoves
  <1>2. ASSUME NEW j \in OwnConns, CP!ServerAccepts(j) PROVE \A k \in OwnConns : WorldMoves(k)
    BY <1>1, <1>2 DEF CP!ServerAccepts
  <1>3. ASSUME NEW j \in OwnConns, CP!ServerReads(j) PROVE \A k \in OwnConns : WorldMoves(k)
    <2>1. /\ sv[j] = "up" /\ req[j] # <<>> /\ hand[j] = <<>>
          /\ Own(req)' = [Own(req) EXCEPT ![j] = Tail(Own(req)[j])]
          /\ Own(hand)' = [Own(hand) EXCEPT ![j] = <<Head(Own(req)[j])>>]
          /\ UNCHANGED <<Own(cl), Own(sv), Own(rsp)>>
      BY <1>3 DEF CP!ServerReads
    <2>2. \A k \in OwnConns : cl'[k] = cl[k] /\ sv'[k] = sv[k] /\ rsp'[k] = rsp[k]
      BY <2>1
    <2>3. \A k \in OwnConns : k # j => req'[k] = req[k] /\ hand'[k] = hand[k]
      BY <2>1
    <2>4. req'[j] = Tail(req[j])
      BY <2>1
    <2> QED
      BY <2>1, <2>2, <2>3, <2>4
  <1>4. ASSUME NEW j \in OwnConns, CP!ServerWrites(j) PROVE \A k \in OwnConns : WorldMoves(k)
    BY <1>1, <1>4 DEF CP!ServerWrites
  <1>5. ASSUME NEW j \in OwnConns, CP!ServerDrops(j) PROVE \A k \in OwnConns : WorldMoves(k)
    <2>1. /\ cl[j] # "up" /\ UNCHANGED <<Own(cl), Own(rsp)>>
          /\ Own(hand)' = [Own(hand) EXCEPT ![j] = <<>>]
          /\ \/ UNCHANGED <<Own(sv), Own(req)>>
             \/ /\ Own(sv)' = [Own(sv) EXCEPT ![j] = "closed"]
                /\ Own(req)' = [Own(req) EXCEPT ![j] = <<>>]
      BY <1>5 DEF CP!ServerDrops
    <2>2. \A k \in OwnConns : cl'[k] = cl[k] /\ rsp'[k] = rsp[k]
      BY <2>1
    <2>3. \A k \in OwnConns : k # j => sv'[k] = sv[k] /\ req'[k] = req[k] /\ hand'[k] = hand[k]
      BY <2>1
    <2>4. \/ sv'[j] = sv[j] /\ req'[j] = req[j]
          \/ sv'[j] = "closed" /\ req'[j] = <<>>
      BY <2>1
    <2> QED
      BY <2>1, <2>2, <2>3, <2>4
  <1>6. ASSUME NEW j \in OwnConns, CP!ResetConnection(j), UNCHANGED Own(hand)
        PROVE  \A k \in OwnConns : WorldMoves(k)
    <2>1. /\ cl[j] = "up" /\ Own(cl)' = [Own(cl) EXCEPT ![j] = "broken"]
          /\ Own(sv)' = [Own(sv) EXCEPT ![j] = "broken"]
          /\ Own(req)' = [Own(req) EXCEPT ![j] = <<>>] /\ Own(rsp)' = [Own(rsp) EXCEPT ![j] = <<>>]
      BY <1>6 DEF CP!ResetConnection
    <2>2. cl'[j] = "broken" /\ sv'[j] = "broken" /\ req'[j] = <<>>
      BY <2>1
    <2>3. \A k \in OwnConns : k # j => /\ cl'[k] = cl[k] /\ sv'[k] = sv[k]
                                       /\ req'[k] = req[k] /\ rsp'[k] = rsp[k]
      BY <2>1
    <2>4. \A k \in OwnConns : hand'[k] = hand[k]
      BY <1>6
    <2> QED
      BY <2>1, <2>2, <2>3, <2>4
  <1>7. ASSUME NEW j \in OwnConns, CP!ClientTimesOut(j) \/ CP!PeerResets(j), UNCHANGED Own(hand)
        PROVE  \A k \in OwnConns : WorldMoves(k)
    <2>1. /\ cl[j] = "up" /\ Own(cl)' = [Own(cl) EXCEPT ![j] = "broken"]
          /\ UNCHANGED <<Own(sv), Own(req), Own(rsp), Own(hand)>>
      BY <1>7 DEF CP!ClientTimesOut, CP!PeerResets
    <2>2. \A k \in OwnConns : /\ sv'[k] = sv[k] /\ req'[k] = req[k] /\ rsp'[k] = rsp[k]
                              /\ hand'[k] = hand[k]
      BY <2>1
    <2>3. cl'[j] = "broken" /\ \A k \in OwnConns : k # j => cl'[k] = cl[k]
      BY <2>1
    <2> QED
      BY <2>1, <2>2, <2>3
  <1>8. CASE CP!ServerRestarts /\ UNCHANGED Own(hand)
    BY <1>1, <1>8 DEF CP!ServerRestarts
  <1>9. CASE CP!ServerCrashes
    BY <1>1, <1>9 DEF CP!ServerCrashes, CP!ServerDies, CP!StopServer
  <1> QED
    BY <1>2, <1>3, <1>4, <1>5, <1>6, <1>7, <1>8, <1>9
    DEF CP!RestOfWorld, CP!ServerStep, CP!WireFails

LEMMA RestKeeps ==
    ASSUME SystemInv, UNCHANGED <<pc, cur>>, \A k \in OwnConns : WorldMoves(k)
    PROVE  ClientKeeps
  <1>1. cur \in Nat /\ (cur >= 1 => cur \in OwnConns) /\ OwnConns' = OwnConns
    BY OwnLocals DEF SystemInv, OwnConns, OwnFaults
  <1>2. ConnectionsUsed'
    BY <1>1 DEF SystemInv, ConnectionsUsed, WorldMoves, Ended
  <1>3. ASSUME NEW k \in OwnConns
        PROVE  /\ \A i \in DOMAIN req'[k] : req'[k][i].from = k
               /\ sv'[k] = "broken" => req'[k] = <<>>
    <2>1. /\ \A i \in DOMAIN req[k] : req[k][i].from = k
          /\ sv[k] = "broken" => req[k] = <<>>
      BY DEF SystemInv, OnlyOwnRequests
    <2> DEFINE R == [from : OwnConns, id : Items, kind : {"request"}]
    <2>2. req[k] \in Seq(R)
      BY OwnTypes DEF SystemInv
    <2> HIDE DEF R
    <2>3. CASE req'[k] \in {req[k], <<>>}
      BY <2>1, <2>3 DEF WorldMoves
    <2>4. CASE req[k] # <<>> /\ req'[k] = Tail(req[k]) /\ sv'[k] = "up"
      <3>1. \A i \in DOMAIN Tail(req[k]) : i + 1 \in DOMAIN req[k] /\ Tail(req[k])[i] = req[k][i + 1]
        BY <2>2, <2>4
      <3> QED
        BY <2>1, <2>4, <3>1
    <2> QED
      BY <2>3, <2>4 DEF WorldMoves
  <1>4. OnlyOwnRequests'
    BY <1>1, <1>3 DEF OnlyOwnRequests
  <1> QED
    BY <1>2, <1>4 DEF ClientKeeps, WorldMoves

LEMMA MainKeeps == ASSUME SystemInv, MainStep PROVE ClientKeeps
  <1>1. /\ cl \in [ConnIds -> ClientEnds] /\ sv \in [ConnIds -> ServerEnds]
        /\ req \in [ConnIds -> Seq(Messages)] /\ rsp \in [ConnIds -> Seq(Answers)]
        /\ OwnConns \subseteq ConnIds /\ OwnConns' = OwnConns
    BY SystemTypes, Connections DEF OwnConns, OwnFaults
  <1>2. /\ cur \in Nat /\ (cur >= 1 => cur \in OwnConns) /\ \A k \in OwnConns : k \in Nat /\ k >= 1
        /\ pc \notin {"open"} \cup Ended => cur \in OwnConns /\ cl[cur] \in {"up", "broken"}
    BY OwnLocals, Connections DEF SystemInv
  <1>3. /\ \A k \in OwnConns : k < cur => cl[k] = "closed"
        /\ cur >= 1 => cl[cur] # "none"
        /\ pc = "open" /\ cur >= 1 => cl[cur] = "broken"
        /\ pc \in Ended /\ cur >= 1 /\ cl[cur] = "up" =>
            /\ rsp[cur] = <<>>
            /\ sv[cur] \in {"backlog", "up"} => req[cur] = <<>> /\ hand[cur] = <<>>
        /\ \A k \in OwnConns : (\A i \in DOMAIN req[k] : req[k][i].from = k)
                               /\ (sv[k] = "broken" => req[k] = <<>>)
    BY DEF SystemInv, ConnectionsUsed, OnlyOwnRequests
  <1>4. CASE Open
    <2>1. /\ cur + 1 \in OwnConns /\ cl[cur + 1] = "none" /\ pc' \notin {"open"} \cup Ended
          /\ cl' = [k \in ConnIds |-> IF k = cur + 1 THEN "up"
                                      ELSE IF k = cur THEN "closed" ELSE cl[k]]
          /\ sv' = [sv EXCEPT ![cur + 1] = "backlog"] /\ cur' = cur + 1
          /\ UNCHANGED <<req, rsp, hand>>
      BY <1>4, NextConnection DEF Open, Ended
    <2>2. ConnectionsUsed'
      <3>1. \A k \in OwnConns : k < cur + 1 => k = cur \/ k < cur
        BY <1>2
      <3>2. \A k \in OwnConns : k < cur + 1 => cl'[k] = "closed"
        BY <1>1, <1>2, <1>3, <2>1, <3>1
      <3>3. cl'[cur + 1] = "up"
        BY <1>1, <2>1
      <3> QED
        BY <1>1, <2>1, <3>2, <3>3 DEF ConnectionsUsed
    <2>3. OnlyOwnRequests'
      BY <1>1, <1>3, <2>1 DEF OnlyOwnRequests
    <2> QED
      BY <1>1, <2>1, <2>2, <2>3 DEF ClientKeeps
  <1>5. CASE DestroyClient
    <2>1. /\ pc \in Ended /\ UNCHANGED <<sv, req, rsp, hand, pc, cur>>
          /\ cl' = [k \in ConnIds |-> IF k = cur THEN "closed" ELSE cl[k]]
      BY <1>5 DEF DestroyClient, mainVars
    <2>2. \A k \in OwnConns : cl'[k] = IF k = cur THEN "closed" ELSE cl[k]
      BY <1>1, <2>1
    <2>3. cur >= 1 => cl'[cur] = "closed"
      BY <1>2, <2>2
    <2>4. pc # "open"
      BY <2>1 DEF Ended
    <2>5. ConnectionsUsed'
      BY <1>1, <1>3, <2>1, <2>2, <2>3, <2>4 DEF ConnectionsUsed
    <2>6. OnlyOwnRequests'
      BY <1>1, <1>3, <2>1 DEF OnlyOwnRequests
    <2> QED
      BY <2>2, <2>5, <2>6 DEF ClientKeeps
  <1>6. CASE Write
    <2>1. /\ pc = "write" /\ pc' = "read" /\ cl[cur] = "up" /\ cur' = cur /\ cur \in OwnConns
          /\ req' = [req EXCEPT ![cur] = Append(@, Request(cur, data))] /\ UNCHANGED <<cl, sv, rsp>>
      BY <1>2, <1>6 DEF Write, Ended
    <2>2. sv[cur] # "broken"
      BY <1>1, <2>1 DEF SystemInv, SP!ServerInv, SP!Ends
    <2>3. ConnectionsUsed'
      BY <1>1, <1>3, <2>1 DEF ConnectionsUsed, Ended
    <2> DEFINE m == Request(cur, data)
    <2>4. m.from = cur
      BY DEF Request
    <2> HIDE DEF m
    <2>5. req'[cur] = Append(req[cur], m) /\ \A k \in OwnConns : k # cur => req'[k] = req[k]
      BY <1>1, <2>1 DEF m
    <2>6. req[cur] \in Seq(Messages)
      BY <1>1, <2>1
    <2>7. \A i \in DOMAIN Append(req[cur], m) :
            Append(req[cur], m)[i] = IF i \in DOMAIN req[cur] THEN req[cur][i] ELSE m
      BY <2>6
    <2>8. OnlyOwnRequests'
      BY <1>1, <1>3, <2>1, <2>2, <2>4, <2>5, <2>7 DEF OnlyOwnRequests
    <2> QED
      BY <2>1, <2>3, <2>8 DEF ClientKeeps
  <1>7. CASE Read
    <2>1. /\ cur' = cur /\ pc' = "pop" /\ UNCHANGED <<cl, sv, req>>
      BY <1>7 DEF Read
    <2> QED
      BY <1>1, <1>3, <2>1 DEF ClientKeeps, ConnectionsUsed, OnlyOwnRequests, Ended
  <1>8. CASE \/ OpenFails \/ Handshake \/ HandshakeFails \/ Poll \/ TakeFront \/ PopFront
             \/ SendBroken \/ SendThrows \/ AskQueue \/ AskScraper \/ DestroyStatics \/ EndProcess
    <2>1. UNCHANGED <<cl, sv, req, rsp, hand, cur>>
      BY <1>8 DEF OpenFails, Handshake, HandshakeFails, Poll, TakeFront, PopFront,
             SendBroken, SendThrows, AskQueue, AskScraper, DestroyStatics, EndProcess, wireVars, mainVars
    <2>2. ASSUME pc' = "open" PROVE pc = "open" \/ cl[cur] = "broken"
      <3>1. CASE pc \in {"more", "stream"} /\ ~connection_ok
        <4>1. Own(cl)[cur] = "broken"
          BY <3>1 DEF SystemInv, CP!ClientInv, CP!MainLocals
        <4> QED
          BY <1>2, <3>1, <4>1 DEF Own, Ended
      <3> QED
        BY <1>8, <2>2, <3>1
        DEF OpenFails, Handshake, HandshakeFails, Poll, TakeFront, PopFront,
            SendBroken, SendThrows, AskQueue, AskScraper, Decide, DestroyStatics, EndProcess, mainVars
    <2>3. ASSUME pc' \in Ended, cur >= 1, cl[cur] = "up"
          PROVE  /\ rsp[cur] = <<>>
                 /\ sv[cur] \in {"backlog", "up"} => req[cur] = <<>> /\ hand[cur] = <<>>
      <3>1. CASE pc \in Ended
        BY <1>3, <2>3, <3>1
      <3>2. CASE pc \notin {"open"} \cup Ended
        <4>1. \/ pc # "read"
              \/ rsp[cur] = <<>> /\ sv[cur] = "closed"
          BY <1>8, <2>3, <3>2
          DEF OpenFails, Handshake, HandshakeFails, Poll, TakeFront, PopFront,
              SendBroken, SendThrows, AskQueue, AskScraper, Decide, DestroyStatics, EndProcess, mainVars, Ended
        <4> QED
          BY <2>3, <3>2, <4>1, OnConnection DEF SystemInv
      <3>3. CASE pc = "open"
        BY <1>3, <2>3, <3>3
      <3> QED
        BY <3>1, <3>2, <3>3
    <2> QED
      BY <1>1, <1>3, <2>1, <2>2, <2>3 DEF ClientKeeps, ConnectionsUsed, OnlyOwnRequests
  <1> QED
    BY <1>4, <1>5, <1>6, <1>7, <1>8 DEF MainStep

-----------------------------------------------------------------------------
(* The invariant is inductive.                                             *)

\* What is to be shown of every step.
SystemStepOk == SystemInv' /\ [CP!ClientNext]_CP!clientVars

LEMMA OwnWireNext ==
    ASSUME CP!ClientInv', SP!SocketsApart', Items' \subseteq RequestIds,
           hand' = [k \in ConnIds |-> BeingServed(k)'], OnlyOwnRequests', ConnectionsUsed'
    PROVE  \A k \in OwnConns : OwnWire(k)'
  <1>1. OwnServed'
    BY DEF OwnServed
  <1>2. (OwnServed => \A k \in OwnConns : OwnWire(k))'
    BY OwnAccounted, PTL
  <1> QED
    BY <1>1, <1>2 DEF OwnConns, OwnFaults

LEMMA OwedTypedNext ==
    ASSUME CP!ClientInv', Items' \subseteq RequestIds, owed' \in [ConnIds -> Seq(Messages)]
    PROVE  Owed' \in [ConnIds -> Seq(SP!Messages)]
  <1>1. (CP!ClientInv /\ Items \subseteq RequestIds /\ owed \in [ConnIds -> Seq(Messages)]
            => Owed \in [ConnIds -> Seq(SP!Messages)])'
    BY OwedTyped, PTL
  <1>2. Messages' = Messages /\ SP!Messages' = SP!Messages
    BY DEF Messages, SP!Messages, MessageKinds, SP!MessageKinds
  <1> QED
    BY <1>1, <1>2

\* A step of a thread of the client.
LEMMA ByClientStep ==
    ASSUME SystemInv, NEW step, ByClient(step), CP!MainStep \/ CP!ScraperRuns(CP!ScraperNext), file' = file,
           ClientKeeps, EndsExplained', UNCHANGED <<running, hand>>,
           cl' \in [ConnIds -> ClientEnds], sv' \in [ConnIds -> ServerEnds],
           req' \in [ConnIds -> Seq(Messages)], rsp' \in [ConnIds -> Seq(Answers)],
           faults' \in 0..MaxFaults,
           \A k \in OwnConns : Moves(k),
           \A k \in OtherConns : cl'[k] = cl[k] /\ sv'[k] = sv[k] /\ req'[k] = req[k] /\ rsp'[k] = rsp[k]
    PROVE  SystemStepOk
  <1>1. [CP!ClientNext]_CP!clientVars
    BY DEF CP!ClientNext
  <1>2. CP!ClientInv' /\ CP!ScraperInv'
    BY <1>1, ClientConstants, ClientFiles, CP!ClientNextInv DEF SystemInv
  <1>3. UNCHANGED <<sessionVars, ready, owed>>
    BY DEF ByClient
  <1>4. Items' = Items /\ Items \subseteq RequestIds
    BY DEF Items, SystemInv
  <1>5. hand' = [k \in ConnIds |-> BeingServed(k)']
    <2>1. hand = [k \in ConnIds |-> BeingServed(k)]
      BY DEF SystemInv
    <2> QED
      BY <1>3, <2>1, ServedUnchanged
  <1>6. owed' \in [ConnIds -> Seq(Messages)]
    BY <1>3 DEF SystemInv
  <1>7. SP!SocketsApart'
    BY <1>3 DEF SystemInv, SP!ServerInv, SP!SocketsApart, sessionVars
  <1>8. \A k \in OwnConns : OwnWire(k)'
    BY <1>2, <1>4, <1>5, <1>7, OwnWireNext DEF ClientKeeps
  <1>9. SP!ServerTypeOK'
    <2>1. Owed' \in [ConnIds -> Seq(SP!Messages)]
      BY <1>2, <1>4, <1>6, OwedTypedNext
    <2>2. SP!ServerTypeOK
      BY DEF SystemInv, SP!ServerInv
    <2>3. SP!WireTypeOK(SP!Messages, SP!Answers)'
      BY <2>2
      DEF SP!ServerTypeOK, SP!WireTypeOK, ClientEnds, SP!ClientEnds, ServerEnds, SP!ServerEnds,
          SP!Messages, Messages, SP!MessageKinds, MessageKinds, SP!Answers, Answers
    <2> QED
      BY <1>3, <2>1, <2>2, <2>3 DEF SP!ServerTypeOK, sessionVars
  <1>10. \A k \in OtherConns : Owed'[k] = Owed[k]
    BY <1>3, Connections DEF Owed
  <1>11. SP!ServerInv'
    BY <1>3, <1>8, <1>9, <1>10, ClientMovesInv DEF SystemInv
  <1>12. ASSUME NEW t \in SessionIds PROVE OwnSession(t)'
    <2>1. SP!Untouched(t)
      BY <1>3 DEF SP!Untouched, SP!Posted, SP!PostedOk, sessionVars
    <2> QED
      BY <2>1, UntouchedOwn DEF SystemInv, ClientKeeps
  <1> QED
    BY <1>1, <1>2, <1>4, <1>5, <1>6, <1>11, <1>12 DEF SystemStepOk, SystemInv, ClientKeeps

LEMMA MainThread == ASSUME SystemInv, ByClient(MainStep) PROVE SystemStepOk
  <1>1. /\ UNCHANGED <<running, hand, executions>>
        /\ cl' \in [ConnIds -> ClientEnds] /\ sv' \in [ConnIds -> ServerEnds]
        /\ req' \in [ConnIds -> Seq(Messages)] /\ rsp' \in [ConnIds -> Seq(Answers)]
        /\ faults' \in 0..MaxFaults
        /\ \A k \in OwnConns : Moves(k)
        /\ \A k \in OtherConns :
            /\ cl'[k] = cl[k] /\ sv'[k] = sv[k] /\ req'[k] = req[k] /\ rsp'[k] = rsp[k]
    BY MainMoves DEF ByClient
  <1>2. EndsStep
    BY MainEnds
  <1>3. EndsExplained'
    BY <1>2, EndsKept DEF SystemInv
  <1>4. seen' \in 0..OwnFaults
    <2>1. seen' \in Nat /\ OwnFaults \in Nat
      BY <1>2, Connections DEF EndsStep
    <2>2. seen' <= OwnFaults
      BY <1>1, <1>3, <2>1, EndsBoundedNext
    <2> QED
      BY <2>1, <2>2
  <1>5. CP!MainStep
    BY <1>4, MainSimulates
  <1>6. file' = file
    BY <1>5, CP!MainStepFrame, ClientConstants, ClientFiles
  <1>7. ClientKeeps
    BY MainKeeps DEF ByClient
  <1> QED
    BY <1>1, <1>3, <1>5, <1>6, <1>7, ByClientStep

LEMMA ScraperThread == ASSUME SystemInv, ByClient(ScraperRuns(ScraperNext)) PROVE SystemStepOk
  <1>1. /\ UNCHANGED <<cl, sv, req, rsp, running, faults, hand, pc, cur, lifetime>>
        /\ seen' = seen + (faults' - faults) /\ UNCHANGED <<op, conn>>
    BY DEF ByClient, ScraperRuns, wireVars, mainVars, sessionVars
  <1>2. seen \in Nat /\ faults \in Nat
    BY SystemTypes
  <1>3. EndsStep
    <2>1. Abandoned' = Abandoned /\ Over' = Over /\ seen' = seen
      BY <1>1, <1>2 DEF Abandoned, Over
    <2> QED
      BY <1>1, <1>2, <2>1 DEF EndsStep
  <1>4. EndsExplained'
    BY <1>3, EndsKept DEF SystemInv
  <1>5. CP!ScraperRuns(CP!ScraperNext)
    BY ScraperSimulates
  <1>6. file' = file
    BY DEF ByClient, ScraperRuns, ScraperNext, ScraperStep, GetDatum, EndOfInput, WriteDatum,
           LeaveLoop, ReadError
  <1>7. ClientKeeps
    BY <1>1 DEF ClientKeeps, SystemInv, OnlyOwnRequests, ConnectionsUsed
  <1>8. /\ cl' \in [ConnIds -> ClientEnds] /\ sv' \in [ConnIds -> ServerEnds]
        /\ req' \in [ConnIds -> Seq(Messages)] /\ rsp' \in [ConnIds -> Seq(Answers)]
        /\ faults' \in 0..MaxFaults
    BY <1>1, SystemTypes
  <1>9. \A k \in OwnConns : Moves(k)
    BY <1>1 DEF Moves
  <1> QED
    BY <1>1, <1>4, <1>5, <1>6, <1>7, <1>8, <1>9, ByClientStep

\* A step in which the client's threads do nothing: of the server, of the network, or of
\* another client.
LEMMA WorldStep ==
    ASSUME SystemInv, SP!ServerInv', UNCHANGED processVars, EndsStep,
           UNCHANGED CP!clientVars \/ CP!RestOfWorld,
           owed' \in [ConnIds -> Seq(Messages)], hand' = [k \in ConnIds |-> BeingServed(k)'],
           (\A k \in OwnConns : cl[k] \in {"broken", "closed"} => cl'[k] \in {"broken", "closed"}) =>
                \A t \in SessionIds : OwnSession(t)'
    PROVE  SystemStepOk
  <1>1. file' = file /\ UNCHANGED <<pc, cur>>
    BY DEF processVars, scraperVars, mainVars
  <1>2. EndsExplained'
    BY EndsKept DEF SystemInv
  <1>3. [CP!ClientNext]_CP!clientVars
    BY DEF CP!ClientNext, CP!RestOfWorld
  <1>4. CP!ClientInv' /\ CP!ScraperInv'
    BY <1>3, ClientConstants, ClientFiles, CP!ClientNextInv DEF SystemInv
  <1>5. \A k \in OwnConns : WorldMoves(k)
    <2>1. CASE CP!RestOfWorld
      BY <2>1, RestMoves
    <2>2. CASE UNCHANGED CP!clientVars
      <3>1. UNCHANGED <<Own(cl), Own(sv), Own(req), Own(rsp), Own(hand)>>
        BY <2>2 DEF CP!clientVars, CP!wireVars
      <3>2. \A k \in OwnConns : SameWire(k) /\ hand'[k] = hand[k]
        BY <3>1 DEF Own, SameWire
      <3> QED
        <4> SUFFICES ASSUME NEW k \in OwnConns PROVE WorldMoves(k)
          OBVIOUS
        <4>1. /\ cl'[k] = cl[k] /\ sv'[k] = sv[k] /\ req'[k] = req[k] /\ rsp'[k] = rsp[k]
              /\ hand'[k] = hand[k]
          BY <3>2 DEF SameWire
        <4> QED
          BY <4>1 DEF WorldMoves
    <2> QED
      BY <2>1, <2>2
  <1>6. ClientKeeps
    BY <1>1, <1>5, RestKeeps
  <1>7. \A t \in SessionIds : OwnSession(t)'
    BY <1>6 DEF ClientKeeps
  <1>8. Items' \subseteq RequestIds /\ Messages' = Messages
    BY <1>1 DEF Items, SystemInv, Messages, MessageKinds
  <1> QED
    BY <1>2, <1>3, <1>4, <1>6, <1>7, <1>8 DEF SystemStepOk, SystemInv, ClientKeeps

LEMMA ServerSteps ==
    ASSUME SystemInv,
           \/ \E s \in SessionIds : ByServer(Completes(s) \/ AcceptErrs(s))
           \/ ByServer(RunHandler)
           \/ ByServer(ServerKilled \/ ServerStartsAgain)
    PROVE  SystemStepOk
  <1>1. /\ UNCHANGED processVars /\ hand' = [k \in ConnIds |-> BeingServed(k)']
        /\ owed' = owed
    BY DEF ByServer, Completes, AcceptCompletes, AcceptErrs, HandshakeCompletes, HeaderCompletes,
           BodyCompletes, WriteCompletes, RunHandler, AcceptHandler, SessionCreationThrows,
           HandshakeHandler, HeaderHandler, BodyHandler, WriteHandler, ServerKilled, ServerStartsAgain
  <1>2. Owed' = Owed
    BY <1>1, OwedUnchanged DEF processVars, mainVars
  <1>3. owed' \in [ConnIds -> Seq(Messages)]
    BY <1>1 DEF SystemInv
  <1>4. ASSUME NEW s \in SessionIds, ByServer(Completes(s) \/ AcceptErrs(s))
        PROVE  SP!ServerInv' /\ ServerStepOk
    <2>1. SP!ServerInv'
      BY <1>2, <1>4, CompletionInv DEF SystemInv, ByServer
    <2> QED
      BY <1>4, <2>1, CompletionStep
  <1>5. CASE ByServer(RunHandler)
    <2>1. SP!ServerInv'
      BY <1>2, <1>5, HandlerInv DEF SystemInv, ByServer
    <2>2. ServerStepOk
      BY <1>5, <2>1, HandlerStep
    <2> QED
      BY <1>1, <1>3, <2>1, <2>2, WorldStep DEF ServerStepOk
  <1>6. CASE ByServer(ServerKilled \/ ServerStartsAgain)
    <2>1. SP!ServerInv'
      <3>1. CASE ServerKilled
        <4>1. Terminate /\ faults' \in 0..MaxFaults
          BY <3>1, SystemTypes DEF ServerKilled, Fault
        <4> QED
          BY <1>2, <4>1, TerminationInv DEF SystemInv
      <3>2. CASE ServerStartsAgain
        BY <1>2, <3>2, StartsAgainInv DEF SystemInv
      <3> QED
        BY <1>6, <3>1, <3>2 DEF ByServer
    <2>2. ServerStepOk
      BY <1>6, <2>1, RestartStep
    <2> QED
      BY <1>1, <1>3, <2>1, <2>2, WorldStep DEF ServerStepOk
  <1> QED
    BY <1>1, <1>3, <1>4, <1>5, <1>6, WorldStep DEF ServerStepOk

LEMMA ConnectionStep ==
    ASSUME SystemInv, NEW k \in OwnConns, OwnConnectionFails(k) PROVE SystemStepOk
  <1>1. /\ ConnectionFails(k) /\ seen' = seen + (faults' - faults)
        /\ UNCHANGED <<processVars, hand, executions, sessionVars, ready, owed, running>>
        /\ ResetConnection(k) \/ ClientTimesOut(k) \/ PeerResets(k)
        /\ lifetime' = lifetime /\ file' = file
    BY DEF OwnConnectionFails, ConnectionFails, ResetConnection, ClientTimesOut, PeerResets,
           processVars, scraperVars
  <1>2. /\ k \in ConnIds /\ OwnConns \subseteq ConnIds /\ k \notin OtherConns /\ OtherConns \subseteq ConnIds
        /\ seen \in Nat /\ faults \in Nat /\ OwnFaults \in Nat
        /\ cl \in [ConnIds -> ClientEnds] /\ sv \in [ConnIds -> ServerEnds]
        /\ req \in [ConnIds -> Seq(Messages)] /\ rsp \in [ConnIds -> Seq(Answers)]
    BY SystemTypes, Connections
  <1>3. SP!ServerInv'
    <2>1. Owed' = Owed
      BY <1>1, OwedUnchanged DEF processVars, mainVars
    <2> QED
      BY <1>1, <1>2, <2>1, FailureInv DEF SystemInv
  <1>4. /\ cl' = [cl EXCEPT ![k] = "broken"] /\ cl[k] = "up"
        /\ \A j \in ConnIds : j # k => sv'[j] = sv[j]
    BY <1>1, <1>2 DEF ResetConnection, ClientTimesOut, PeerResets
  <1>5. Over' = Over
    <2>1. \A j \in OtherConns : cl'[j] = cl[j] /\ sv'[j] = sv[j]
      BY <1>2, <1>4
    <2> QED
      BY <1>1, <2>1 DEF Over, sessionVars
  <1>6. Abandoned' \subseteq Abandoned \cup {k}
    <2>1. \A j \in OwnConns : j # k => cl'[j] = cl[j] /\ sv'[j] = sv[j]
      BY <1>2, <1>4
    <2> QED
      BY <1>1, <2>1 DEF Abandoned, sessionVars
  <1>7. EndsStep
    <2>1. CASE ResetConnection(k) \/ ClientTimesOut(k)
      <3>1. faults' = faults + 1 /\ seen' = seen + 1
        BY <1>1, <1>2, <2>1 DEF ResetConnection, ClientTimesOut, Fault
      <3>2. {seen, seen', faults, faults'} \subseteq Nat
        BY <1>2, <3>1
      <3> QED
        BY <1>1, <1>5, <1>6, <3>1, <3>2 DEF EndsStep
    <2>2. CASE PeerResets(k)
      <3>1. faults' = faults /\ seen' = seen /\ sv[k] = "closed" /\ sv' = sv
        BY <1>1, <1>2, <2>2 DEF PeerResets
      <3>2. \A s \in SessionIds : conn[s] # k
        BY <1>2, <3>1, Connections DEF SystemInv, SP!ServerInv, SP!Socket
      <3>3. k \notin Abandoned'
        BY <1>1, <3>1, <3>2 DEF Abandoned, sessionVars
      <3>4. Abandoned' \subseteq Abandoned
        BY <1>6, <3>3
      <3> QED
        BY <1>1, <1>2, <1>5, <3>1, <3>4 DEF EndsStep
    <2> QED
      BY <1>1, <2>1, <2>2
  <1>8. seen' <= OwnFaults
    <2>1. EndsExplained'
      BY <1>7, EndsKept DEF SystemInv
    <2>2. faults' \in 0..MaxFaults /\ seen' \in Nat
      BY <1>3, <1>7 DEF SP!ServerInv, SP!ServerTypeOK, SP!WireTypeOK, EndsStep
    <2> QED
      BY <2>1, <2>2, EndsBoundedNext
  <1>9. CP!WireFails
    <2>1. UNCHANGED <<CP!scraperVars, CP!mainVars, answered, Own(hand), executions, lifetime, running>>
      BY <1>1 DEF processVars, scraperVars, CP!scraperVars, mainVars, CP!mainVars, Own
    <2>2. Own(cl)' = [Own(cl) EXCEPT ![k] = "broken"] /\ Own(cl)[k] = "up"
      BY <1>2, <1>4 DEF Own
    <2>3. CASE ResetConnection(k)
      <3>1. CP!Fault
        BY <1>1, <1>2, <1>8, <2>3 DEF ResetConnection, Fault, CP!Fault
      <3>2. /\ Own(sv)' = [Own(sv) EXCEPT ![k] = "broken"]
            /\ Own(req)' = [Own(req) EXCEPT ![k] = <<>>]
            /\ Own(rsp)' = [Own(rsp) EXCEPT ![k] = <<>>]
        BY <1>2, <2>3 DEF ResetConnection, Own
      <3> QED
        BY <2>1, <2>2, <3>1, <3>2 DEF CP!WireFails, CP!ResetConnection
    <2>4. CASE ClientTimesOut(k)
      <3>1. CP!Fault
        BY <1>1, <1>2, <1>8, <2>4 DEF ClientTimesOut, Fault, CP!Fault
      <3>2. UNCHANGED <<Own(sv), Own(req), Own(rsp)>>
        BY <2>4 DEF ClientTimesOut, Own
      <3> QED
        BY <2>1, <2>2, <3>1, <3>2 DEF CP!WireFails, CP!ClientTimesOut
    <2>5. CASE PeerResets(k)
      <3>1. seen' = seen /\ Own(sv)[k] = "closed" /\ Own(req)[k] # <<>>
        BY <1>1, <1>2, <2>5 DEF PeerResets, Own
      <3>2. UNCHANGED <<Own(sv), Own(req), Own(rsp)>>
        BY <2>5 DEF PeerResets, Own
      <3> QED
        BY <2>1, <2>2, <3>1, <3>2 DEF CP!WireFails, CP!PeerResets
    <2> QED
      BY <1>1, <2>3, <2>4, <2>5
  <1>10. ASSUME NEW t \in SessionIds PROVE OwnSession(t)'
    <2>1. SP!Untouched(t)
      BY <1>1 DEF SP!Untouched, SP!Posted, SP!PostedOk, sessionVars
    <2>2. conn[t] \in OwnConns /\ cl[conn[t]] \in {"broken", "closed"} => cl'[conn[t]] \in {"broken", "closed"}
      BY <1>2, <1>4
    <2> QED
      BY <1>1, <2>1, <2>2, UntouchedOwn DEF SystemInv
  <1>11. hand' = [j \in ConnIds |-> BeingServed(j)'] /\ owed' \in [ConnIds -> Seq(Messages)]
    <2>1. hand = [j \in ConnIds |-> BeingServed(j)] /\ owed \in [ConnIds -> Seq(Messages)]
      BY DEF SystemInv
    <2> QED
      BY <1>1, <2>1, ServedUnchanged
  <1> QED
    BY <1>1, <1>3, <1>7, <1>9, <1>10, <1>11, WorldStep DEF CP!RestOfWorld

LEMMA OthersStepOk ==
    ASSUME SystemInv, NEW k \in OtherConns, OthersStep(k) PROVE SystemStepOk
  <1>1. /\ ClientStep(k) /\ UNCHANGED <<processVars, hand, executions, seen>>
        /\ lifetime' = lifetime /\ file' = file
    BY DEF OthersStep, processVars, scraperVars
  <1>2. /\ k \in ConnIds /\ k \notin OwnConns /\ OwnConns \subseteq ConnIds /\ OtherConns \subseteq ConnIds
        /\ seen \in Nat /\ faults \in Nat
        /\ cl \in [ConnIds -> ClientEnds] /\ sv \in [ConnIds -> ServerEnds]
        /\ req \in [ConnIds -> Seq(Messages)] /\ rsp \in [ConnIds -> Seq(Answers)]
        /\ owed \in [ConnIds -> Seq(Messages)]
    BY SystemTypes, Connections DEF SystemInv
  <1>3. SP!ServerInv'
    BY OthersInv DEF SystemInv
  <1>4. /\ UNCHANGED <<running, sessionVars, ready>> /\ faults' \in {faults, faults + 1}
        /\ \A j \in ConnIds : j # k => SameWire(j) /\ owed'[j] = owed[j]
        /\ cl[k] # "none" => cl'[k] # "none"
        /\ sv[k] \in {"closed", "broken"} /\ cl[k] # "none" => sv'[k] \in {"closed", "broken"}
        /\ owed' = [j \in ConnIds |-> owed'[j]]
    <2>1. CASE ClientConnects(k)
      BY <1>2, <2>1 DEF ClientConnects, SameWire
    <2>2. CASE ClientSends(k)
      <3>1. PICK m : /\ req' = [req EXCEPT ![k] = Append(@, m)]
                     /\ owed' \in {owed, [owed EXCEPT ![k] = Append(@, m)]}
        BY <2>2 DEF ClientSends
      <3>2. UNCHANGED <<cl, sv, rsp, running, faults, sessionVars, ready>>
        BY <2>2 DEF ClientSends
      <3> QED
        BY <1>2, <3>1, <3>2 DEF SameWire
    <2>3. CASE ClientReceives(k)
      BY <1>2, <2>3 DEF ClientReceives, SameWire
    <2>4. CASE ClientCloses(k)
      BY <1>2, <2>4 DEF ClientCloses, SameWire
    <2>5. CASE ConnectionFails(k)
      BY <1>2, <2>5 DEF ConnectionFails, ResetConnection, ClientTimesOut, PeerResets, Fault, SameWire
    <2> QED
      BY <1>1, <2>1, <2>2, <2>3, <2>4, <2>5 DEF ClientStep
  <1>5. \A j \in OwnConns : SameWire(j) /\ owed'[j] = owed[j]
    BY <1>2, <1>4
  <1>6. EndsStep
    <2>1. Abandoned' = Abandoned
      BY <1>4, <1>5 DEF Abandoned, SameWire, sessionVars
    <2>2. Over \subseteq Over'
      BY <1>2, <1>4 DEF Over, SameWire, sessionVars
    <2>3. {seen, seen', faults, faults'} \subseteq Nat /\ faults' >= faults /\ seen' = seen
      BY <1>1, <1>2, <1>4
    <2> QED
      BY <1>1, <2>1, <2>2, <2>3 DEF EndsStep
  <1>7. UNCHANGED CP!clientVars
    BY <1>1, <1>4, <1>5
    DEF processVars, mainVars, scraperVars, CP!clientVars, CP!wireVars, CP!mainVars, CP!scraperVars,
        SameWire, Own
  <1>8. hand' = [j \in ConnIds |-> BeingServed(j)']
    <2>1. hand = [j \in ConnIds |-> BeingServed(j)]
      BY DEF SystemInv
    <2> QED
      BY <1>1, <1>4, <2>1, ServedUnchanged
  <1>9. owed' \in [ConnIds -> Seq(Messages)]
    <2>1. Owed' \in [ConnIds -> Seq(Messages)]
      BY <1>3 DEF SP!ServerInv, SP!ServerTypeOK, SP!Messages, Messages, SP!MessageKinds, MessageKinds
    <2>2. owed'[k] = Owed'[k]
      BY <1>2 DEF Owed, OwnConns, OwnFaults
    <2>3. owed'[k] \in Seq(Messages)
      BY <1>2, <2>1, <2>2
    <2> QED
      BY <1>2, <1>4, <2>3
  <1>10. ASSUME NEW t \in SessionIds PROVE OwnSession(t)'
    <2>1. SP!Untouched(t)
      BY <1>4 DEF SP!Untouched, SP!Posted, SP!PostedOk, sessionVars
    <2>2. conn[t] \in OwnConns => cl'[conn[t]] = cl[conn[t]]
      BY <1>5 DEF SameWire
    <2> QED
      BY <1>1, <2>1, <2>2, UntouchedOwn DEF SystemInv
  <1> QED
    BY <1>1, <1>3, <1>6, <1>7, <1>8, <1>9, <1>10, WorldStep

LEMMA IdleStep == ASSUME SystemInv, UNCHANGED systemVars PROVE SystemStepOk
  <1>1. /\ UNCHANGED <<processVars, wireVars, hand, executions, sessionVars, ready, owed, seen>>
        /\ file' = file /\ UNCHANGED <<pc, cur, data, lifetime>>
    BY DEF systemVars, clientVars, processVars, scraperVars, mainVars, wireVars
  <1>2. SP!ServerInv'
    <2>1. UNCHANGED SP!serverVars
      BY <1>1, OwedUnchanged DEF SP!serverVars, SP!wireVars, SP!sessionVars, wireVars, sessionVars
    <2> QED
      BY <2>1, ServerConstants, SP!StutterInv DEF SystemInv
  <1>3. EndsStep
    BY <1>1, SystemTypes DEF EndsStep, Abandoned, Over, wireVars, sessionVars
  <1>4. UNCHANGED CP!clientVars
    BY <1>1
    DEF processVars, mainVars, scraperVars, CP!clientVars, CP!wireVars, CP!mainVars, CP!scraperVars,
        wireVars, Own
  <1>5. hand' = [j \in ConnIds |-> BeingServed(j)'] /\ owed' \in [ConnIds -> Seq(Messages)]
    <2>1. hand = [j \in ConnIds |-> BeingServed(j)] /\ owed \in [ConnIds -> Seq(Messages)]
      BY DEF SystemInv
    <2> QED
      BY <1>1, <2>1, ServedUnchanged
  <1>6. ASSUME NEW t \in SessionIds PROVE OwnSession(t)'
    <2>1. SP!Untouched(t)
      BY <1>1 DEF SP!Untouched, SP!Posted, SP!PostedOk, sessionVars
    <2> QED
      BY <1>1, <2>1, UntouchedOwn DEF SystemInv, wireVars
  <1> QED
    BY <1>1, <1>2, <1>3, <1>4, <1>5, <1>6, WorldStep

LEMMA SystemNextInv == SystemInv /\ [SystemNext]_systemVars => SystemStepOk
  <1> SUFFICES ASSUME SystemInv, [SystemNext]_systemVars PROVE SystemStepOk
    OBVIOUS
  <1>1. CASE ByClient(MainStep \/ ScraperRuns(ScraperNext))
    <2>1. ByClient(MainStep) \/ ByClient(ScraperRuns(ScraperNext))
      BY <1>1 DEF ByClient
    <2> QED
      BY <2>1, MainThread, ScraperThread
  <1>2. CASE \/ \E s \in SessionIds : ByServer(Completes(s) \/ AcceptErrs(s))
             \/ ByServer(RunHandler)
             \/ ByServer(ServerKilled \/ ServerStartsAgain)
    BY <1>2, ServerSteps
  <1>3. CASE \E k \in OwnConns : OwnConnectionFails(k)
    BY <1>3, ConnectionStep
  <1>4. CASE \E k \in OtherConns : OthersStep(k)
    BY <1>4, OthersStepOk
  <1>5. CASE UNCHANGED systemVars
    BY <1>5, IdleStep
  <1> QED
    BY <1>1, <1>2, <1>3, <1>4, <1>5 DEF SystemNext

LEMMA SystemInitClient == SystemInit => CP!ClientInit /\ CP!ScraperInit
  BY Connections
  DEF SystemInit, ClientInit, CP!ClientInit, WireInit, CP!WireInit, ScraperInit, CP!ScraperInit, Own,
      CP!Items, Items

LEMMA SystemInitServer == SystemInit => SP!ServerInit
  <1>1. SystemInit => Owed = [k \in ConnIds |-> <<>>]
    BY DEF SystemInit, ClientInit, ServerInit, Owed
  <1> QED
    BY <1>1 DEF SystemInit, ServerInit, SP!ServerInit, WireInit, SP!WireInit

LEMMA SystemInitInv == SystemInit => SystemInv
  <1> SUFFICES ASSUME SystemInit PROVE SystemInv
    OBVIOUS
  <1> USE DEF SystemInit
  <1>1. CP!ClientInv /\ CP!ScraperInv
    BY SystemInitClient, ClientConstants, ClientFiles, CP!ClientInitInv, CP!ScraperInitInv
  <1>2. SP!ServerInv
    BY SystemInitServer, ServerConstants, SP!InitInv
  <1>3. /\ cl = [k \in ConnIds |-> "none"] /\ sv = [k \in ConnIds |-> "none"]
        /\ req = [k \in ConnIds |-> <<>>] /\ hand = [k \in ConnIds |-> <<>>]
        /\ owed = [k \in ConnIds |-> <<>>]
        /\ conn = [s \in SessionIds |-> Nobody] /\ cur = 0 /\ pc = "open" /\ file \in Files
        /\ faults = 0 /\ seen = 0 /\ lifetime = "alive"
    BY DEF ClientInit, ServerInit, WireInit, ScraperInit
  <1>4. Items \subseteq RequestIds
    BY <1>3, SystemAssumption DEF Items
  <1>5. \A k \in OwnConns : k \in Nat /\ k >= 1 /\ k \in ConnIds
    BY Connections
  <1>6. \A s \in SessionIds : conn[s] \notin OwnConns
    BY <1>3, Connections
  <1>7. hand = [k \in ConnIds |-> BeingServed(k)]
    <2>1. \A k \in ConnIds : ~SP!InService(k)
      BY <1>3, Connections DEF SP!InService, SP!Holds, SP!Serves
    <2>2. \A k \in ConnIds : BeingServed(k) = <<>>
      BY <1>2, <2>1, ServedIs DEF SP!ServerInv
    <2> QED
      BY <1>3, <2>2
  <1>8. OnlyOwnRequests
    BY <1>3, <1>5 DEF OnlyOwnRequests
  <1>9. \A s \in SessionIds : OwnSession(s)
    BY <1>6 DEF OwnSession
  <1>10. ConnectionsUsed
    BY <1>3, <1>5, OwnLocals, <1>1 DEF ConnectionsUsed, Ended
  <1>11. EndsExplained
    <2>1. Abandoned = {}
      BY <1>3, <1>5 DEF Abandoned
    <2>2. Cardinality(Abandoned) = 0
      BY <2>1, FS_EmptySet
    <2>3. Cardinality(Over) \in Nat
      BY EndSizes
    <2> QED
      BY <1>3, <2>2, <2>3 DEF EndsExplained
  <1>12. owed \in [ConnIds -> Seq(Messages)]
    BY <1>3
  <1> QED
    BY <1>1, <1>2, <1>4, <1>7, <1>8, <1>9, <1>10, <1>11, <1>12 DEF SystemInv

-----------------------------------------------------------------------------
(* The client of CP is TheClient.                                          *)

LEMMA SameState ==
    /\ CP!ClientInit <=> TheClient!ClientInit
    /\ CP!clientVars = TheClient!clientVars
  <1>1. CP!ClientInit <=> TheClient!ClientInit
    BY DEF CP!ClientInit, CP!ScraperInit, CP!WireInit, CP!Items,
           TheClient!ClientInit, TheClient!ScraperInit, TheClient!WireInit, TheClient!Items
  <1>2. CP!clientVars = TheClient!clientVars
    BY DEF CP!clientVars, CP!scraperVars, CP!wireVars, CP!mainVars,
           TheClient!clientVars, TheClient!scraperVars, TheClient!wireVars, TheClient!mainVars
  <1> QED
    BY <1>1, <1>2

LEMMA SameSteps == CP!ClientNext <=> TheClient!ClientNext
  <1> USE DEF CP!scraperVars, CP!wireVars, CP!mainVars, CP!Ended,
              TheClient!scraperVars, TheClient!wireVars, TheClient!mainVars, TheClient!Ended,
              CP!Fault, TheClient!Fault
  <1>1. CP!ScraperRuns(CP!ScraperNext) <=> TheClient!ScraperRuns(TheClient!ScraperNext)
    BY DEF CP!ScraperRuns, TheClient!ScraperRuns, CP!ScraperNext, TheClient!ScraperNext,
           CP!ScraperStep, TheClient!ScraperStep, CP!GetDatum, TheClient!GetDatum,
           CP!EndOfInput, TheClient!EndOfInput, CP!WriteDatum, TheClient!WriteDatum,
           CP!LeaveLoop, TheClient!LeaveLoop, CP!ReadError, TheClient!ReadError,
           CP!CanRead, TheClient!CanRead, CP!StreamOk, TheClient!StreamOk,
           CP!LineFlags, TheClient!LineFlags, CP!AfterParsing, TheClient!AfterParsing
  <1>2. CP!MainStep <=> TheClient!MainStep
    BY DEF CP!MainStep, TheClient!MainStep, CP!Open, TheClient!Open,
           CP!OpenFails, TheClient!OpenFails, CP!Handshake, TheClient!Handshake,
           CP!HandshakeFails, TheClient!HandshakeFails, CP!Poll, TheClient!Poll,
           CP!TakeFront, TheClient!TakeFront, CP!Write, TheClient!Write, CP!Read, TheClient!Read,
           CP!PopFront, TheClient!PopFront, CP!SendBroken, TheClient!SendBroken,
           CP!SendThrows, TheClient!SendThrows, CP!AskQueue, TheClient!AskQueue,
           CP!AskScraper, TheClient!AskScraper, CP!DestroyClient, TheClient!DestroyClient,
           CP!DestroyStatics, TheClient!DestroyStatics, CP!EndProcess, TheClient!EndProcess,
           CP!Decide, TheClient!Decide, CP!KeepAlive, TheClient!KeepAlive,
           CP!ScraperGood, TheClient!ScraperGood, CP!Request, TheClient!Request
  <1>3. CP!ServerStep <=> TheClient!ServerStep
    BY DEF CP!ServerStep, TheClient!ServerStep, CP!ServerAccepts, TheClient!ServerAccepts,
           CP!ServerReads, TheClient!ServerReads, CP!ServerWrites, TheClient!ServerWrites,
           CP!Response, TheClient!Response
  <1>4. (\E k \in OwnConns : CP!ServerDrops(k)) <=> (\E k \in OwnConns : TheClient!ServerDrops(k))
    BY DEF CP!ServerDrops, TheClient!ServerDrops
  <1>5. CP!WireFails <=> TheClient!WireFails
    BY DEF CP!WireFails, TheClient!WireFails, CP!ResetConnection, TheClient!ResetConnection,
           CP!ClientTimesOut, TheClient!ClientTimesOut, CP!PeerResets, TheClient!PeerResets,
           CP!ServerRestarts, TheClient!ServerRestarts
  <1>6. CP!ServerCrashes <=> TheClient!ServerCrashes
    BY DEF CP!ServerCrashes, TheClient!ServerCrashes, CP!ServerDies, TheClient!ServerDies,
           CP!StopServer, TheClient!StopServer
  <1> QED
    BY <1>1, <1>2, <1>3, <1>4, <1>5, <1>6 DEF CP!ClientNext, TheClient!ClientNext

-----------------------------------------------------------------------------
(* What holds of both programs together.                                   *)

\* Nothing that the client, the server, the other clients or the network does leads out
\* of SystemInv.
THEOREM SystemInvariance == SystemSpec => []SystemInv
  <1>1. SystemInv /\ [SystemNext]_systemVars => SystemInv'
    BY SystemNextInv DEF SystemStepOk
  <1> QED
    BY <1>1, SystemInitInv, PTL DEF SystemSpec

\* The sessions, with all that other clients make them do and through every restart, are
\* a server as the client knows it: each step of both programs is a step of module Client.
THEOREM SessionsServe == SystemSpec => SessionsServeClient
  <1>1. SystemInit => TheClient!ClientInit
    BY SystemInitClient, SameState
  <1>2. SystemInv /\ [SystemNext]_systemVars => [TheClient!ClientNext]_(TheClient!clientVars)
    <2> SUFFICES ASSUME SystemInv, [SystemNext]_systemVars
                 PROVE  [TheClient!ClientNext]_(TheClient!clientVars)
      OBVIOUS
    <2>1. [CP!ClientNext]_CP!clientVars
      BY SystemNextInv DEF SystemStepOk
    <2>2. CASE CP!ClientNext
      BY <2>2, SameSteps
    <2>3. CASE UNCHANGED CP!clientVars
      <3>1. UNCHANGED TheClient!clientVars
        BY <2>3 DEF CP!clientVars, CP!scraperVars, CP!wireVars, CP!mainVars,
           TheClient!clientVars, TheClient!scraperVars, TheClient!wireVars, TheClient!mainVars
      <3> QED
        BY <3>1
    <2> QED
      BY <2>1, <2>2, <2>3
  <1> QED
    BY <1>1, <1>2, SystemInvariance, PTL DEF SystemSpec, SessionsServeClient

\* Through every reconnection, retry, other client and restart of the server, the client
\* finds its answers in the order of the input, each once and each its own.
THEOREM SystemDelivers ==
    SystemSpec => ImplementsDelivery /\ []InOrderExactlyOnce /\ []TheClient!ResponseMatchesRequest
  <1>1. SystemInit => Delivery!Init
    BY DEF SystemInit, ClientInit, ScraperInit, Delivery!Init
  <1>2. SystemInv /\ [SystemNext]_systemVars => [Delivery!Next]_<<scraped, answered>>
    <2> SUFFICES ASSUME SystemInv, [SystemNext]_systemVars
                 PROVE  [Delivery!Next]_<<scraped, answered>>
      OBVIOUS
    <2>1. [CP!Delivery!Next]_<<scraped, answered>>
      BY SystemNextInv, ClientConstants, ClientFiles, CP!ImplementsStep DEF SystemStepOk, SystemInv
    <2> QED
      BY <2>1
      DEF CP!Delivery!Next, CP!Delivery!Ask, CP!Delivery!Answer,
          Delivery!Next, Delivery!Ask, Delivery!Answer
  <1>3. SystemInv => InOrderExactlyOnce /\ TheClient!ResponseMatchesRequest
    <2> SUFFICES ASSUME SystemInv PROVE InOrderExactlyOnce /\ TheClient!ResponseMatchesRequest
      OBVIOUS
    <2>1. InOrderExactlyOnce
      BY DEF SystemInv, CP!ClientInv, CP!InOrderExactlyOnce, InOrderExactlyOnce
    <2>2. TheClient!ResponseMatchesRequest
      <3> SUFFICES ASSUME pc = "read", Own(cl)[cur] = "up", Own(rsp)[cur] # <<>>
                   PROVE  Head(Own(rsp)[cur]) = Response(cur, data) /\ data = Head(queue)
        BY DEF TheClient!ResponseMatchesRequest, TheClient!Response, Response
      <3>1. Own(rsp)[cur] = <<Response(cur, data)>>
        BY DEF SystemInv, CP!ClientInv, CP!OneInFlight, CP!Connected, CP!Ended, CP!Response, Response
      <3>2. data = Head(queue)
        BY DEF SystemInv, CP!ClientInv, CP!MainLocals
      <3> QED
        BY <3>1, <3>2
    <2> QED
      BY <2>1, <2>2
  <1> QED
    BY <1>1, <1>2, <1>3, SystemInvariance, PTL DEF SystemSpec, ImplementsDelivery, Delivery!Spec

\* The sessions execute what the client finds answered, and each item at most once more
\* than the client was told of a failure, which is no more than twice for what has failed,
\* once for each other client, whatever these do, and once for the end of the client.
THEOREM SystemExecutions ==
    SystemSpec =>
        /\ []TheClient!ExecutionsAccounted
        /\ [](\A n \in Items : executions[n] <= 2 * faults + Cardinality(OtherConns) + 2)
  <1>1. SystemInit => CP!ExecutionsInv
    BY SystemInitClient, ClientConstants, ClientFiles, CP!ExecutionsInitInv
  <1>2. SystemInv /\ SystemInv' /\ [SystemNext]_systemVars /\ CP!ExecutionsInv => CP!ExecutionsInv'
    BY SystemNextInv, ClientConstants, ClientFiles, CP!ExecutionsNextInv DEF SystemStepOk, SystemInv
  <1>3. SystemInv /\ CP!ExecutionsInv =>
            /\ TheClient!ExecutionsAccounted
            /\ \A n \in Items : executions[n] <= 2 * faults + Cardinality(OtherConns) + 2
    <2> SUFFICES ASSUME SystemInv, CP!ExecutionsInv
                 PROVE  /\ TheClient!ExecutionsAccounted
                        /\ \A n \in Items : executions[n] <= 2 * faults + Cardinality(OtherConns) + 2
      OBVIOUS
    <2>1. CP!ExecutionsAccounted
      BY ClientConstants, ClientFiles, CP!ExecutionsFollow DEF SystemInv
    <2>2. TheClient!ExecutionsAccounted
      BY <2>1
      DEF CP!ExecutionsAccounted, TheClient!ExecutionsAccounted, CP!AnsweredItems,
          TheClient!AnsweredItems, CP!ScrapedItems, TheClient!ScrapedItems, CP!Items, TheClient!Items
    <2>3. \A n \in Items : executions[n] \in Nat /\ executions[n] <= seen + 1
      BY <2>1, SystemTypes DEF CP!ExecutionsAccounted, CP!Items, Items
    <2>4. seen \in Nat /\ faults \in Nat /\ Cardinality(OtherConns) \in Nat
      BY SystemTypes, Connections
    <2>5. seen <= 2 * faults + Cardinality(OtherConns) + 1
      <3> DEFINE a == Cardinality(Abandoned)
                 o == Cardinality(Over)
                 l == IF lifetime = "alive" THEN 0 ELSE 1
                 c == Cardinality(OtherConns)
      <3>1. a \in Nat /\ o \in Nat /\ c \in Nat /\ o <= c
        BY <2>4, EndSizes
      <3>2. l \in {0, 1} /\ seen + a <= 2 * faults + o + l
        BY DEF SystemInv, EndsExplained
      <3> HIDE DEF a, o, l, c
      <3>3. seen <= 2 * faults + c + 1
        BY <2>4, <3>1, <3>2
      <3> QED
        BY <3>3 DEF c
    <2> QED
      BY <2>2, <2>3, <2>4, <2>5
  <1> QED
    BY <1>1, <1>2, <1>3, SystemInvariance, PTL DEF SystemSpec

\* With a client that reconnects, and through every end and restart of the server, no two
\* handlers share a session and no connection is leaked or shared.
THEOREM SystemSessions == SystemSpec => [](OneOperationEach /\ OneSessionEach)
  <1>1. SystemInv => SP!OneOperationEach /\ SP!OneSessionEach
    BY ServerConstants, SP!OneOperation, SP!OneSession DEF SystemInv
  <1>2. SP!OneOperationEach => OneOperationEach
    BY DEF SP!OneOperationEach, OneOperationEach
  <1>3. SP!OneSessionEach => OneSessionEach
    BY DEF SP!OneSessionEach, OneSessionEach, SP!Serves, Serves
  <1> QED
    BY <1>1, <1>2, <1>3, SystemInvariance, PTL

\* Every client, those of which nothing is assumed too, finds its messages accounted for:
\* on a connection that is up none is lost, answered twice, out of turn or to another.
THEOREM SystemAccounts == SystemSpec => [](SP!RequestsAccounted /\ SP!OnlyRequestsAnswered)
  <1>1. SystemInv => SP!RequestsAccounted /\ SP!OnlyRequestsAnswered
    BY ServerConstants, SP!Accounting, SP!OnlyRequests DEF SystemInv
  <1> QED
    BY <1>1, SystemInvariance, PTL
=============================================================================
