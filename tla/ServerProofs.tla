---------------------------- MODULE ServerProofs ----------------------------
(***************************************************************************)
(* The server, for any number of clients, sessions, messages and failures: *)
(* one operation and one connection per session, requests answered in      *)
(* their order, and nothing else answered.                                 *)
(***************************************************************************)
EXTENDS Server, SequenceTheorems, TLAPS

\* The handler of s has been posted with no error.
PostedOk(s) == \E i \in DOMAIN ready : ready[i] = [session |-> s, ok |-> TRUE]

HandlersOnce == \A i, j \in DOMAIN ready : ready[i].session = ready[j].session => i = j

\* A handler belongs to an operation in progress, and while the server runs the session
\* created last is the one that accepts.
Operations ==
    /\ HandlersOnce
    /\ \A s \in SessionIds : Posted(s) => op[s] # "none"
    /\ running => /\ count - 1 \in SessionIds
                  /\ op[count - 1] = "accept"
                  /\ \A s \in SessionIds : op[s] = "accept" => s = count - 1
                  /\ \A s \in SessionIds : s >= count => op[s] = "none"
    /\ ~running => \A s \in SessionIds : op[s] = "none"
    /\ ~SSL => \A s \in SessionIds : op[s] # "handshake"

\* A session holds a socket from the completion of its accept to its end.
Socket(s) ==
    /\ op[s] = "none" => conn[s] = Nobody
    /\ op[s] = "accept" => (conn[s] # Nobody <=> PostedOk(s))
    /\ op[s] \notin {"none", "accept"} => conn[s] # Nobody
    /\ conn[s] # Nobody => sv[conn[s]] \in {"up", "broken"}

SocketsApart ==
    \A s, t \in SessionIds : conn[s] = conn[t] /\ conn[s] # Nobody => s = t

\* An accepted connection has its session, and what is known of the two ends fits.
Ends(k) ==
    /\ sv[k] = "up" => \E s \in SessionIds : conn[s] = k
    /\ sv[k] = "broken" => cl[k] # "up"
    /\ cl[k] = "none" => sv[k] = "none" /\ req[k] = <<>> /\ rsp[k] = <<>> /\ owed[k] = <<>>

\* The session has read the header of a message and not yet its body.
HeaderKnown(s) == (op[s] = "header" /\ PostedOk(s)) \/ (op[s] = "body" /\ ~Posted(s))

\* The session has read a message as a whole.
Whole(s) == (op[s] = "body" /\ PostedOk(s)) \/ op[s] = "write"

\* What is in the buffers of a session is the message it works on, which has passed the
\* checks on the way.
Buffer(s) ==
    /\ HeaderKnown(s) \/ Whole(s) => /\ cdata[s] \in Messages
                                     /\ cdata[s].kind \in RequestKinds \cup {"cut"}
    /\ op[s] \in {"body", "write"} => HeaderParses(cdata[s]) /\ Resizes(cdata[s])
    /\ op[s] = "write" => /\ Decodes(cdata[s]) /\ Executes(cdata[s])
                          /\ response[s] = Result(cdata[s])
    /\ HeaderKnown(s) /\ sv[conn[s]] = "up" =>
        req[conn[s]] # <<>> /\ req[conn[s]][1] = cdata[s]
    /\ Whole(s) /\ sv[conn[s]] = "up" => cdata[s].kind # "cut"

\* What a client sends is of the kinds that clients send.
KindsSent(k) ==
    /\ \A i \in DOMAIN owed[k] : owed[k][i].kind \in RequestKinds
    /\ \A i \in DOMAIN req[k] : req[k][i].kind \in RequestKinds \cup {"cut"}

InService(k) == \E s \in SessionIds : Holds(s, k)

\* How many messages of k have been read from it and not been answered.
Held(k) == IF InService(k) THEN 1 ELSE 0

\* The messages that the client has sent are first those that have been answered, then
\* the one that its session holds, then those on their way.
Accounted(k) ==
    cl[k] = "up" =>
        /\ Len(rsp[k]) <= Len(owed[k])
        /\ \A i \in 1..Len(rsp[k]) :
            rsp[k][i] = Result(owed[k][i]) /\ owed[k][i].kind = "request"
        /\ sv[k] \in {"backlog", "up"} =>
            /\ Len(owed[k]) = Len(rsp[k]) + Held(k) + Len(req[k])
            /\ \A s \in SessionIds : Holds(s, k) => owed[k][Len(rsp[k]) + 1] = cdata[s]
            /\ \A i \in 1..Len(req[k]) : req[k][i] = owed[k][Len(rsp[k]) + Held(k) + i]

\* The inductive invariant.
ServerInv ==
    /\ ServerTypeOK
    /\ Operations
    /\ SocketsApart
    /\ \A s \in SessionIds : Socket(s) /\ Buffer(s)
    /\ \A k \in ConnIds : Ends(k) /\ KindsSent(k) /\ Accounted(k)
    /\ StaysUp

-----------------------------------------------------------------------------
(* The queue of handlers.                                                  *)

Handlers == [session : SessionIds, ok : BOOLEAN]

LEMMA HandlerIs ==
    ASSUME NEW s \in SessionIds, NEW ok \in BOOLEAN
    PROVE  /\ [session |-> s, ok |-> ok] \in Handlers
           /\ [session |-> s, ok |-> ok].session = s
           /\ \A t \in SessionIds :
                [session |-> s, ok |-> ok] = [session |-> t, ok |-> TRUE] <=> t = s /\ ok
  <1>1. CASE ok = TRUE
    BY <1>1 DEF Handlers
  <1>2. CASE ok = FALSE
    BY <1>2 DEF Handlers
  <1> QED
    BY <1>1, <1>2

LEMMA PostEffect ==
    ASSUME ready \in Seq(Handlers), HandlersOnce,
           NEW s \in SessionIds, NEW ok \in BOOLEAN, ~Posted(s), Post(s, ok)
    PROVE  /\ ready' \in Seq(Handlers) /\ HandlersOnce'
           /\ Posted(s)' /\ (PostedOk(s)' <=> ok)
           /\ \A t \in SessionIds : t # s => (Posted(t)' <=> Posted(t)) /\ (PostedOk(t)' <=> PostedOk(t))
  <1> DEFINE h == [session |-> s, ok |-> ok]
  <1>1. /\ h \in Handlers /\ h.session = s /\ ready' = Append(ready, h)
        /\ \A t \in SessionIds : h = [session |-> t, ok |-> TRUE] <=> t = s /\ ok
    BY HandlerIs DEF Post
  <1> HIDE DEF h
  <1>2. /\ ready' \in Seq(Handlers)
        /\ DOMAIN ready' = DOMAIN ready \cup {Len(ready) + 1}
        /\ \A i \in DOMAIN ready : i # Len(ready) + 1 /\ ready'[i] = ready[i]
        /\ ready'[Len(ready) + 1] = h
    BY <1>1
  <1>3. \A i \in DOMAIN ready : ready[i].session # s
    BY DEF Posted
  <1>4. HandlersOnce'
    BY <1>1, <1>2, <1>3 DEF HandlersOnce
  <1>5. Posted(s)' /\ \A t \in SessionIds : t # s => (Posted(t)' <=> Posted(t))
    BY <1>1, <1>2 DEF Posted
  <1>6. \A t \in SessionIds : PostedOk(t)' <=> PostedOk(t) \/ (t = s /\ ok)
    BY <1>1, <1>2 DEF PostedOk
  <1>7. ~PostedOk(s)
    BY <1>3 DEF PostedOk
  <1> QED
    BY <1>2, <1>4, <1>5, <1>6, <1>7

LEMMA TakeEffect ==
    ASSUME ready \in Seq(Handlers), HandlersOnce, ready # <<>>,
           NEW s \in SessionIds, NEW ok \in BOOLEAN, Head(ready) = [session |-> s, ok |-> ok],
           ready' = Tail(ready)
    PROVE  /\ ready' \in Seq(Handlers) /\ HandlersOnce'
           /\ Posted(s) /\ (PostedOk(s) <=> ok) /\ ~Posted(s)' /\ ~PostedOk(s)'
           /\ \A t \in SessionIds : t # s => (Posted(t)' <=> Posted(t)) /\ (PostedOk(t)' <=> PostedOk(t))
  <1> DEFINE h == [session |-> s, ok |-> ok]
  <1>1. /\ h \in Handlers /\ h.session = s /\ ready[1] = h /\ 1 \in DOMAIN ready
        /\ \A t \in SessionIds : h = [session |-> t, ok |-> TRUE] <=> t = s /\ ok
    <2>1. Head(ready) = ready[1] /\ 1 \in DOMAIN ready
      OBVIOUS
    <2> QED
      BY <2>1, HandlerIs
  <1> HIDE DEF h
  <1>2. /\ ready' \in Seq(Handlers)
        /\ \A i \in DOMAIN ready' : i + 1 \in DOMAIN ready /\ i + 1 # 1 /\ ready'[i] = ready[i + 1]
        /\ \A i \in DOMAIN ready : i # 1 => i - 1 \in DOMAIN ready' /\ ready'[i - 1] = ready[i]
        /\ \A i, j \in DOMAIN ready' : i + 1 = j + 1 => i = j
    BY <1>1
  <1>3. HandlersOnce'
    BY <1>2 DEF HandlersOnce
  <1>4. Posted(s) /\ \A i \in DOMAIN ready : i # 1 => ready[i].session # s
    BY <1>1 DEF Posted, HandlersOnce
  <1>5. PostedOk(s) <=> ok
    BY <1>1, <1>4 DEF PostedOk
  <1>6. ~Posted(s)' /\ ~PostedOk(s)'
    BY <1>2, <1>4 DEF Posted, PostedOk
  <1>7. \A t \in SessionIds : t # s => (Posted(t)' <=> Posted(t))
    BY <1>1, <1>2 DEF Posted
  <1>8. \A t \in SessionIds : t # s => (PostedOk(t)' <=> PostedOk(t))
    <2> SUFFICES ASSUME NEW t \in SessionIds, t # s PROVE PostedOk(t)' <=> PostedOk(t)
      OBVIOUS
    <2> DEFINE g == [session |-> t, ok |-> TRUE]
    <2>1. g # ready[1]
      BY <1>1
    <2> HIDE DEF g
    <2>2. ASSUME NEW i \in DOMAIN ready, ready[i] = g PROVE \E j \in DOMAIN ready' : ready'[j] = g
      <3>1. i - 1 \in DOMAIN ready' /\ ready'[i - 1] = g
        BY <1>2, <2>1, <2>2
      <3> QED
        BY <3>1
    <2>3. ASSUME NEW i \in DOMAIN ready', ready'[i] = g PROVE \E j \in DOMAIN ready : ready[j] = g
      <3>1. i + 1 \in DOMAIN ready /\ ready[i + 1] = g
        BY <1>2, <2>3
      <3> QED
        BY <3>1
    <2> QED
      BY <2>2, <2>3 DEF PostedOk, g
  <1> QED
    BY <1>2, <1>3, <1>4, <1>5, <1>6, <1>7, <1>8

LEMMA ReadyUnchanged ==
    ASSUME ready' = ready
    PROVE  /\ HandlersOnce' <=> HandlersOnce
           /\ \A t : (Posted(t)' <=> Posted(t)) /\ (PostedOk(t)' <=> PostedOk(t))
  BY DEF HandlersOnce, Posted, PostedOk

LEMMA OkIsPosted == \A s : (PostedOk(s) => Posted(s)) /\ (PostedOk(s)' => Posted(s)')
  BY DEF PostedOk, Posted

\* Holds, by what is known of the handlers.
LEMMA HoldsIs ==
    ASSUME NEW s, NEW k
    PROVE  /\ Holds(s, k) <=>
                conn[s] = k /\ ((op[s] = "body" /\ PostedOk(s)) \/ (op[s] = "write" /\ ~Posted(s)))
           /\ Holds(s, k)' <=>
                conn'[s] = k /\ ((op'[s] = "body" /\ PostedOk(s)') \/ (op'[s] = "write" /\ ~Posted(s)'))
  BY DEF Holds, Serves, PostedOk

-----------------------------------------------------------------------------
(* What a step that leaves a session, or a connection, alone preserves.    *)

Untouched(t) ==
    /\ op'[t] = op[t] /\ conn'[t] = conn[t]
    /\ cdata'[t] = cdata[t] /\ response'[t] = response[t]
    /\ Posted(t)' <=> Posted(t)
    /\ PostedOk(t)' <=> PostedOk(t)

LEMMA UntouchedHolds ==
    ASSUME NEW t, NEW k, Untouched(t)
    PROVE  /\ Holds(t, k)' <=> Holds(t, k)
           /\ HeaderKnown(t)' <=> HeaderKnown(t)
           /\ Whole(t)' <=> Whole(t)
  BY HoldsIs DEF Untouched, HeaderKnown, Whole

LEMMA UntouchedSocket ==
    ASSUME NEW t, Untouched(t), Socket(t),
           conn[t] # Nobody => sv'[conn[t]] \in {"up", "broken"}
    PROVE  Socket(t)'
  BY DEF Untouched, Socket

LEMMA UntouchedBuffer ==
    ASSUME NEW t, Untouched(t), Buffer(t),
           HeaderKnown(t) \/ Whole(t) => (sv'[conn[t]] = "up" => sv[conn[t]] = "up"),
           HeaderKnown(t) /\ sv'[conn[t]] = "up" /\ req[conn[t]] # <<>> =>
                req'[conn[t]] # <<>> /\ req'[conn[t]][1] = req[conn[t]][1]
    PROVE  Buffer(t)'
  BY UntouchedHolds DEF Untouched, Buffer, HeaderParses, Resizes, Decodes, Executes, Result, Response

LEMMA UntouchedAccounted ==
    ASSUME NEW k, Accounted(k),
           cl'[k] = "up" => /\ cl[k] = "up" /\ rsp'[k] = rsp[k] /\ owed'[k] = owed[k]
                            /\ sv'[k] \in {"backlog", "up"} =>
                                /\ sv[k] \in {"backlog", "up"} /\ req'[k] = req[k]
                                /\ \A t \in SessionIds : Holds(t, k)' <=> Holds(t, k)
                                /\ \A t \in SessionIds : Holds(t, k) => cdata'[t] = cdata[t]
    PROVE  Accounted(k)'
  <1> SUFFICES ASSUME cl'[k] = "up" PROVE Accounted(k)'
    BY DEF Accounted
  <1>1. CASE sv'[k] \notin {"backlog", "up"}
    BY <1>1 DEF Accounted, Result, Response
  <1>2. CASE sv'[k] \in {"backlog", "up"}
    <2>1. Held(k)' = Held(k)
      BY <1>2 DEF Held, InService
    <2> QED
      BY <1>2, <2>1 DEF Accounted, Result, Response
  <1> QED
    BY <1>1, <1>2

-----------------------------------------------------------------------------
LEMMA InitInv == ServerInit => ServerInv
  <1> SUFFICES ASSUME ServerInit PROVE ServerInv
    OBVIOUS
  <1> USE ServerAssumption DEF ServerInit, WireInit
  <1>1. ServerTypeOK
    BY DEF ServerTypeOK, WireTypeOK, ClientEnds, ServerEnds, Ops
  <1>2. \A s \in SessionIds : ~Posted(s) /\ ~PostedOk(s)
    BY DEF Posted, PostedOk
  <1>3. Operations
    BY <1>2 DEF Operations, HandlersOnce
  <1>4. SocketsApart /\ \A s \in SessionIds : Socket(s) /\ Buffer(s)
    BY <1>2 DEF SocketsApart, Socket, Buffer, HeaderKnown, Whole
  <1>5. \A k \in ConnIds : Ends(k) /\ KindsSent(k) /\ Accounted(k)
    BY DEF Ends, KindsSent, Accounted
  <1> QED
    BY <1>1, <1>3, <1>4, <1>5 DEF ServerInv, StaysUp

-----------------------------------------------------------------------------
(* Completions.                                                            *)

LEMMA AcceptCompletesInv ==
    ASSUME ServerInv, NEW s \in SessionIds, AcceptCompletes(s) PROVE ServerInv'
  <1> USE DEF ServerInv
  <1>1. PICK k \in ConnIds : /\ sv[k] = "backlog" /\ conn' = [conn EXCEPT ![s] = k]
                             /\ sv' = [sv EXCEPT ![k] = "up"]
    BY DEF AcceptCompletes
  <1>2. /\ running /\ op[s] = "accept" /\ ~Posted(s) /\ Post(s, TRUE)
        /\ UNCHANGED <<cl, req, rsp, running, faults, count, op, cdata, response, owed>>
    BY DEF AcceptCompletes, Pending, Posted
  <1>3. /\ ready' \in Seq(Handlers) /\ HandlersOnce' /\ Posted(s)' /\ PostedOk(s)'
        /\ \A t \in SessionIds : t # s => (Posted(t)' <=> Posted(t)) /\ (PostedOk(t)' <=> PostedOk(t))
    BY <1>2, PostEffect DEF ServerTypeOK, Handlers, Operations
  <1>4. \A t \in SessionIds : t # s => Untouched(t)
    BY <1>1, <1>2, <1>3 DEF Untouched, ServerTypeOK
  <1>5. \A t \in SessionIds : conn[t] # k
    BY <1>1, ServerAssumption DEF Socket
  <1>6. ServerTypeOK'
    BY <1>1, <1>2, <1>3 DEF ServerTypeOK, WireTypeOK, Handlers, ServerEnds
  <1>7. Operations'
    BY <1>2, <1>3 DEF Operations
  <1>8. SocketsApart'
    BY <1>1, <1>5 DEF SocketsApart, ServerTypeOK
  <1>9. ASSUME NEW t \in SessionIds PROVE Socket(t)' /\ Buffer(t)'
    <2>1. CASE t = s
      <3>1. conn'[s] = k /\ sv'[k] = "up" /\ op'[s] = "accept" /\ k # Nobody
        BY <1>1, <1>2, ServerAssumption DEF ServerTypeOK, WireTypeOK
      <3> QED
        BY <2>1, <3>1, <1>3 DEF Socket, Buffer, HeaderKnown, Whole
    <2>2. CASE t # s
      <3>1. Untouched(t) /\ sv'[conn[t]] = sv[conn[t]] /\ req' = req
        BY <1>1, <1>2, <1>4, <1>5, <2>2 DEF ServerTypeOK, WireTypeOK
      <3> QED
        BY <3>1, UntouchedSocket, UntouchedBuffer DEF Socket
    <2> QED
      BY <2>1, <2>2
  <1>10. ASSUME NEW j \in ConnIds PROVE Ends(j)' /\ KindsSent(j)' /\ Accounted(j)'
    <2>1. ASSUME NEW t \in SessionIds PROVE Holds(t, j)' <=> Holds(t, j)
      BY <1>2, <1>3, <1>4, HoldsIs, UntouchedHolds
    <2>2. Accounted(j)'
      BY <1>1, <1>2, <2>1, UntouchedAccounted DEF ServerTypeOK, WireTypeOK
    <2>3. conn[s] = Nobody
      BY <1>2, OkIsPosted DEF Socket
    <2>4. \A t \in SessionIds : conn[t] # Nobody => conn'[t] = conn[t]
      BY <1>1, <2>3 DEF ServerTypeOK
    <2>5. sv'[j] = "up" => \E t \in SessionIds : conn'[t] = j
      <3>1. CASE j = k
        BY <1>1, <3>1 DEF ServerTypeOK
      <3>2. CASE j # k
        BY <1>1, <2>4, <3>2, ServerAssumption DEF Ends, ServerTypeOK, WireTypeOK
      <3> QED
        BY <3>1, <3>2
    <2>6. Ends(j)'
      BY <1>1, <1>2, <2>5 DEF Ends, ServerTypeOK, WireTypeOK
    <2> QED
      BY <1>2, <2>2, <2>6 DEF KindsSent
  <1> QED
    BY <1>2, <1>6, <1>7, <1>8, <1>9, <1>10 DEF StaysUp

\* The completion of an operation that has done nothing to the session: an error, or a
\* handshake.
LEMMA PostOnlyInv ==
    ASSUME ServerInv, NEW s \in SessionIds, NEW ok \in BOOLEAN,
           running, op[s] # "none", ~Posted(s), Post(s, ok),
           UNCHANGED <<cl, sv, req, rsp, running, sessionVars, owed>>, faults' \in 0..MaxFaults,
           ok => op[s] = "handshake",
           op[s] = "write" => cl[conn[s]] # "up"
    PROVE  ServerInv'
  <1> USE DEF ServerInv, sessionVars
  <1>1. /\ ready' \in Seq(Handlers) /\ HandlersOnce' /\ Posted(s)' /\ (PostedOk(s)' <=> ok)
        /\ \A t \in SessionIds : t # s => (Posted(t)' <=> Posted(t)) /\ (PostedOk(t)' <=> PostedOk(t))
    BY PostEffect DEF ServerTypeOK, Handlers, Operations
  <1>2. \A t \in SessionIds : t # s => Untouched(t)
    BY <1>1 DEF Untouched
  <1>3. ~PostedOk(s)
    BY OkIsPosted
  <1>4. ServerTypeOK'
    BY <1>1 DEF ServerTypeOK, WireTypeOK, Handlers
  <1>5. Operations'
    BY <1>1 DEF Operations
  <1>6. SocketsApart'
    BY DEF SocketsApart
  <1>7. ASSUME NEW t \in SessionIds PROVE Socket(t)' /\ Buffer(t)'
    <2>1. CASE t = s
      <3>1. Socket(s)'
        BY <1>1, <1>3 DEF Socket
      <3>2. ~HeaderKnown(s)' /\ (Whole(s)' => Whole(s))
        BY <1>1 DEF HeaderKnown, Whole
      <3>3. Buffer(s)'
        BY <3>2 DEF Buffer, HeaderParses, Resizes, Decodes, Executes, Result, Response
      <3> QED
        BY <2>1, <3>1, <3>3
    <2>2. CASE t # s
      BY <1>2, <2>2, UntouchedSocket, UntouchedBuffer DEF Socket
    <2> QED
      BY <2>1, <2>2
  <1>8. ASSUME NEW j \in ConnIds PROVE Ends(j)' /\ KindsSent(j)' /\ Accounted(j)'
    <2>1. ASSUME NEW t \in SessionIds, cl[j] = "up" PROVE Holds(t, j)' <=> Holds(t, j)
      BY <1>1, <1>2, <1>3, <2>1, HoldsIs, UntouchedHolds
    <2>2. Accounted(j)'
      BY <2>1, UntouchedAccounted
    <2> QED
      BY <2>2 DEF Ends, KindsSent
  <1> QED
    BY <1>4, <1>5, <1>6, <1>7, <1>8 DEF StaysUp

LEMMA AcceptErrsInv ==
    ASSUME ServerInv, NEW s \in SessionIds, AcceptErrs(s) PROVE ServerInv'
  <1>1. faults' \in 0..MaxFaults
    BY ServerAssumption DEF AcceptErrs, Fault, ServerInv, ServerTypeOK, WireTypeOK
  <1> QED
    BY <1>1, PostOnlyInv DEF AcceptErrs, Pending, Posted

\* The connection of a session that has an operation to complete.
LEMMA PendingConn ==
    ASSUME ServerInv, NEW s \in SessionIds, op[s] \notin {"none", "accept"}
    PROVE  /\ conn[s] \in ConnIds
           /\ sv[conn[s]] \in {"up", "broken"}
           /\ sv[conn[s]] = "broken" => cl[conn[s]] # "up"
  BY DEF ServerInv, ServerTypeOK, Socket, Ends

LEMMA HandshakeCompletesInv ==
    ASSUME ServerInv, NEW s \in SessionIds, HandshakeCompletes(s) PROVE ServerInv'
  <1>1. running /\ op[s] = "handshake" /\ ~Posted(s) /\ UNCHANGED <<wireVars, sessionVars, owed>>
    BY DEF HandshakeCompletes, Pending, Posted
  <1>2. \E ok \in BOOLEAN : Post(s, ok)
    BY DEF HandshakeCompletes
  <1> QED
    BY <1>1, <1>2, PostOnlyInv DEF wireVars, ServerInv, ServerTypeOK, WireTypeOK

LEMMA HeaderCompletesInv ==
    ASSUME ServerInv, NEW s \in SessionIds, HeaderCompletes(s) PROVE ServerInv'
  <1> USE DEF ServerInv
  <1> DEFINE k == conn[s]
  <1>1. /\ running /\ op[s] = "header" /\ ~Posted(s)
        /\ UNCHANGED <<cl, sv, req, rsp, running, faults, count, op, conn, response, owed>>
    BY DEF HeaderCompletes, Pending, Posted, wireVars
  <1>2. CASE Post(s, FALSE) /\ UNCHANGED cdata
    BY <1>1, <1>2, PostOnlyInv DEF sessionVars, ServerTypeOK, WireTypeOK
  <1>3. CASE req[k] # <<>> /\ cdata' = [cdata EXCEPT ![s] = Head(req[k])] /\ Post(s, TRUE)
    <2>1. /\ ready' \in Seq(Handlers) /\ HandlersOnce' /\ Posted(s)' /\ PostedOk(s)'
          /\ \A t \in SessionIds : t # s => (Posted(t)' <=> Posted(t)) /\ (PostedOk(t)' <=> PostedOk(t))
      BY <1>1, <1>3, PostEffect DEF ServerTypeOK, Handlers, Operations
    <2>2. \A t \in SessionIds : t # s => Untouched(t)
      BY <1>1, <1>3, <2>1 DEF Untouched, ServerTypeOK
    <2>3. k \in ConnIds
      BY <1>1, PendingConn
    <2>4. /\ cdata'[s] = req[k][1] /\ req[k][1] \in Messages
          /\ req[k][1].kind \in RequestKinds \cup {"cut"}
      <3>1. req[k] \in Seq(Messages) /\ Head(req[k]) = req[k][1] /\ 1 \in DOMAIN req[k]
        BY <1>3, <2>3 DEF ServerTypeOK, WireTypeOK
      <3> QED
        BY <1>3, <2>3, <3>1 DEF ServerTypeOK, KindsSent
    <2> HIDE DEF k
    <2>5. ServerTypeOK'
      BY <1>1, <1>3, <2>1, <2>4 DEF ServerTypeOK, WireTypeOK, Handlers
    <2>6. Operations' /\ SocketsApart'
      BY <1>1, <2>1 DEF Operations, SocketsApart
    <2>7. ASSUME NEW t \in SessionIds PROVE Socket(t)' /\ Buffer(t)'
      <3>1. CASE t = s
        <4>1. ~Whole(s)'
          BY <1>1 DEF Whole
        <4> QED
          BY <1>1, <1>3, <2>1, <2>4, <3>1, <4>1 DEF Socket, Buffer, k
      <3>2. CASE t # s
        BY <1>1, <2>2, <3>2, UntouchedSocket, UntouchedBuffer DEF Socket
      <3> QED
        BY <3>1, <3>2
    <2>8. ASSUME NEW j \in ConnIds PROVE Ends(j)' /\ KindsSent(j)' /\ Accounted(j)'
      <3>1. ASSUME NEW t \in SessionIds
            PROVE  (Holds(t, j)' <=> Holds(t, j)) /\ (Holds(t, j) => cdata'[t] = cdata[t])
        BY <1>1, <2>2, HoldsIs, UntouchedHolds DEF Untouched
      <3>2. Accounted(j)'
        BY <1>1, <3>1, UntouchedAccounted
      <3> QED
        BY <1>1, <3>2 DEF Ends, KindsSent
    <2> QED
      BY <1>1, <2>5, <2>6, <2>7, <2>8 DEF StaysUp
  <1> QED
    BY <1>2, <1>3 DEF HeaderCompletes

LEMMA BodyCompletesInv ==
    ASSUME ServerInv, NEW s \in SessionIds, BodyCompletes(s) PROVE ServerInv'
  <1> USE DEF ServerInv
  <1>1. /\ running /\ op[s] = "body" /\ ~Posted(s)
        /\ UNCHANGED <<cl, sv, rsp, running, faults, count, op, conn, cdata, response, owed>>
    BY DEF BodyCompletes, Pending, Posted, sessionVars
  <1>0. PICK k \in ConnIds : k = conn[s]
    BY <1>1, PendingConn
  <1> DEFINE ok == Head(req[k]).kind # "cut"
  <1>2. CASE Post(s, FALSE) /\ UNCHANGED req
    BY <1>1, <1>2, PostOnlyInv DEF sessionVars, ServerTypeOK, WireTypeOK
  <1>3. CASE req[k] # <<>> /\ req' = [req EXCEPT ![k] = Tail(@)] /\ Post(s, ok)
    <2>1. ok \in BOOLEAN
      OBVIOUS
    <2>2. /\ k \in ConnIds /\ sv[k] \in {"up", "broken"} /\ (sv[k] = "broken" => cl[k] # "up")
      BY <1>0, <1>1, PendingConn
    <2>3. /\ req[k] \in Seq(Messages) /\ Head(req[k]) = req[k][1] /\ 1 \in DOMAIN req[k]
          /\ req'[k] = Tail(req[k]) /\ \A j \in ConnIds : j # k => req'[j] = req[j]
      BY <1>3, <2>2 DEF ServerTypeOK, WireTypeOK
    <2>4. ok <=> req[k][1].kind # "cut"
      BY <2>3
    <2> HIDE DEF ok
    <2>5. /\ ready' \in Seq(Handlers) /\ HandlersOnce' /\ Posted(s)' /\ (PostedOk(s)' <=> ok)
          /\ \A t \in SessionIds : t # s => (Posted(t)' <=> Posted(t)) /\ (PostedOk(t)' <=> PostedOk(t))
      BY <1>1, <1>3, <2>1, PostEffect DEF ServerTypeOK, Handlers, Operations
    <2>6. \A t \in SessionIds : t # s => Untouched(t) /\ conn[t] # k
      BY <1>0, <1>1, <2>5, ServerAssumption DEF Untouched, SocketsApart
    <2>7. ServerTypeOK'
      <3>1. Tail(req[k]) \in Seq(Messages)
        BY <2>3
      <3> QED
        BY <1>1, <1>3, <2>5, <3>1 DEF ServerTypeOK, WireTypeOK, Handlers
    <2>8. Operations' /\ SocketsApart'
      BY <1>1, <2>5 DEF Operations, SocketsApart
    <2>9. HeaderKnown(s) /\ ~HeaderKnown(s)' /\ (Whole(s)' => ok)
      BY <1>1, <2>5 DEF HeaderKnown, Whole
    <2>10. sv[k] = "up" => req[k][1] = cdata[s]
      BY <1>0, <2>9 DEF Buffer
    <2>11. ASSUME NEW t \in SessionIds PROVE Socket(t)' /\ Buffer(t)'
      <3>1. CASE t = s
        <4>1. Socket(s)'
          BY <1>1 DEF Socket
        <4>2. Buffer(s)'
          BY <1>0, <1>1, <2>4, <2>9, <2>10 DEF Buffer, HeaderParses, Resizes
        <4> QED
          BY <3>1, <4>1, <4>2
      <3>2. CASE t # s
        <4>1. HeaderKnown(t) => conn[t] \in ConnIds
          BY PendingConn DEF HeaderKnown, ServerTypeOK
        <4>2. HeaderKnown(t) => req'[conn[t]] = req[conn[t]]
          BY <2>3, <2>6, <3>2, <4>1
        <4> QED
          BY <1>1, <2>6, <3>2, <4>2, UntouchedSocket, UntouchedBuffer DEF Socket
      <3> QED
        BY <3>1, <3>2
    <2>12. Len(req[k]) \in Nat /\ Len(req[k]) > 0 /\ Len(Tail(req[k])) = Len(req[k]) - 1
      BY <2>3
    <2>15. \A i \in 1..Len(Tail(req[k])) :
            i + 1 \in 1..Len(req[k]) /\ i + 1 \in DOMAIN req[k] /\ Tail(req[k])[i] = req[k][i + 1]
      BY <2>3, <2>12
    <2>13. Accounted(k)'
      <3> SUFFICES ASSUME cl[k] = "up" PROVE Accounted(k)'
        BY <1>1 DEF Accounted
      <3>1. sv[k] = "up" /\ ~Holds(s, k)
        BY <2>2, <1>1, OkIsPosted, HoldsIs
      <3>2. \A t \in SessionIds : ~Holds(t, k) /\ (t # s => ~Holds(t, k)')
        BY <2>6, <3>1, HoldsIs DEF Untouched
      <3>3. Held(k) = 0
        BY <3>2 DEF Held, InService
      <3> DEFINE n == Len(rsp[k])
                 m == Len(req[k])
      <3>4. n \in Nat /\ m \in Nat /\ m > 0 /\ Len(Tail(req[k])) = m - 1
        BY <2>2, <2>12 DEF ServerTypeOK, WireTypeOK
      <3>5. /\ Len(owed[k]) = n + Held(k) + m
            /\ \A i \in 1..m : req[k][i] = owed[k][n + Held(k) + i]
        BY <2>2, <3>1 DEF Accounted
      <3> HIDE DEF n, m
      <3>13. Len(owed[k]) = n + m /\ \A i \in 1..m : req[k][i] = owed[k][n + i]
        BY <3>3, <3>4, <3>5
      <3>6. owed[k][n + 1] = req[k][1] /\ n + 1 \in DOMAIN owed[k]
        <4>1. DOMAIN owed[k] = 1..(n + m)
          BY <3>13 DEF ServerTypeOK
        <4> QED
          BY <3>4, <3>13, <4>1
      <3>7. ok
        BY <2>2, <2>4, <3>6, ServerAssumption DEF KindsSent
      <3>8. Holds(s, k)'
        BY <1>0, <1>1, <2>5, <3>7, HoldsIs
      <3>9. Held(k)' = 1
        BY <3>8 DEF Held, InService
      <3>10. Len(owed[k]) = n + 1 + Len(Tail(req[k]))
        <4> DEFINE l == Len(Tail(req[k]))
        <4>1. l = m - 1
          BY <3>4
        <4> HIDE DEF l
        <4>2. n + m = n + 1 + l
          BY <3>4, <4>1
        <4> QED
          BY <3>13, <4>2 DEF l
      <3>11. \A i \in 1..Len(Tail(req[k])) : Tail(req[k])[i] = owed[k][n + 1 + i]
        <4> TAKE i \in 1..Len(Tail(req[k]))
        <4>1. n + (i + 1) = n + 1 + i /\ i + 1 \in 1..m
          BY <3>4
        <4> QED
          BY <2>15, <3>13, <4>1
      <3>12. \A t \in SessionIds : Holds(t, k)' => owed[k][n + 1] = cdata[t]
        BY <2>10, <3>1, <3>2, <3>6
      <3> QED
        BY <1>1, <2>2, <2>3, <3>9, <3>10, <3>11, <3>12 DEF n, Accounted, Result, Response
    <2>14. ASSUME NEW j \in ConnIds PROVE Ends(j)' /\ KindsSent(j)' /\ Accounted(j)'
      <3>1. CASE j = k
        <4>1. Ends(k)'
          BY <1>1, <2>2, <2>3 DEF Ends
        <4>2. KindsSent(k)'
          BY <1>1, <2>2, <2>3, <2>15 DEF KindsSent
        <4> QED
          BY <2>13, <3>1, <4>1, <4>2
      <3>2. CASE j # k
        <4>1. \A t \in SessionIds : Holds(t, j)' <=> Holds(t, j)
          BY <1>0, <1>1, <2>6, <3>2, HoldsIs, UntouchedHolds
        <4>2. Accounted(j)'
          BY <1>1, <2>3, <3>2, <4>1, UntouchedAccounted
        <4> QED
          BY <1>1, <2>3, <3>2, <4>2 DEF Ends, KindsSent
      <3> QED
        BY <3>1, <3>2
    <2> QED
      BY <1>1, <2>7, <2>8, <2>11, <2>14 DEF StaysUp
  <1> QED
    BY <1>0, <1>2, <1>3 DEF BodyCompletes

LEMMA WriteCompletesInv ==
    ASSUME ServerInv, NEW s \in SessionIds, WriteCompletes(s) PROVE ServerInv'
  <1> USE DEF ServerInv
  <1>1. /\ running /\ op[s] = "write" /\ ~Posted(s)
        /\ UNCHANGED <<cl, sv, req, running, faults, count, op, conn, cdata, response, owed>>
    BY DEF WriteCompletes, Pending, Posted, sessionVars
  <1>2. PICK k \in ConnIds : k = conn[s]
    BY <1>1, PendingConn
  <1>3. sv[k] \in {"up", "broken"} /\ (sv[k] = "broken" => cl[k] # "up")
    BY <1>1, <1>2, PendingConn
  <1>4. CASE (sv[k] = "broken" \/ cl[k] = "closed") /\ Post(s, FALSE) /\ UNCHANGED rsp
    BY <1>1, <1>2, <1>3, <1>4, PostOnlyInv DEF sessionVars, ServerTypeOK, WireTypeOK
  <1>5. CASE /\ sv[k] = "up" /\ Post(s, TRUE)
             /\ rsp' = IF cl[k] = "closed" THEN rsp ELSE [rsp EXCEPT ![k] = Append(@, response[s])]
    <2>1. /\ ready' \in Seq(Handlers) /\ HandlersOnce' /\ Posted(s)' /\ PostedOk(s)'
          /\ \A t \in SessionIds : t # s => (Posted(t)' <=> Posted(t)) /\ (PostedOk(t)' <=> PostedOk(t))
      BY <1>1, <1>5, PostEffect DEF ServerTypeOK, Handlers, Operations
    <2>2. \A t \in SessionIds : t # s => Untouched(t) /\ conn[t] # k
      BY <1>1, <1>2, <2>1, ServerAssumption DEF Untouched, SocketsApart
    <2>3. /\ Whole(s) /\ Whole(s)' /\ ~HeaderKnown(s)'
          /\ cdata[s] \in Messages /\ cdata[s].kind = "request"
          /\ response[s] = Result(cdata[s])
      <3>1. Whole(s) /\ Whole(s)' /\ ~HeaderKnown(s)'
        BY <1>1 DEF Whole, HeaderKnown
      <3>2. cdata[s] \in Messages /\ cdata[s].kind # "cut" /\ response[s] = Result(cdata[s])
        BY <1>1, <1>2, <1>5, <3>1 DEF Buffer
      <3>3. cdata[s].kind \notin {"header", "size", "body", "operation"}
        BY <1>1 DEF Buffer, HeaderParses, Resizes, Decodes, Executes
      <3> QED
        BY <3>1, <3>2, <3>3 DEF Messages, MessageKinds
    <2>4. response[s] \in Answers
      BY <2>3 DEF Result, Response, Messages, Answers
    <2>5. /\ rsp[k] \in Seq(Answers)
          /\ cl[k] # "closed" => rsp'[k] = Append(rsp[k], response[s])
          /\ \A j \in ConnIds : j # k => rsp'[j] = rsp[j]
      BY <1>5 DEF ServerTypeOK, WireTypeOK
    <2>6. ServerTypeOK'
      <3>1. Append(rsp[k], response[s]) \in Seq(Answers)
        BY <2>4, <2>5
      <3> QED
        BY <1>1, <1>5, <2>1, <3>1 DEF ServerTypeOK, WireTypeOK, Handlers
    <2>7. Operations' /\ SocketsApart'
      BY <1>1, <2>1 DEF Operations, SocketsApart
    <2>8. ASSUME NEW t \in SessionIds PROVE Socket(t)' /\ Buffer(t)'
      <3>1. CASE t = s
        BY <1>1, <2>3, <3>1 DEF Socket, Buffer, HeaderParses, Resizes, Decodes, Executes, Result, Response
      <3>2. CASE t # s
        BY <1>1, <2>2, <3>2, UntouchedSocket, UntouchedBuffer DEF Socket
      <3> QED
        BY <3>1, <3>2
    <2>9. Accounted(k)'
      <3> SUFFICES ASSUME cl[k] = "up" PROVE Accounted(k)'
        BY <1>1 DEF Accounted
      <3>1. Holds(s, k) /\ ~Holds(s, k)'
        BY <1>1, <1>2, <2>1, HoldsIs
      <3>2. \A t \in SessionIds : t # s => ~Holds(t, k) /\ ~Holds(t, k)'
        BY <2>2, HoldsIs DEF Untouched
      <3>3. Held(k) = 1 /\ Held(k)' = 0
        BY <3>1, <3>2 DEF Held, InService
      <3> DEFINE n == Len(rsp[k])
                 m == Len(req[k])
                 l == Len(rsp'[k])
      <3>4. /\ n \in Nat /\ m \in Nat /\ l = n + 1
            /\ \A i \in 1..n : rsp'[k][i] = rsp[k][i]
            /\ rsp'[k][n + 1] = response[s]
        <4>1. rsp'[k] = Append(rsp[k], response[s]) /\ req[k] \in Seq(Messages)
          BY <2>5 DEF ServerTypeOK, WireTypeOK
        <4> QED
          BY <2>4, <2>5, <4>1
      <3>5. /\ \A i \in 1..n : rsp[k][i] = Result(owed[k][i]) /\ owed[k][i].kind = "request"
            /\ Len(owed[k]) = n + Held(k) + m
            /\ \A i \in 1..m : req[k][i] = owed[k][n + Held(k) + i]
            /\ owed[k][n + 1] = cdata[s]
        BY <1>5, <3>1 DEF Accounted
      <3> HIDE DEF n, m, l
      <3>6. Len(owed[k]) = n + 1 + m /\ \A i \in 1..m : req[k][i] = owed[k][n + 1 + i]
        BY <3>3, <3>5
      <3>7. l <= Len(owed[k]) /\ Len(owed[k]) = l + 0 + m
        BY <3>4, <3>6
      <3>8. \A i \in 1..m : req[k][i] = owed[k][l + 0 + i]
        BY <3>4, <3>6
      <3>9. ASSUME NEW i \in 1..l
            PROVE  rsp'[k][i] = Result(owed[k][i]) /\ owed[k][i].kind = "request"
        <4>1. CASE i \in 1..n
          BY <3>4, <3>5, <4>1
        <4>2. CASE i = n + 1
          BY <2>3, <3>4, <3>5, <4>2
        <4> QED
          BY <3>4, <4>1, <4>2
      <3> QED
        <4>1. \A i \in 1..l : rsp'[k][i] = Result(owed'[k][i]) /\ owed'[k][i].kind = "request"
          BY <1>1, <3>9
        <4>2. \A t \in SessionIds : ~Holds(t, k)'
          BY <3>1, <3>2
        <4> QED
          BY <1>1, <3>3, <3>7, <3>8, <4>1, <4>2 DEF Accounted, l, m, Result, Response
    <2>10. ASSUME NEW j \in ConnIds PROVE Ends(j)' /\ KindsSent(j)' /\ Accounted(j)'
      <3>1. KindsSent(j)'
        BY <1>1 DEF KindsSent
      <3>2. CASE j = k
        BY <1>1, <1>5, <2>9, <3>1, <3>2 DEF Ends
      <3>3. CASE j # k
        <4>1. \A t \in SessionIds : Holds(t, j)' <=> Holds(t, j)
          BY <1>1, <1>2, <2>2, <3>3, HoldsIs, UntouchedHolds
        <4>2. Accounted(j)'
          BY <1>1, <2>5, <3>3, <4>1, UntouchedAccounted
        <4> QED
          BY <1>1, <2>5, <3>1, <3>3, <4>2 DEF Ends
      <3> QED
        BY <3>2, <3>3
    <2> QED
      BY <1>1, <2>6, <2>7, <2>8, <2>10 DEF StaysUp
  <1> QED
    BY <1>2, <1>4, <1>5 DEF WriteCompletes

-----------------------------------------------------------------------------
(* The handlers.                                                           *)

LEMMA HandlesEffect ==
    ASSUME ServerInv, NEW s \in SessionIds, NEW o, NEW ok \in BOOLEAN, Handles(s, o, ok),
           ready' = Tail(ready)
    PROVE  /\ running /\ op[s] = o
           /\ ready' \in Seq(Handlers) /\ HandlersOnce'
           /\ Posted(s) /\ (PostedOk(s) <=> ok) /\ ~Posted(s)' /\ ~PostedOk(s)'
           /\ \A t \in SessionIds : t # s => (Posted(t)' <=> Posted(t)) /\ (PostedOk(t)' <=> PostedOk(t))
  BY TakeEffect DEF Handles, ServerInv, ServerTypeOK, Handlers, Operations

\* A session goes on to its next operation.
LEMMA ContinueInv ==
    ASSUME ServerInv, NEW s \in SessionIds, NEW o, Handles(s, op[s], TRUE), Continue(s, o),
           owed' = owed,
           \/ op[s] \in {"handshake", "write"} /\ o = "header" /\ response' = response
           \/ /\ op[s] = "header" /\ o = "body" /\ HeaderParses(cdata[s]) /\ Resizes(cdata[s])
              /\ response' = response
           \/ /\ op[s] = "body" /\ o = "write" /\ Decodes(cdata[s]) /\ Executes(cdata[s])
              /\ response' = [response EXCEPT ![s] = Result(cdata[s])]
    PROVE  ServerInv'
  <1> USE DEF ServerInv
  <1>1. /\ ready' = Tail(ready) /\ op' = [op EXCEPT ![s] = o]
        /\ UNCHANGED <<cl, sv, req, rsp, running, faults, count, conn, cdata, owed>>
    BY DEF Continue, wireVars
  <1>2. /\ running /\ ready' \in Seq(Handlers) /\ HandlersOnce'
        /\ Posted(s) /\ PostedOk(s) /\ ~Posted(s)' /\ ~PostedOk(s)'
        /\ \A t \in SessionIds : t # s => (Posted(t)' <=> Posted(t)) /\ (PostedOk(t)' <=> PostedOk(t))
    BY <1>1, HandlesEffect
  <1>3. \A t \in SessionIds : t # s => Untouched(t)
    BY <1>1, <1>2 DEF Untouched, ServerTypeOK
  <1>4. op'[s] = o /\ op[s] \in Ops /\ o \in Ops
    BY <1>1 DEF ServerTypeOK, Ops
  <1>5. o = "write" => response'[s] = Result(cdata[s]) /\ Result(cdata[s]) \in Answers
    <2> SUFFICES ASSUME o = "write" PROVE response'[s] = Result(cdata[s]) /\ Result(cdata[s]) \in Answers
      OBVIOUS
    <2>1. Whole(s)
      BY <1>2 DEF Whole
    <2>2. cdata[s] \in Messages
      BY <2>1 DEF Buffer
    <2> QED
      BY <2>2 DEF ServerTypeOK, Result, Response, Messages, Answers
  <1>6. ServerTypeOK'
    BY <1>1, <1>2, <1>4, <1>5 DEF ServerTypeOK, WireTypeOK, Handlers
  <1>7. Operations'
    BY <1>1, <1>2, <1>4 DEF Operations, ServerTypeOK
  <1>8. SocketsApart'
    BY <1>1 DEF SocketsApart
  <1>9. ASSUME NEW t \in SessionIds PROVE Socket(t)' /\ Buffer(t)'
    <2>1. CASE t = s
      <3>1. Socket(s)'
        BY <1>1, <1>2, <1>4 DEF Socket
      <3>2. /\ HeaderKnown(s)' => HeaderKnown(s) /\ o = "body"
            /\ Whole(s)' => Whole(s) /\ o = "write" /\ op[s] = "body"
        BY <1>1, <1>2, <1>4 DEF HeaderKnown, Whole
      <3>3. Buffer(s)'
        BY <1>1, <1>4, <1>5, <3>2 DEF Buffer, HeaderParses, Resizes, Decodes, Executes, Result, Response
      <3> QED
        BY <2>1, <3>1, <3>3
    <2>2. CASE t # s
      BY <1>1, <1>3, <2>2, UntouchedSocket, UntouchedBuffer DEF Socket
    <2> QED
      BY <2>1, <2>2
  <1>10. ASSUME NEW j \in ConnIds PROVE Ends(j)' /\ KindsSent(j)' /\ Accounted(j)'
    <2>1. ASSUME NEW t \in SessionIds PROVE Holds(t, j)' <=> Holds(t, j)
      BY <1>1, <1>2, <1>3, <1>4, HoldsIs, UntouchedHolds
    <2>2. Accounted(j)'
      BY <1>1, <2>1, UntouchedAccounted
    <2> QED
      BY <1>1, <2>2 DEF Ends, KindsSent
  <1> QED
    BY <1>1, <1>6, <1>7, <1>8, <1>9, <1>10 DEF StaysUp

\* A session ends, and what it held was no message of a client that is still there.
LEMMA EndSessionInv ==
    ASSUME ServerInv, NEW s \in SessionIds, NEW ok \in BOOLEAN, Handles(s, op[s], ok),
           EndSession(s), owed' = owed,
           op[s] \in {"header", "body", "write"}, op[s] = "body" => ~ok
    PROVE  ServerInv'
  <1> USE DEF ServerInv
  <1>0. PICK k \in ConnIds : k = conn[s]
    BY PendingConn
  <1>1. /\ ready' = Tail(ready) /\ op' = [op EXCEPT ![s] = "none"]
        /\ conn' = [conn EXCEPT ![s] = Nobody] /\ cdata' = [cdata EXCEPT ![s] = Nothing]
        /\ response' = [response EXCEPT ![s] = Nothing]
        /\ sv' = [sv EXCEPT ![k] = "closed"] /\ req' = [req EXCEPT ![k] = <<>>]
        /\ UNCHANGED <<cl, rsp, running, faults, count, owed>>
    BY <1>0 DEF EndSession
  <1>2. /\ running /\ ready' \in Seq(Handlers) /\ HandlersOnce'
        /\ Posted(s) /\ (PostedOk(s) <=> ok) /\ ~Posted(s)' /\ ~PostedOk(s)'
        /\ \A t \in SessionIds : t # s => (Posted(t)' <=> Posted(t)) /\ (PostedOk(t)' <=> PostedOk(t))
    BY <1>1, HandlesEffect
  <1>3. \A t \in SessionIds : t # s => Untouched(t) /\ conn[t] # k
    BY <1>0, <1>1, <1>2, ServerAssumption DEF Untouched, ServerTypeOK, SocketsApart
  <1>4. op'[s] = "none" /\ conn'[s] = Nobody
    BY <1>1 DEF ServerTypeOK
  <1>5. ServerTypeOK'
    BY <1>1, <1>2 DEF ServerTypeOK, WireTypeOK, Handlers, Ops, ServerEnds
  <1>6. Operations'
    BY <1>1, <1>2, <1>4 DEF Operations, ServerTypeOK
  <1>7. SocketsApart'
    BY <1>1 DEF SocketsApart, ServerTypeOK
  <1>8. /\ sv'[k] = "closed" /\ req'[k] = <<>>
        /\ \A j \in ConnIds : j # k => sv'[j] = sv[j] /\ req'[j] = req[j]
    BY <1>1 DEF ServerTypeOK, WireTypeOK
  <1>9. ASSUME NEW t \in SessionIds PROVE Socket(t)' /\ Buffer(t)'
    <2>1. CASE t = s
      BY <1>2, <1>4, <2>1 DEF Socket, Buffer, HeaderKnown, Whole
    <2>2. CASE t # s
      <3>1. conn[t] # Nobody => conn[t] \in ConnIds
        BY DEF ServerTypeOK
      <3>2. conn[t] # Nobody => sv'[conn[t]] = sv[conn[t]] /\ req'[conn[t]] = req[conn[t]]
        BY <1>3, <1>8, <2>2, <3>1
      <3>3. HeaderKnown(t) \/ Whole(t) => conn[t] # Nobody
        BY DEF HeaderKnown, Whole, Socket
      <3> QED
        BY <1>3, <2>2, <3>2, <3>3, UntouchedSocket, UntouchedBuffer DEF Socket
    <2> QED
      BY <2>1, <2>2
  <1>10. ASSUME NEW j \in ConnIds PROVE Ends(j)' /\ KindsSent(j)' /\ Accounted(j)'
    <2>1. CASE j = k
      <3>1. Accounted(k)'
        BY <1>1, <1>8, UntouchedAccounted
      <3>2. cl[k] # "none"
        BY <1>0, PendingConn DEF Ends
      <3> QED
        BY <1>1, <1>8, <2>1, <3>1, <3>2 DEF Ends, KindsSent
    <2>2. CASE j # k
      <3>1. \A t \in SessionIds : t # s => (Holds(t, j)' <=> Holds(t, j)) /\ cdata'[t] = cdata[t]
        BY <1>3, UntouchedHolds DEF Untouched
      <3>2. ~Holds(s, j)' /\ ~Holds(s, j)
        BY <1>0, <1>4, <2>2, HoldsIs
      <3>3. Accounted(j)'
        BY <1>1, <1>8, <2>2, <3>1, <3>2, UntouchedAccounted
      <3>4. sv'[j] = "up" => \E t \in SessionIds : conn'[t] = j
        BY <1>0, <1>3, <1>8, <2>2 DEF Ends, Untouched
      <3>5. Ends(j)'
        BY <1>1, <1>8, <2>2, <3>4 DEF Ends
      <3> QED
        BY <1>1, <1>8, <2>2, <3>3, <3>5 DEF KindsSent
    <2> QED
      BY <2>1, <2>2
  <1> QED
    BY <1>1, <1>5, <1>6, <1>7, <1>9, <1>10 DEF StaysUp

LEMMA TerminateInv ==
    ASSUME ServerInv, Terminate, owed' = owed, faults' \in 0..MaxFaults,
           ~(~SSL /\ RequestKinds \subseteq {"request", "header"})
    PROVE  ServerInv'
  <1> USE DEF ServerInv
  <1>1. /\ ready' = <<>> /\ running' = FALSE
        /\ op' = [t \in SessionIds |-> "none"] /\ conn' = [t \in SessionIds |-> Nobody]
        /\ cdata' = [t \in SessionIds |-> Nothing] /\ response' = [t \in SessionIds |-> Nothing]
        /\ sv' = [j \in ConnIds |-> IF sv[j] \in {"backlog", "up"} THEN "closed" ELSE sv[j]]
        /\ UNCHANGED <<cl, req, rsp, count, owed>>
    BY DEF Terminate, StopServer
  <1>2. \A t \in SessionIds : ~Posted(t)' /\ ~PostedOk(t)'
    BY <1>1 DEF Posted, PostedOk
  <1>3. ServerTypeOK'
    <2>1. sv' \in [ConnIds -> ServerEnds]
      BY <1>1 DEF ServerTypeOK, WireTypeOK, ServerEnds
    <2>2. /\ op' \in [SessionIds -> Ops] /\ conn' \in [SessionIds -> ConnIds \cup {Nobody}]
          /\ cdata' \in [SessionIds -> Messages \cup {Nothing}]
          /\ response' \in [SessionIds -> Answers \cup {Nothing}]
      BY <1>1 DEF Ops
    <2>3. ready' \in Seq([session : SessionIds, ok : BOOLEAN])
      BY <1>1
    <2> QED
      BY <1>1, <2>1, <2>2, <2>3 DEF ServerTypeOK, WireTypeOK
  <1>4. Operations'
    BY <1>1, <1>2 DEF Operations, HandlersOnce
  <1>5. SocketsApart' /\ \A t \in SessionIds : Socket(t)' /\ Buffer(t)'
    BY <1>1, <1>2 DEF SocketsApart, Socket, Buffer, HeaderKnown, Whole
  <1>6. ASSUME NEW j \in ConnIds PROVE Ends(j)' /\ KindsSent(j)' /\ Accounted(j)'
    <2>1. sv'[j] \notin {"backlog", "up"} /\ (sv'[j] = "closed" \/ sv'[j] = sv[j])
      BY <1>1
    <2>2. Accounted(j)'
      BY <1>1, <2>1, UntouchedAccounted
    <2>3. cl[j] = "none" => sv'[j] = "none"
      BY <1>1 DEF Ends
    <2>4. Ends(j)'
      BY <1>1, <2>1, <2>3 DEF Ends
    <2> QED
      BY <1>1, <2>2, <2>4 DEF KindsSent
  <1> QED
    BY <1>3, <1>4, <1>5, <1>6 DEF StaysUp

LEMMA AcceptHandlerInv ==
    ASSUME ServerInv, NEW s \in SessionIds, NEW ok \in BOOLEAN, AcceptHandler(s, ok)
    PROVE  ServerInv'
  <1> USE DEF ServerInv
  <1> DEFINE o == IF ~ok THEN "none" ELSE IF SSL THEN "handshake" ELSE "header"
  <1>1. /\ Handles(s, "accept", ok) /\ count \in SessionIds /\ ready' = Tail(ready)
        /\ op' = [op EXCEPT ![s] = o, ![count] = "accept"] /\ count' = count + 1
        /\ UNCHANGED <<cl, sv, req, rsp, running, faults, conn, cdata, response, owed>>
    BY DEF AcceptHandler, wireVars
  <1>2. /\ running /\ op[s] = "accept" /\ ready' \in Seq(Handlers) /\ HandlersOnce'
        /\ Posted(s) /\ (PostedOk(s) <=> ok) /\ ~Posted(s)' /\ ~PostedOk(s)'
        /\ \A t \in SessionIds : t # s => (Posted(t)' <=> Posted(t)) /\ (PostedOk(t)' <=> PostedOk(t))
    BY <1>1, HandlesEffect
  <1>3. /\ o \in {"none", "handshake", "header"} /\ (~ok => o = "none") /\ (ok => o # "none")
        /\ o = "handshake" => SSL
    OBVIOUS
  <1> HIDE DEF o
  <1>0. PICK c \in SessionIds : c = count
    BY <1>1
  <1>4. c \in Nat /\ s = c - 1 /\ s # c /\ op[c] = "none"
    BY <1>0, <1>1, <1>2, ServerAssumption DEF Operations, ServerTypeOK
  <1>5. op'[s] = o /\ op'[c] = "accept"
        /\ \A t \in SessionIds : t # s /\ t # c => op'[t] = op[t]
    BY <1>0, <1>1, <1>4 DEF ServerTypeOK
  <1>6. \A t \in SessionIds : t # s /\ t # c => Untouched(t)
    BY <1>1, <1>2, <1>5 DEF Untouched
  <1>7. /\ conn[c] = Nobody /\ ~Posted(c) /\ ~Posted(c)'
        /\ ~PostedOk(c) /\ ~PostedOk(c)'
    BY <1>1, <1>2, <1>4, OkIsPosted DEF Operations, Socket
  <1>8. conn[s] # Nobody <=> ok
    BY <1>2 DEF Socket
  <1>9. ServerTypeOK'
    <2>1. op' \in [SessionIds -> Ops]
      BY <1>1, <1>3 DEF ServerTypeOK, Ops
    <2>2. count' \in Nat
      BY <1>0, <1>1, <1>4
    <2> QED
      BY <1>1, <1>2, <2>1, <2>2 DEF ServerTypeOK, WireTypeOK, Handlers
  <1>10. Operations'
    <2>1. \A t \in SessionIds : Posted(t)' => op'[t] # "none"
      BY <1>2, <1>5, <1>7 DEF Operations
    <2>2. \A t \in SessionIds : op'[t] = "accept" => t = c
      BY <1>2, <1>3, <1>4, <1>5 DEF Operations
    <2>3. \A t \in SessionIds : t >= c + 1 => op'[t] = "none"
      BY <1>0, <1>2, <1>4, <1>5, ServerAssumption DEF Operations
    <2>4. ~SSL => \A t \in SessionIds : op'[t] # "handshake"
      BY <1>3, <1>5 DEF Operations
    <2>5. count' = c + 1 /\ count' - 1 = c
      BY <1>0, <1>1, <1>4
    <2> QED
      BY <1>1, <1>2, <1>5, <2>1, <2>2, <2>3, <2>4, <2>5 DEF Operations
  <1>11. SocketsApart'
    BY <1>1 DEF SocketsApart
  <1>12. ASSUME NEW t \in SessionIds PROVE Socket(t)' /\ Buffer(t)'
    <2>1. CASE t = s
      BY <1>1, <1>2, <1>3, <1>5, <1>8, <2>1 DEF Socket, Buffer, HeaderKnown, Whole
    <2>2. CASE t = c
      BY <1>1, <1>5, <1>7, <2>2 DEF Socket, Buffer, HeaderKnown, Whole
    <2>3. CASE t # s /\ t # c
      BY <1>1, <1>6, <2>3, UntouchedSocket, UntouchedBuffer DEF Socket
    <2> QED
      BY <2>1, <2>2, <2>3
  <1>13. ASSUME NEW j \in ConnIds PROVE Ends(j)' /\ KindsSent(j)' /\ Accounted(j)'
    <2>1. ASSUME NEW t \in SessionIds PROVE Holds(t, j)' <=> Holds(t, j)
      <3>1. CASE t = s \/ t = c
        BY <1>2, <1>3, <1>4, <1>5, <3>1, HoldsIs
      <3>2. CASE t # s /\ t # c
        BY <1>6, <3>2, UntouchedHolds
      <3> QED
        BY <3>1, <3>2
    <2>2. Accounted(j)'
      BY <1>1, <2>1, UntouchedAccounted
    <2> QED
      BY <1>1, <2>2 DEF Ends, KindsSent
  <1> QED
    BY <1>1, <1>9, <1>10, <1>11, <1>12, <1>13 DEF StaysUp

LEMMA SessionCreationThrowsInv ==
    ASSUME ServerInv, NEW s \in SessionIds, NEW ok \in BOOLEAN, SessionCreationThrows(s, ok)
    PROVE  ServerInv'
  <1>1. faults' \in 0..MaxFaults
    BY ServerAssumption DEF SessionCreationThrows, Fault, ServerInv, ServerTypeOK, WireTypeOK
  <1> QED
    BY <1>1, TerminateInv DEF SessionCreationThrows

LEMMA HandshakeHandlerInv ==
    ASSUME ServerInv, NEW s \in SessionIds, NEW ok \in BOOLEAN, HandshakeHandler(s, ok)
    PROVE  ServerInv'
  <1>1. op[s] = "handshake" /\ Handles(s, op[s], ok) /\ owed' = owed
    BY DEF HandshakeHandler, Handles
  <1>2. CASE ok /\ Continue(s, "header") /\ UNCHANGED response
    BY <1>1, <1>2, ContinueInv
  <1>3. CASE Terminate /\ UNCHANGED faults
    <2>1. SSL
      BY <1>1, ServerAssumption DEF Handles, ServerInv, Operations
    <2> QED
      BY <1>1, <1>3, <2>1, TerminateInv DEF ServerInv, ServerTypeOK, WireTypeOK
  <1> QED
    BY <1>2, <1>3 DEF HandshakeHandler

LEMMA HeaderHandlerInv ==
    ASSUME ServerInv, NEW s \in SessionIds, NEW ok \in BOOLEAN, HeaderHandler(s, ok)
    PROVE  ServerInv'
  <1>1. op[s] = "header" /\ Handles(s, op[s], ok) /\ owed' = owed
    BY DEF HeaderHandler, Handles
  <1>2. CASE /\ ok /\ HeaderParses(cdata[s]) /\ Resizes(cdata[s]) /\ Continue(s, "body")
             /\ UNCHANGED response
    BY <1>1, <1>2, ContinueInv
  <1>3. CASE ok /\ ~Resizes(cdata[s]) /\ Terminate /\ UNCHANGED faults
    <2>1. HeaderKnown(s)
      BY <1>1, <1>3, HandlesEffect DEF HeaderKnown, Terminate, Handles, PostedOk, ServerInv, ServerTypeOK
    <2>2. cdata[s].kind \in RequestKinds /\ cdata[s].kind = "size"
      BY <1>3, <2>1 DEF ServerInv, Buffer, Resizes
    <2>3. ~(RequestKinds \subseteq {"request", "header"})
      BY <2>2
    <2> QED
      BY <1>1, <1>3, <2>3, TerminateInv DEF ServerInv, ServerTypeOK, WireTypeOK
  <1>4. CASE EndSession(s)
    BY <1>1, <1>4, EndSessionInv
  <1> QED
    BY <1>2, <1>3, <1>4 DEF HeaderHandler

LEMMA BodyHandlerInv ==
    ASSUME ServerInv, NEW s \in SessionIds, NEW ok \in BOOLEAN, BodyHandler(s, ok)
    PROVE  ServerInv'
  <1>1. op[s] = "body" /\ Handles(s, op[s], ok) /\ owed' = owed
    BY DEF BodyHandler, Handles
  <1>2. CASE /\ ok /\ Decodes(cdata[s]) /\ Executes(cdata[s]) /\ Continue(s, "write")
             /\ response' = [response EXCEPT ![s] = Result(cdata[s])]
    BY <1>1, <1>2, ContinueInv
  <1>3. CASE ok /\ ~(Decodes(cdata[s]) /\ Executes(cdata[s])) /\ Terminate /\ UNCHANGED faults
    <2>1. Whole(s)
      BY <1>1, <1>3, HandlesEffect DEF Whole, Terminate, Handles, PostedOk, ServerInv, ServerTypeOK
    <2>2. cdata[s].kind \in RequestKinds
      BY <1>3, <2>1 DEF ServerInv, Buffer, Decodes, Executes
    <2>3. ~(RequestKinds \subseteq {"request", "header"})
      BY <1>3, <2>2 DEF Decodes, Executes
    <2> QED
      BY <1>1, <1>3, <2>3, TerminateInv DEF ServerInv, ServerTypeOK, WireTypeOK
  <1>4. CASE ~ok /\ EndSession(s)
    BY <1>1, <1>4, EndSessionInv
  <1> QED
    BY <1>2, <1>3, <1>4 DEF BodyHandler

LEMMA WriteHandlerInv ==
    ASSUME ServerInv, NEW s \in SessionIds, NEW ok \in BOOLEAN, WriteHandler(s, ok)
    PROVE  ServerInv'
  <1>1. op[s] = "write" /\ Handles(s, op[s], ok) /\ owed' = owed
    BY DEF WriteHandler, Handles
  <1>2. CASE ok /\ Continue(s, "header") /\ UNCHANGED response
    BY <1>1, <1>2, ContinueInv
  <1>3. CASE EndSession(s)
    BY <1>1, <1>3, EndSessionInv
  <1> QED
    BY <1>2, <1>3 DEF WriteHandler

-----------------------------------------------------------------------------
(* The clients.                                                            *)

\* The steps of the clients do not touch a session.
LEMMA SessionsUntouched ==
    ASSUME UNCHANGED <<sessionVars, ready>>
    PROVE  /\ \A t : Untouched(t)
           /\ Operations /\ running' = running => Operations'
           /\ SocketsApart => SocketsApart'
  <1>1. ready' = ready /\ op' = op /\ conn' = conn /\ cdata' = cdata /\ response' = response
        /\ count' = count
    BY DEF sessionVars
  <1>2. /\ HandlersOnce' <=> HandlersOnce
        /\ \A t : (Posted(t)' <=> Posted(t)) /\ (PostedOk(t)' <=> PostedOk(t))
    BY <1>1, ReadyUnchanged
  <1> QED
    BY <1>1, <1>2 DEF Untouched, Operations, SocketsApart

\* What a step of the client of k must preserve: the rest is as it was.
LEMMA ClientInv ==
    ASSUME ServerInv, NEW k \in ConnIds, UNCHANGED <<sessionVars, ready, running>>,
           ServerTypeOK', Accounted(k)', KindsSent(k)',
           \A j \in ConnIds : j # k =>
                /\ cl'[j] = cl[j] /\ sv'[j] = sv[j] /\ req'[j] = req[j]
                /\ rsp'[j] = rsp[j] /\ owed'[j] = owed[j],
           sv[k] \in {"up", "broken"} => sv'[k] \in {"up", "broken"},
           sv'[k] = "up" => sv[k] = "up",
           sv'[k] = "broken" => cl'[k] # "up",
           cl'[k] # "none",
           sv'[k] = "up" /\ req[k] # <<>> => req'[k] # <<>> /\ req'[k][1] = req[k][1]
    PROVE  ServerInv'
  <1> USE DEF ServerInv
  <1>2. \A t \in SessionIds : Untouched(t)
    BY SessionsUntouched
  <1>4. Operations' /\ SocketsApart'
    BY SessionsUntouched
  <1>5. ASSUME NEW t \in SessionIds PROVE Socket(t)' /\ Buffer(t)'
    <2>1. conn[t] # Nobody => conn[t] \in ConnIds
      BY DEF ServerTypeOK
    <2>2. HeaderKnown(t) \/ Whole(t) => conn[t] # Nobody
      BY DEF HeaderKnown, Whole, Socket
    <2>3. conn[t] # Nobody =>
            /\ sv'[conn[t]] \in {"up", "broken"}
            /\ sv'[conn[t]] = "up" => sv[conn[t]] = "up"
            /\ sv'[conn[t]] = "up" /\ req[conn[t]] # <<>> =>
                req'[conn[t]] # <<>> /\ req'[conn[t]][1] = req[conn[t]][1]
      BY <2>1 DEF Socket
    <2> QED
      BY <1>2, <2>2, <2>3, UntouchedSocket, UntouchedBuffer
  <1>6. ASSUME NEW j \in ConnIds PROVE Ends(j)' /\ KindsSent(j)' /\ Accounted(j)'
    <2>1. CASE j = k
      BY <2>1 DEF Ends, sessionVars
    <2>2. CASE j # k
      <3>1. Accounted(j)'
        BY <1>2, <2>2, UntouchedHolds, UntouchedAccounted DEF Untouched
      <3> QED
        BY <2>2, <3>1 DEF Ends, KindsSent, sessionVars
    <2> QED
      BY <2>1, <2>2
  <1> QED
    BY <1>4, <1>5, <1>6 DEF StaysUp

\* The parts of the state that concern k, and their types.
LEMMA TypesAt ==
    ASSUME ServerInv, NEW k \in ConnIds
    PROVE  /\ cl[k] \in ClientEnds /\ sv[k] \in ServerEnds
           /\ req[k] \in Seq(Messages) /\ rsp[k] \in Seq(Answers) /\ owed[k] \in Seq(Messages)
           /\ running \in BOOLEAN /\ faults \in 0..MaxFaults
           /\ sv[k] = "broken" => cl[k] # "up"
  BY DEF ServerInv, ServerTypeOK, WireTypeOK, Ends

LEMMA ClientConnectsInv ==
    ASSUME ServerInv, NEW k \in ConnIds, ClientConnects(k) PROVE ServerInv'
  <1>1. /\ cl' = [cl EXCEPT ![k] = "up"] /\ sv' = [sv EXCEPT ![k] = "backlog"]
        /\ UNCHANGED <<sessionVars, ready, running>> /\ faults' = faults
        /\ req' = req /\ rsp' = rsp /\ owed' = owed
    BY DEF ClientConnects
  <1>2. cl[k] = "none" /\ sv[k] = "none" /\ req[k] = <<>> /\ rsp[k] = <<>> /\ owed[k] = <<>>
    BY DEF ClientConnects, ServerInv, Ends
  <1>3. \A t \in SessionIds : ~Holds(t, k)'
    <2>1. \A t \in SessionIds : conn[t] # k
      BY <1>2, ServerAssumption DEF ServerInv, Socket
    <2> QED
      BY <1>1, <2>1, HoldsIs DEF sessionVars
  <1>4. Accounted(k)'
    BY <1>1, <1>2, <1>3 DEF Accounted, Held, InService
  <1>5. ServerTypeOK'
    BY <1>1 DEF ServerInv, ServerTypeOK, WireTypeOK, ClientEnds, ServerEnds, sessionVars
  <1>6. /\ cl'[k] = "up" /\ sv'[k] = "backlog"
        /\ \A j \in ConnIds : j # k => cl'[j] = cl[j] /\ sv'[j] = sv[j]
    BY <1>1 DEF ServerInv, ServerTypeOK, WireTypeOK
  <1>7. KindsSent(k)'
    BY <1>1, <1>2 DEF KindsSent
  <1> QED
    BY <1>1, <1>2, <1>4, <1>5, <1>6, <1>7, ClientInv

LEMMA ClientSendsInv ==
    ASSUME ServerInv, NEW k \in ConnIds, ClientSends(k) PROVE ServerInv'
  <1>1. PICK id \in RequestIds, kind \in RequestKinds :
            LET m == [Request(k, id) EXCEPT !.kind = kind] IN
            owed' = [owed EXCEPT ![k] = Append(@, m)] /\ req' = [req EXCEPT ![k] = Append(@, m)]
    BY DEF ClientSends
  <1> DEFINE m == [Request(k, id) EXCEPT !.kind = kind]
  <1>2. m \in Messages /\ m.kind \in RequestKinds
    BY ServerAssumption DEF Request, Messages
  <1>3. /\ owed' = [owed EXCEPT ![k] = Append(owed[k], m)]
        /\ req' = [req EXCEPT ![k] = Append(req[k], m)]
    BY <1>1
  <1> HIDE DEF m
  <1>4. /\ cl[k] = "up" /\ sv[k] \in {"backlog", "up"}
        /\ UNCHANGED <<sessionVars, ready, running>>
        /\ cl' = cl /\ sv' = sv /\ rsp' = rsp /\ faults' = faults
    BY DEF ClientSends
  <1> DEFINE q == Append(req[k], m)
             u == Append(owed[k], m)
             n == Len(rsp[k])
             x == Len(req[k])
             y == Len(owed[k])
  <1>5. /\ q \in Seq(Messages) /\ u \in Seq(Messages)
        /\ q # <<>> /\ (req[k] # <<>> => q[1] = req[k][1])
        /\ Len(q) = x + 1 /\ Len(u) = y + 1
        /\ n \in Nat /\ x \in Nat /\ y \in Nat
        /\ DOMAIN u = 1..(y + 1) /\ DOMAIN q = 1..(x + 1)
        /\ \A i \in 1..y : u[i] = owed[k][i] /\ i \in DOMAIN owed[k]
        /\ \A i \in 1..x : q[i] = req[k][i] /\ i \in DOMAIN req[k]
        /\ u[y + 1] = m /\ q[x + 1] = m
    <2>1. req[k] \in Seq(Messages) /\ owed[k] \in Seq(Messages) /\ rsp[k] \in Seq(Answers)
      BY TypesAt
    <2>2. \A f \in Seq(Messages) :
            /\ Append(f, m) \in Seq(Messages) /\ Append(f, m) # <<>>
            /\ Len(Append(f, m)) = Len(f) + 1 /\ Len(f) \in Nat
            /\ DOMAIN Append(f, m) = 1..(Len(f) + 1)
            /\ Append(f, m)[Len(f) + 1] = m
            /\ \A i \in 1..Len(f) : Append(f, m)[i] = f[i] /\ i \in DOMAIN f
      BY <1>2
    <2>3. req[k] # <<>> => 1 \in 1..x
      BY <2>1
    <2>4. /\ q \in Seq(Messages) /\ q # <<>> /\ Len(q) = x + 1 /\ x \in Nat
          /\ DOMAIN q = 1..(x + 1) /\ q[x + 1] = m
          /\ \A i \in 1..x : q[i] = req[k][i] /\ i \in DOMAIN req[k]
      BY <2>1, <2>2
    <2>5. /\ u \in Seq(Messages) /\ Len(u) = y + 1 /\ y \in Nat
          /\ DOMAIN u = 1..(y + 1) /\ u[y + 1] = m
          /\ \A i \in 1..y : u[i] = owed[k][i] /\ i \in DOMAIN owed[k]
      BY <2>1, <2>2
    <2>6. n \in Nat
      BY <2>1
    <2> HIDE DEF q, u, n, x, y
    <2> QED
      BY <2>3, <2>4, <2>5, <2>6
  <1>6. /\ n <= y
        /\ \A i \in 1..n : rsp[k][i] = Result(owed[k][i]) /\ owed[k][i].kind = "request"
        /\ y = n + Held(k) + x
        /\ \A s \in SessionIds : Holds(s, k) => owed[k][n + 1] = cdata[s]
        /\ \A i \in 1..x : req[k][i] = owed[k][n + Held(k) + i]
    BY <1>4 DEF ServerInv, Accounted
  <1>7. req'[k] = q /\ owed'[k] = u /\ rsp'[k] = rsp[k]
    BY <1>3, <1>4 DEF ServerInv, ServerTypeOK, WireTypeOK
  <1> HIDE DEF q, u, n, x, y
  <1>8. Held(k) \in {0, 1} /\ (\A s \in SessionIds : Holds(s, k) => Held(k) = 1)
    BY DEF Held, InService
  <1>9. Accounted(k)'
    <2>1. /\ Held(k)' = Held(k) /\ cdata' = cdata
          /\ \A s \in SessionIds : Holds(s, k)' <=> Holds(s, k)
      BY <1>4, SessionsUntouched, UntouchedHolds DEF sessionVars, Held, InService
    <2>2. n <= y + 1 /\ y + 1 = n + Held(k) + (x + 1)
      <3>1. /\ n \in Nat /\ x \in Nat /\ y \in Nat /\ Held(k) \in Nat
            /\ n <= y /\ y = n + Held(k) + x
        BY <1>5, <1>6, <1>8
      <3>2. \A a, b, c, h \in Nat :
                a <= b /\ b = a + h + c => a <= b + 1 /\ b + 1 = a + h + (c + 1)
        OBVIOUS
      <3> QED
        BY <3>1, <3>2
    <2>3. \A i \in 1..n : rsp[k][i] = Result(u[i]) /\ u[i].kind = "request"
      <3> TAKE i \in 1..n
      <3>1. i \in 1..y
        BY <1>5, <1>6
      <3> QED
        BY <1>5, <1>6, <3>1
    <2>4. \A s \in SessionIds : Holds(s, k) => u[n + 1] = cdata[s]
      <3> SUFFICES ASSUME NEW s \in SessionIds, Holds(s, k) PROVE u[n + 1] = cdata[s]
        OBVIOUS
      <3>1. n + 1 \in 1..y
        BY <1>5, <1>6, <1>8
      <3> QED
        BY <1>5, <1>6, <3>1
    <2>5. \A i \in 1..(x + 1) : q[i] = u[n + Held(k) + i]
      <3> TAKE i \in 1..(x + 1)
      <3>1. CASE i = x + 1
        <4> DEFINE h == Held(k)
        <4>1. n \in Nat /\ x \in Nat /\ h \in {0, 1} /\ y = n + h + x
          BY <1>5, <1>6, <1>8
        <4> HIDE DEF h
        <4>2. n + h + i = y + 1
          BY <3>1, <4>1
        <4> QED
          BY <1>5, <3>1, <4>2 DEF h
      <3>2. CASE i # x + 1
        <4>1. i \in 1..x /\ n + Held(k) + i \in 1..y
          BY <1>5, <1>6, <1>8, <3>2
        <4> QED
          BY <1>5, <1>6, <4>1
      <3> QED
        BY <3>1, <3>2
    <2> QED
      BY <1>4, <1>5, <1>7, <2>1, <2>2, <2>3, <2>4, <2>5 DEF Accounted, n, Result, Response
  <1>10. KindsSent(k)'
    <2>1. \A i \in DOMAIN u : u[i].kind \in RequestKinds
      BY <1>2, <1>5 DEF ServerInv, KindsSent
    <2>2. \A i \in DOMAIN q : q[i].kind \in RequestKinds \cup {"cut"}
      BY <1>2, <1>5 DEF ServerInv, KindsSent
    <2> QED
      BY <1>7, <2>1, <2>2 DEF KindsSent
  <1>11. /\ owed' = [owed EXCEPT ![k] = u] /\ req' = [req EXCEPT ![k] = q]
         /\ \A j \in ConnIds : j # k => owed'[j] = owed[j] /\ req'[j] = req[j]
    BY <1>3 DEF u, q, ServerInv, ServerTypeOK, WireTypeOK
  <1>12. ServerTypeOK'
    BY <1>4, <1>5, <1>11 DEF ServerInv, ServerTypeOK, WireTypeOK, sessionVars
  <1> QED
    BY <1>4, <1>5, <1>7, <1>9, <1>10, <1>11, <1>12, TypesAt, ClientInv

LEMMA ClientReceivesInv ==
    ASSUME ServerInv, NEW k \in ConnIds, ClientReceives(k) PROVE ServerInv'
  <1> DEFINE r == Tail(rsp[k])
             u == Tail(owed[k])
             n == Len(rsp[k])
             x == Len(req[k])
             y == Len(owed[k])
  <1>1. /\ rsp' = [rsp EXCEPT ![k] = r] /\ owed' = [owed EXCEPT ![k] = u]
        /\ cl[k] = "up" /\ rsp[k] # <<>>
        /\ UNCHANGED <<sessionVars, ready, running>>
        /\ cl' = cl /\ sv' = sv /\ req' = req /\ faults' = faults
    BY DEF ClientReceives
  <1>2. n <= y /\ \A i \in 1..n : rsp[k][i] = Result(owed[k][i]) /\ owed[k][i].kind = "request"
    BY <1>1 DEF ServerInv, Accounted
  <1>3. sv[k] \in {"backlog", "up"} =>
            /\ y = n + Held(k) + x
            /\ \A s \in SessionIds : Holds(s, k) => owed[k][n + 1] = cdata[s]
            /\ \A i \in 1..x : req[k][i] = owed[k][n + Held(k) + i]
    BY <1>1 DEF ServerInv, Accounted
  <1>4. /\ r \in Seq(Answers) /\ u \in Seq(Messages)
        /\ Len(r) = n - 1 /\ Len(u) = y - 1 /\ n \in Nat /\ n > 0 /\ y \in Nat /\ x \in Nat
        /\ DOMAIN u = 1..(y - 1)
        /\ \A i \in 1..(n - 1) : r[i] = rsp[k][i + 1]
        /\ \A i \in 1..(y - 1) : u[i] = owed[k][i + 1] /\ i + 1 \in DOMAIN owed[k]
    <2>1. req[k] \in Seq(Messages) /\ owed[k] \in Seq(Messages) /\ rsp[k] \in Seq(Answers)
      BY TypesAt
    <2>2. n \in Nat /\ y \in Nat /\ x \in Nat /\ n > 0
      BY <1>1, <2>1
    <2>3. y > 0 /\ owed[k] # <<>>
      <3>1. y > 0
        BY <1>2, <2>2
      <3> QED
        BY <2>1, <3>1
    <2> QED
      BY <1>1, <2>1, <2>2, <2>3
  <1>5. req'[k] = req[k] /\ owed'[k] = u /\ rsp'[k] = r
        /\ \A j \in ConnIds : j # k => owed'[j] = owed[j] /\ rsp'[j] = rsp[j]
    BY <1>1 DEF ServerInv, ServerTypeOK, WireTypeOK
  <1>6. ServerTypeOK'
    BY <1>1, <1>4 DEF ServerInv, ServerTypeOK, WireTypeOK, sessionVars
  <1> HIDE DEF r, u, n, x, y
  <1>7. KindsSent(k)'
    BY <1>4, <1>5 DEF ServerInv, KindsSent
  <1>8. Accounted(k)'
    <2>1. /\ Held(k)' = Held(k) /\ cdata' = cdata
          /\ \A s \in SessionIds : Holds(s, k)' <=> Holds(s, k)
      BY <1>1, SessionsUntouched, UntouchedHolds DEF sessionVars, Held, InService
    <2>2. n - 1 <= y - 1
      BY <1>2, <1>4
    <2>3. \A i \in 1..(n - 1) : r[i] = Result(u[i]) /\ u[i].kind = "request"
      <3> TAKE i \in 1..(n - 1)
      <3>1. i + 1 \in 1..n /\ i \in 1..(y - 1)
        BY <1>2, <1>4
      <3> QED
        BY <1>2, <1>4, <3>1
    <2> DEFINE h == Held(k)
    <2>4. h \in {0, 1} /\ \A s \in SessionIds : Holds(s, k) => h = 1
      BY DEF Held, InService
    <2> HIDE DEF h
    <2>5. ASSUME sv[k] \in {"backlog", "up"}
          PROVE  /\ y - 1 = (n - 1) + h + x
                 /\ \A s \in SessionIds : Holds(s, k) => u[(n - 1) + 1] = cdata[s]
                 /\ \A i \in 1..x : req[k][i] = u[(n - 1) + h + i]
      <3>1. /\ y = n + h + x
            /\ \A s \in SessionIds : Holds(s, k) => owed[k][n + 1] = cdata[s]
            /\ \A i \in 1..x : req[k][i] = owed[k][n + h + i]
        BY <1>3, <2>5 DEF h
      <3>2. y - 1 = (n - 1) + h + x
        BY <1>4, <2>4, <3>1
      <3>3. ASSUME NEW s \in SessionIds, Holds(s, k) PROVE u[(n - 1) + 1] = cdata[s]
        <4>1. (n - 1) + 1 = n /\ n \in 1..(y - 1)
          BY <1>4, <2>4, <3>1, <3>3
        <4> QED
          BY <1>4, <3>1, <3>3, <4>1
      <3>4. ASSUME NEW i \in 1..x PROVE req[k][i] = u[(n - 1) + h + i]
        <4>1. /\ n \in Nat /\ n > 0 /\ x \in Nat /\ h \in {0, 1} /\ y = n + h + x
              /\ i \in Nat /\ 1 <= i /\ i <= x
          BY <1>4, <2>4, <3>1
        <4>2. (n - 1) + h + i \in 1..(y - 1)
          BY <4>1
        <4>3. ((n - 1) + h + i) + 1 = n + h + i
          BY <4>1
        <4> QED
          BY <1>4, <3>1, <4>2, <4>3
      <3> QED
        BY <3>2, <3>3, <3>4
    <2> QED
      BY <1>1, <1>4, <1>5, <2>1, <2>2, <2>3, <2>5 DEF Accounted, h, x, y, Result, Response
  <1> QED
    BY <1>1, <1>5, <1>6, <1>7, <1>8, TypesAt, ClientInv

LEMMA ClientClosesInv ==
    ASSUME ServerInv, NEW k \in ConnIds, ClientCloses(k) PROVE ServerInv'
  <1>1. /\ cl[k] \in {"up", "broken"} /\ cl' = [cl EXCEPT ![k] = "closed"]
        /\ rsp' = [rsp EXCEPT ![k] = <<>>] /\ owed' = [owed EXCEPT ![k] = <<>>]
        /\ UNCHANGED <<sessionVars, ready, running>> /\ sv' = sv /\ faults' = faults
        /\ req' = req \/ req' = [req EXCEPT ![k] = Append(req[k], CutShort(k))]
    BY DEF ClientCloses
  <1>2. CutShort(k) \in Messages /\ CutShort(k).kind = "cut"
    BY ServerAssumption DEF CutShort, Messages, MessageKinds
  <1>3. /\ cl'[k] = "closed" /\ rsp'[k] = <<>> /\ owed'[k] = <<>>
        /\ req'[k] = req[k] \/ req'[k] = Append(req[k], CutShort(k))
        /\ \A j \in ConnIds : j # k =>
            cl'[j] = cl[j] /\ rsp'[j] = rsp[j] /\ owed'[j] = owed[j] /\ req'[j] = req[j]
    BY <1>1 DEF ServerInv, ServerTypeOK, WireTypeOK
  <1>4. /\ req'[k] \in Seq(Messages)
        /\ req[k] # <<>> => req'[k] # <<>> /\ req'[k][1] = req[k][1]
        /\ \A i \in DOMAIN req'[k] : req'[k][i] \in {req[k][j] : j \in DOMAIN req[k]} \cup {CutShort(k)}
    <2>1. req[k] \in Seq(Messages)
      BY TypesAt
    <2>2. CASE req'[k] = req[k]
      BY <2>1, <2>2
    <2>3. CASE req'[k] = Append(req[k], CutShort(k))
      <3> DEFINE c == CutShort(k)
      <3>1. c \in Messages
        BY <1>2
      <3> HIDE DEF c
      <3>2. /\ Append(req[k], c) \in Seq(Messages)
            /\ \A i \in 1..Len(req[k]) : Append(req[k], c)[i] = req[k][i] /\ i \in DOMAIN req[k]
            /\ Append(req[k], c)[Len(req[k]) + 1] = c
            /\ DOMAIN Append(req[k], c) = 1..(Len(req[k]) + 1) /\ Len(req[k]) \in Nat
        BY <2>1, <3>1
      <3>3. req[k] # <<>> => 1 \in 1..Len(req[k])
        BY <2>1
      <3>4. Append(req[k], c) # <<>>
        BY <2>1, <3>1
      <3>5. \A i \in DOMAIN Append(req[k], c) : i \in 1..Len(req[k]) \/ i = Len(req[k]) + 1
        BY <3>2
      <3> QED
        BY <2>3, <3>2, <3>3, <3>4, <3>5 DEF c
    <2> QED
      BY <1>3, <2>2, <2>3
  <1>5. ServerTypeOK'
    <2>1. req' \in [ConnIds -> Seq(Messages)]
      BY <1>1, <1>4 DEF ServerInv, ServerTypeOK, WireTypeOK
    <2>2. cl' \in [ConnIds -> ClientEnds]
      BY <1>1 DEF ServerInv, ServerTypeOK, WireTypeOK, ClientEnds
    <2>3. rsp' \in [ConnIds -> Seq(Answers)] /\ owed' \in [ConnIds -> Seq(Messages)]
      BY <1>1 DEF ServerInv, ServerTypeOK, WireTypeOK
    <2>4. UNCHANGED <<sv, running, faults, count, op, conn, cdata, response, ready>>
      BY <1>1 DEF sessionVars
    <2> QED
      BY <2>1, <2>2, <2>3, <2>4 DEF ServerInv, ServerTypeOK, WireTypeOK
  <1>6. KindsSent(k)'
    BY <1>2, <1>3, <1>4 DEF ServerInv, KindsSent
  <1>7. Accounted(k)'
    BY <1>3 DEF Accounted
  <1> HIDE DEF CutShort
  <1> QED
    BY <1>1, <1>3, <1>4, <1>5, <1>6, <1>7, ClientInv

LEMMA ConnectionFailsInv ==
    ASSUME ServerInv, NEW k \in ConnIds, ConnectionFails(k) PROVE ServerInv'
  <1>1. /\ UNCHANGED <<sessionVars, ready, running>> /\ owed' = owed
        /\ cl[k] = "up" /\ cl' = [cl EXCEPT ![k] = "broken"]
    BY DEF ConnectionFails, ResetConnection, ClientTimesOut, PeerResets
  <1>2. cl'[k] = "broken" /\ \A j \in ConnIds : j # k => cl'[j] = cl[j]
    BY <1>1 DEF ServerInv, ServerTypeOK, WireTypeOK
  <1>3. faults' \in 0..MaxFaults
    BY ServerAssumption, TypesAt
        DEF ConnectionFails, ResetConnection, ClientTimesOut, PeerResets, Fault
  <1>4. Accounted(k)'
    BY <1>2 DEF Accounted
  <1>5. CASE ResetConnection(k)
    <2>1. /\ sv' = [sv EXCEPT ![k] = "broken"]
          /\ req' = [req EXCEPT ![k] = <<>>] /\ rsp' = [rsp EXCEPT ![k] = <<>>]
      BY <1>5 DEF ResetConnection
    <2>2. /\ sv'[k] = "broken" /\ req'[k] = <<>> /\ rsp'[k] = <<>>
          /\ \A j \in ConnIds : j # k => sv'[j] = sv[j] /\ req'[j] = req[j] /\ rsp'[j] = rsp[j]
      BY <2>1 DEF ServerInv, ServerTypeOK, WireTypeOK
    <2>3. ServerTypeOK'
      BY <1>1, <1>3, <2>1 DEF ServerInv, ServerTypeOK, WireTypeOK, ClientEnds, ServerEnds, sessionVars
    <2>4. KindsSent(k)'
      BY <1>1, <2>2 DEF ServerInv, KindsSent
    <2> QED
      BY <1>1, <1>2, <1>4, <2>2, <2>3, <2>4, ClientInv
  <1>6. CASE ClientTimesOut(k) \/ PeerResets(k)
    <2>1. sv' = sv /\ req' = req /\ rsp' = rsp
      BY <1>6 DEF ClientTimesOut, PeerResets
    <2>2. ServerTypeOK'
      BY <1>1, <1>3, <2>1 DEF ServerInv, ServerTypeOK, WireTypeOK, ClientEnds, sessionVars
    <2>3. KindsSent(k)'
      BY <1>1, <2>1 DEF ServerInv, KindsSent
    <2> QED
      BY <1>1, <1>2, <1>4, <2>1, <2>2, <2>3, ClientInv
  <1> QED
    BY <1>5, <1>6 DEF ConnectionFails

-----------------------------------------------------------------------------
LEMMA StutterInv == ServerInv /\ UNCHANGED serverVars => ServerInv'
  <1> SUFFICES ASSUME ServerInv, UNCHANGED serverVars PROVE ServerInv'
    OBVIOUS
  <1> USE DEF ServerInv
  <1>1. UNCHANGED <<cl, sv, req, rsp, running, faults, sessionVars, ready, owed>>
    BY DEF serverVars, wireVars
  <1>2. \A t \in SessionIds : Untouched(t)
    BY <1>1, SessionsUntouched
  <1>3. ServerTypeOK'
    BY <1>1 DEF ServerTypeOK, WireTypeOK, sessionVars
  <1>4. Operations' /\ SocketsApart'
    BY <1>1, SessionsUntouched
  <1>5. ASSUME NEW t \in SessionIds PROVE Socket(t)' /\ Buffer(t)'
    BY <1>1, <1>2, UntouchedSocket, UntouchedBuffer DEF Socket
  <1>6. ASSUME NEW j \in ConnIds PROVE Ends(j)' /\ KindsSent(j)' /\ Accounted(j)'
    <2>1. Accounted(j)'
      BY <1>1, <1>2, UntouchedHolds, UntouchedAccounted DEF Untouched
    <2> QED
      BY <1>1, <2>1 DEF Ends, KindsSent, sessionVars
  <1> QED
    BY <1>1, <1>3, <1>4, <1>5, <1>6 DEF StaysUp

LEMMA NextInv == ServerInv /\ [ServerNext]_serverVars => ServerInv'
  <1> SUFFICES ASSUME ServerInv, [ServerNext]_serverVars PROVE ServerInv'
    OBVIOUS
  <1>1. CASE \E s \in SessionIds : Completes(s) \/ AcceptErrs(s)
    BY <1>1, AcceptCompletesInv, AcceptErrsInv, HandshakeCompletesInv, HeaderCompletesInv,
       BodyCompletesInv, WriteCompletesInv DEF Completes
  <1>2. CASE RunHandler
    BY <1>2, AcceptHandlerInv, SessionCreationThrowsInv, HandshakeHandlerInv,
       HeaderHandlerInv, BodyHandlerInv, WriteHandlerInv DEF RunHandler
  <1>3. CASE \E k \in ConnIds : InOrder(k) /\ ClientStep(k)
    BY <1>3, ClientConnectsInv, ClientSendsInv, ClientReceivesInv, ClientClosesInv,
       ConnectionFailsInv DEF ClientStep
  <1>4. CASE UNCHANGED serverVars
    BY <1>4, StutterInv
  <1> QED
    BY <1>1, <1>2, <1>3, <1>4 DEF ServerNext

\* The invariant holds throughout every execution of the server, whatever its clients do
\* and whatever fails.
THEOREM ServerInvariance == ServerSpec => []ServerInv
  BY InitInv, NextInv, PTL DEF ServerSpec

\* The state of the server keeps its type.
THEOREM ServerTypeCorrect == ServerSpec => []ServerTypeOK
  BY ServerInvariance, PTL DEF ServerInv

LEMMA OneOperation == ServerInv => OneOperationEach
  <1> SUFFICES ASSUME ServerInv PROVE OneOperationEach
    OBVIOUS
  <1>1. \A i \in DOMAIN ready : ready[i].session \in SessionIds
    <2>1. ready \in Seq(Handlers)
      BY DEF ServerInv, ServerTypeOK, Handlers
    <2>2. \A i \in DOMAIN ready : ready[i] \in Handlers
      BY <2>1
    <2>3. \A h \in Handlers : h.session \in SessionIds
      BY DEF Handlers
    <2> QED
      BY <2>2, <2>3
  <1>2. \A i \in DOMAIN ready : op[ready[i].session] # "none"
    BY <1>1 DEF ServerInv, Operations, Posted
  <1>3. ASSUME running PROVE \E s \in SessionIds : {t \in SessionIds : op[t] = "accept"} = {s}
    <2>1. count - 1 \in SessionIds /\ {t \in SessionIds : op[t] = "accept"} = {count - 1}
      BY <1>3 DEF ServerInv, Operations
    <2> QED
      BY <2>1
  <1> QED
    BY <1>2, <1>3 DEF OneOperationEach, ServerInv, Operations, HandlersOnce

\* No two handlers share a session, and whatever its handlers meet the server accepts.
THEOREM OneOperationAtATime == ServerSpec => []OneOperationEach
  BY ServerInvariance, OneOperation, PTL

LEMMA OneSession == ServerInv => OneSessionEach
  <1> SUFFICES ASSUME ServerInv PROVE OneSessionEach
    OBVIOUS
  <1>1. \A s, t \in SessionIds, k \in ConnIds : Serves(s, k) /\ Serves(t, k) => s = t
    BY ServerAssumption DEF ServerInv, SocketsApart, Serves
  <1>2. \A k \in ConnIds : sv[k] = "up" =>
            \E s \in SessionIds : Serves(s, k) \/ (op[s] = "accept" /\ conn[s] = k)
    BY ServerAssumption DEF ServerInv, Ends, Socket, Serves
  <1>3. \A s \in SessionIds : \A k \in ConnIds : Serves(s, k) => sv[k] \in {"up", "broken"}
    BY ServerAssumption DEF ServerInv, Socket, Serves
  <1> QED
    BY <1>1, <1>2, <1>3 DEF OneSessionEach

\* No session leaks a connection, and no two have the same one.
THEOREM OneSessionPerConnection == ServerSpec => []OneSessionEach
  BY ServerInvariance, OneSession, PTL

LEMMA OnlyRequests == ServerInv => OnlyRequestsAnswered
  <1> SUFFICES ASSUME ServerInv, NEW k \in ConnIds, cl[k] = "up", NEW i \in DOMAIN rsp[k]
               PROVE  i \in DOMAIN owed[k] /\ owed[k][i].kind = "request"
    BY DEF OnlyRequestsAnswered
  <1>1. rsp[k] \in Seq(Answers) /\ owed[k] \in Seq(Messages)
    BY TypesAt
  <1>2. /\ Len(rsp[k]) <= Len(owed[k])
        /\ \A j \in 1..Len(rsp[k]) : owed[k][j].kind = "request"
    BY DEF ServerInv, Accounted
  <1> QED
    BY <1>1, <1>2

\* What is no proper request is never answered.
THEOREM NothingElseAnswered == ServerSpec => []OnlyRequestsAnswered
  BY ServerInvariance, OnlyRequests, PTL

LEMMA BeingServedIs ==
    ASSUME ServerInv, NEW k \in ConnIds, cl[k] = "up", sv[k] \in {"backlog", "up"}
    PROVE  /\ BeingServed(k) \in Seq(Messages) /\ Len(BeingServed(k)) = Held(k)
           /\ Held(k) = 1 => BeingServed(k)[1] = owed[k][Len(rsp[k]) + 1]
  <1> DEFINE held == {cdata[s] : s \in {t \in SessionIds : Holds(t, k)}}
  <1>1. CASE InService(k)
    <2>1. PICK s \in SessionIds : Holds(s, k)
      BY <1>1 DEF InService
    <2>2. sv[k] = "up" /\ Whole(s) /\ conn[s] = k
      BY <2>1, HoldsIs, ServerAssumption DEF ServerInv, Socket, Whole
    <2>3. \A t \in SessionIds : Holds(t, k) => t = s
      BY <2>1, HoldsIs, ServerAssumption DEF ServerInv, SocketsApart
    <2>4. held = {cdata[s]}
      BY <2>1, <2>3
    <2>5. BeingServed(k) = <<cdata[s]>>
      BY <2>4 DEF BeingServed
    <2>6. cdata[s] \in Messages /\ cdata[s] = owed[k][Len(rsp[k]) + 1]
      BY <2>1, <2>2 DEF ServerInv, Buffer, Accounted
    <2> QED
      BY <1>1, <2>5, <2>6 DEF Held
  <1>2. CASE ~InService(k)
    <2>1. held = {}
      BY <1>2 DEF InService
    <2>2. BeingServed(k) = <<>>
      BY <2>1 DEF BeingServed
    <2> QED
      BY <1>2, <2>2 DEF Held
  <1> QED
    BY <1>1, <1>2

LEMMA Accounting == ServerInv => RequestsAccounted
  <1> SUFFICES ASSUME ServerInv, NEW k \in ConnIds, cl[k] = "up", sv[k] \in {"backlog", "up"}
               PROVE  LET n == Len(rsp[k]) IN
                      /\ n <= Len(owed[k])
                      /\ rsp[k] = [i \in 1..n |-> Result(owed[k][i])]
                      /\ SubSeq(owed[k], n + 1, Len(owed[k])) = BeingServed(k) \o req[k]
    BY DEF RequestsAccounted
  <1> DEFINE n == Len(rsp[k])
             h == Held(k)
             x == Len(req[k])
             y == Len(owed[k])
             b == BeingServed(k)
  <1>1. req[k] \in Seq(Messages) /\ rsp[k] \in Seq(Answers) /\ owed[k] \in Seq(Messages)
    BY TypesAt
  <1>2. /\ n <= y /\ y = n + h + x
        /\ \A i \in 1..n : rsp[k][i] = Result(owed[k][i])
        /\ \A i \in 1..x : req[k][i] = owed[k][n + h + i]
    BY DEF ServerInv, Accounted
  <1>3. rsp[k] = [i \in 1..n |-> Result(owed[k][i])]
    <2>1. rsp[k] = [i \in 1..n |-> rsp[k][i]]
      BY <1>1
    <2> HIDE DEF n
    <2> QED
      BY <1>2, <2>1
  <1>4. n \in Nat /\ x \in Nat /\ y \in Nat /\ h \in {0, 1}
    BY <1>1 DEF Held
  <1>5. b \in Seq(Messages) /\ Len(b) = h /\ (h = 1 => b[1] = owed[k][n + 1])
    BY BeingServedIs
  <1> DEFINE left == SubSeq(owed[k], n + 1, y)
  <1>6. /\ left \in Seq(Messages)
        /\ Len(left) = IF n + 1 <= y THEN y - (n + 1) + 1 ELSE 0
        /\ \A i \in 1..(y - (n + 1) + 1) : left[i] = owed[k][(n + 1) + i - 1]
    <2> HIDE DEF n, y
    <2>1. n + 1 \in Int /\ y \in Int /\ \A i \in (n + 1)..y : i \in 1..y
      BY <1>4
    <2>2. \A i \in 1..y : owed[k][i] \in Messages
      BY <1>1 DEF y
    <2> QED
      BY <2>1, <2>2, SubSeqProperties
  <1>7. /\ b \o req[k] \in Seq(Messages) /\ Len(b \o req[k]) = h + x
        /\ \A i \in 1..(h + x) : (b \o req[k])[i] = IF i <= h THEN b[i] ELSE req[k][i - h]
    <2> HIDE DEF b, h
    <2>1. /\ b \o req[k] \in Seq(Messages) /\ Len(b \o req[k]) = Len(b) + x
          /\ \A i \in 1..(Len(b) + x) :
                (b \o req[k])[i] = IF i <= Len(b) THEN b[i] ELSE req[k][i - Len(b)]
      BY <1>1, <1>5, ConcatProperties
    <2> QED
      BY <1>5, <2>1
  <1> HIDE DEF n, h, x, y, b, left
  <1>8. Len(left) = h + x /\ \A i \in 1..(h + x) : left[i] = owed[k][n + i]
    <2>1. y - (n + 1) + 1 = h + x /\ (~(n + 1 <= y) => h + x = 0)
      BY <1>2, <1>4
    <2>2. \A i \in 1..(h + x) : (n + 1) + i - 1 = n + i
      BY <1>4
    <2> QED
      BY <1>4, <1>6, <2>1, <2>2
  <1>9. \A i \in 1..(h + x) : left[i] = (b \o req[k])[i]
    <2> TAKE i \in 1..(h + x)
    <2>1. CASE i <= h
      <3>1. i = 1 /\ h = 1
        BY <1>4, <2>1
      <3> QED
        BY <1>5, <1>7, <1>8, <2>1, <3>1
    <2>2. CASE ~(i <= h)
      <3>1. i - h \in 1..x /\ n + h + (i - h) = n + i
        BY <1>4, <2>2
      <3> QED
        BY <1>2, <1>7, <1>8, <2>2, <3>1
    <2> QED
      BY <2>1, <2>2
  <1>10. left = b \o req[k]
    BY <1>6, <1>7, <1>8, <1>9, SeqEqual
  <1> QED
    BY <1>2, <1>3, <1>10 DEF left, n, y, b

\* Every message of a client that is connected is on its way, in its session, or
\* answered, in the order in which it was sent.
THEOREM NoRequestLost == ServerSpec => []RequestsAccounted
  BY ServerInvariance, Accounting, PTL

\* Without SSL, clients that send nothing but requests and headers that are no number, in
\* whole or cut short, cannot stop the server, whatever they and the network do besides.
THEOREM ServerStaysUp == ServerSpec => []StaysUp
  BY ServerInvariance, PTL DEF ServerInv
=============================================================================
