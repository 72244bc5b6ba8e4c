------------------------------- MODULE System -------------------------------
(***************************************************************************)
(* Both programs at once: a client (module Client) and the server (module  *)
(* Server) over the same connections (module Wire), with other clients, of *)
(* which nothing is assumed, using the server at the same time.  Client    *)
(* has a server that is not more than a client can observe of it; here its *)
(* place is taken by the sessions, their buffers and their handlers.       *)
(***************************************************************************)
EXTENDS Client, Server, FiniteSets

CONSTANT OtherConns     \* the connections of the other clients

VARIABLE seen   \* history: the failures, and ends of the server, that concern the client

\* Bound: beyond the failures, the server ends when another client sends what makes it
\* throw, and when it has not done its part of the handshake on a connection that the
\* client closes: one that broke, or the last.
OwnFaults == 2 * MaxFaults + Cardinality(OtherConns) + 1

OwnConns == 1..OwnFaults + 1

\* The ids of the items of the client are ids of messages, and no connection is 0, which
\* is the client's cur before the first.
ASSUME SystemAssumption ==
    /\ IsFiniteSet(OtherConns)
    /\ OwnConns \cap OtherConns = {}
    /\ ConnIds = OwnConns \cup OtherConns
    /\ 0 \notin ConnIds
    /\ \A f \in Files : 1..Len(f.lines) \subseteq RequestIds

processVars == <<scraperVars, mainVars, answered, lifetime>>
systemVars == <<clientVars, sessionVars, ready, owed, seen>>

SystemInit == ClientInit /\ ServerInit /\ seen = 0

-----------------------------------------------------------------------------
\* A step of the client's threads, which may be an attempt to connect that fails.
ByClient(step) ==
    /\ step
    /\ seen' = seen + (faults' - faults)
    /\ UNCHANGED <<sessionVars, ready, owed>>

ItemsTaken(n) == {k \in OwnConns : hand[k] = <<>> /\ hand'[k] # <<>> /\ hand'[k][1].id = n}

\* A step of the server: "hand" is what its sessions hold, and "executions" counts it.
ByServer(step) ==
    /\ step
    /\ hand' = [k \in ConnIds |-> BeingServed(k)']
    /\ executions' = [n \in Items |-> executions[n] + Cardinality(ItemsTaken(n))]
    /\ seen' = IF running /\ ~running' THEN seen + 1 ELSE seen
    /\ UNCHANGED processVars

\* The server is killed, and loses its sessions and the handlers posted.
ServerKilled ==
    /\ Fault
    /\ running
    /\ Terminate
    /\ UNCHANGED owed

\* It starts again, with the first do_accept.
ServerStartsAgain ==
    /\ ServerRestarts
    /\ count' = 1
    /\ op' = [op EXCEPT ![0] = "accept"]
    /\ UNCHANGED <<conn, cdata, response, ready, owed>>

OwnConnectionFails(k) ==
    /\ ConnectionFails(k)
    /\ seen' = seen + (faults' - faults)
    /\ UNCHANGED <<processVars, hand, executions>>

OthersStep(k) ==
    /\ ClientStep(k)
    /\ UNCHANGED <<processVars, hand, executions, seen>>

SystemNext ==
    \/ ByClient(MainStep \/ ScraperRuns(ScraperNext))
    \/ \E s \in SessionIds : ByServer(Completes(s) \/ AcceptErrs(s))
    \/ ByServer(RunHandler)
    \/ ByServer(ServerKilled \/ ServerStartsAgain)
    \/ \E k \in OwnConns : OwnConnectionFails(k)
    \/ \E k \in OtherConns : OthersStep(k)

\* Nothing is assumed of the server but what ServerFairness assumes.
SystemFairness ==
    /\ WF_systemVars(ByClient(MainStep))
    /\ WF_systemVars(ByClient(ScraperRuns(WriteDatum \/ LeaveLoop)))
    /\ WF_systemVars(~KeepAlive /\ ByClient(ScraperRuns(GetDatum \/ EndOfInput)))
    /\ \A s \in SessionIds : WF_systemVars(ByServer(Completes(s)))
    /\ WF_systemVars(ByServer(RunHandler))

SystemSpec == SystemInit /\ [][SystemNext]_systemVars /\ SystemFairness

-----------------------------------------------------------------------------
Own(f) == [k \in OwnConns |-> f[k]]

TheClient == INSTANCE Client WITH
    ConnIds <- OwnConns, MaxFaults <- OwnFaults, faults <- seen,
    cl <- Own(cl), sv <- Own(sv), req <- Own(req), rsp <- Own(rsp), hand <- Own(hand)

\* The sessions, with all that other clients make them do, are a server as the client
\* knows it: they answer its requests in order, once for each time that it has sent
\* them, and end only by what the client sees as one more failure.  So whatever holds
\* of Client holds of the client here.
SessionsServeClient ==
    TheClient!ClientInit /\ [][TheClient!ClientNext]_(TheClient!clientVars)
=============================================================================
