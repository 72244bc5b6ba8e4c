-------------------------------- MODULE Wire --------------------------------
(***************************************************************************)
(* The TCP connections between the clients and the server, as the two      *)
(* programs observe them through boost::asio.  This is not code of the     *)
(* repository: it is what its sockets rest on, at the granularity of the   *)
(* messages that Connection_base frames (an 8-byte header and a body).     *)
(*                                                                         *)
(* A connection is used once.  Each end has its own view of it, because    *)
(* the two learn of a failure at different times, and data still in flight *)
(* when one end gives up may reach the other.                              *)
(***************************************************************************)
EXTENDS Naturals, Sequences

CONSTANTS
    SSL,        \* SSL_options.mode # OFF
    ConnIds,    \* the connections that may be opened
    MaxFaults   \* bound: the network and server failures in one behavior

VARIABLES
    cl,         \* cl[k]: the client's end of connection k
    sv,         \* sv[k]: the server's end of connection k
    req,        \* req[k]: requests written by the client, not yet read
    rsp,        \* rsp[k]: responses written by the server, not yet read
    running,    \* whether the server process is up and listening
    faults      \* how many failures there have been

wireVars == <<cl, sv, req, rsp, running, faults>>

\* "broken": an operation on this end fails; "closed": this end closed the socket.
ClientEnds == {"none", "up", "broken", "closed"}
\* "backlog": connected by the kernel, not yet accepted by the server.
ServerEnds == {"none", "backlog", "up", "broken", "closed"}

\* A request is a client_data: who sends it, which one it is, and what the server can
\* make of it (see Server).  The response to it carries what identifies it.
Request(k, id) == [from |-> k, id |-> id, kind |-> "request"]
Response(k, id) == [from |-> k, id |-> id]

WireTypeOK(Requests, Responses) ==
    /\ cl \in [ConnIds -> ClientEnds]
    /\ sv \in [ConnIds -> ServerEnds]
    /\ req \in [ConnIds -> Seq(Requests)]
    /\ rsp \in [ConnIds -> Seq(Responses)]
    /\ running \in BOOLEAN
    /\ faults \in 0..MaxFaults

WireInit ==
    /\ cl = [k \in ConnIds |-> "none"]
    /\ sv = [k \in ConnIds |-> "none"]
    /\ req = [k \in ConnIds |-> <<>>]
    /\ rsp = [k \in ConnIds |-> <<>>]
    /\ running = TRUE
    /\ faults = 0

-----------------------------------------------------------------------------
Fault == faults < MaxFaults /\ faults' = faults + 1

\* The connection is reset: both ends fail from now on, and what was in flight is lost.
ResetConnection(k) ==
    /\ Fault
    /\ cl[k] = "up"
    /\ cl' = [cl EXCEPT ![k] = "broken"]
    /\ sv' = [sv EXCEPT ![k] = "broken"]
    /\ req' = [req EXCEPT ![k] = <<>>]
    /\ rsp' = [rsp EXCEPT ![k] = <<>>]
    /\ UNCHANGED running

\* Only the client's kernel gives up (ETIMEDOUT): the server may still read the request.
ClientTimesOut(k) ==
    /\ Fault
    /\ cl[k] = "up"
    /\ cl' = [cl EXCEPT ![k] = "broken"]
    /\ UNCHANGED <<sv, req, rsp, running>>

\* The server has closed its end without having read all that was written to it, and
\* its kernel answers that with a reset.
PeerResets(k) ==
    /\ cl[k] = "up" /\ sv[k] = "closed" /\ req[k] # <<>>
    /\ cl' = [cl EXCEPT ![k] = "broken"]
    /\ UNCHANGED <<sv, req, rsp, running, faults>>

\* The server process ends, and its kernel closes every connection it holds.
StopServer ==
    /\ running' = FALSE
    /\ sv' = [k \in ConnIds |-> IF sv[k] \in {"backlog", "up"} THEN "closed" ELSE sv[k]]

ServerDies ==
    /\ Fault
    /\ running
    /\ StopServer
    /\ UNCHANGED <<cl, req, rsp>>

\* Somebody starts the server again; it knows nothing of the earlier connections.
ServerRestarts ==
    /\ ~running
    /\ running' = TRUE
    /\ UNCHANGED <<cl, sv, req, rsp, faults>>
=============================================================================
