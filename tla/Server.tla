------------------------------- MODULE Server -------------------------------
(***************************************************************************)
(* The server process: AsyncServer, which accepts connections, and one     *)
(* Session per connection, which reads a request, executes it and writes   *)
(* the response, over and over.  There is one thread, in io_service.run(). *)
(* A session starts one asynchronous operation at a time on its            *)
(* Connection_base; boost::asio completes it whenever the socket allows    *)
(* and posts the handler, with its result, to a queue; run() takes the     *)
(* handlers from the queue and runs each to the end.  A session is kept    *)
(* alive by the handler that captures it, and by nothing else.             *)
(***************************************************************************)
EXTENDS Wire

CONSTANTS
    RequestKinds,   \* the kinds of message that clients send, of MessageKinds
    RequestIds,     \* client_data::id
    MaxUnanswered,  \* bound, for each connection: messages sent before an answer is read
    SessionIds,     \* the sessions that may be created
    Nobody,         \* no connection
    Nothing         \* no message: a buffer that nothing has been read into

(***************************************************************************)
(* request   : a request                                                   *)
(* header    : its header is not a hexadecimal number                      *)
(* size      : its header is one, but none that a buffer can be resized to *)
(*             ("-1" is read as the largest size_t)                        *)
(* body      : its body does not decode, say because the client was built  *)
(*             with the other setting of use_compression                   *)
(* operation : a client_data of an operation the strategy does not know    *)
(* cut       : the client closed the connection in the middle of the body  *)
(***************************************************************************)
MessageKinds == {"request", "header", "size", "body", "operation", "cut"}
Messages == [from : ConnIds, id : RequestIds, kind : MessageKinds]
Answers == [from : ConnIds, id : RequestIds]

\* One session waits for each connection and each failure, and one for the next.
ASSUME ServerAssumption ==
    /\ SSL \in BOOLEAN
    /\ RequestIds # {}
    /\ RequestKinds \subseteq MessageKinds \ {"cut"}
    /\ MaxFaults \in Nat /\ MaxUnanswered \in [ConnIds -> Nat]
    /\ Nobody \notin ConnIds /\ Nothing \notin Messages \cup Answers
    /\ ConnIds \subseteq Nat /\ SessionIds \subseteq Nat /\ 0 \in SessionIds

VARIABLES
    count,      \* Session::count: the sessions created so far
    op,         \* op[s]: the operation session s has started, until its handler runs
    conn,       \* conn[s]: the connection its socket holds
    cdata,      \* cdata[s]: the message in inbound_header_, inbound_data_ and cdata_
    response,   \* response[s]: the response in outbound_data_
    ready,      \* the handlers posted: [session, ok], ok being !ec
    owed        \* history: owed[k]: the messages of the client not answered yet

sessionVars == <<count, op, conn, cdata, response>>
serverVars == <<wireVars, sessionVars, ready, owed>>

Ops == {"none", "accept", "handshake", "header", "body", "write"}

\* The operation of s has not completed yet.
Pending(s, o) ==
    running /\ op[s] = o /\ \A i \in DOMAIN ready : ready[i].session # s

\* Mutant of Post: the handler posted last runs first.
Post_Last(s, ok) == ready' = <<[session |-> s, ok |-> ok]>> \o ready

Post(s, ok) == ready' = Append(ready, [session |-> s, ok |-> ok])

\* The constructor of AsyncServer: the first do_accept.
ServerInit ==
    /\ WireInit
    /\ count = 1
    /\ op = [s \in SessionIds |-> IF s = 0 THEN "accept" ELSE "none"]
    /\ conn = [s \in SessionIds |-> Nobody]
    /\ cdata = [s \in SessionIds |-> Nothing]
    /\ response = [s \in SessionIds |-> Nothing]
    /\ ready = <<>>
    /\ owed = [k \in ConnIds |-> <<>>]

-----------------------------------------------------------------------------
(* boost::asio: the completion of an operation, in any order.              *)

AcceptCompletes(s) ==
    /\ Pending(s, "accept")
    /\ \E k \in ConnIds :
        /\ sv[k] = "backlog"
        /\ conn' = [conn EXCEPT ![s] = k]
        /\ sv' = [sv EXCEPT ![k] = "up"]
    /\ Post(s, TRUE)
    /\ UNCHANGED <<cl, req, rsp, running, faults, count, op, cdata, response, owed>>

\* No descriptor left, for instance.
AcceptErrs(s) ==
    /\ Fault
    /\ Pending(s, "accept")
    /\ Post(s, FALSE)
    /\ UNCHANGED <<cl, sv, req, rsp, running, sessionVars, owed>>

\* A client that closes at once may or may not have done its part of the handshake.
HandshakeCompletes(s) ==
    /\ Pending(s, "handshake")
    /\ LET k == conn[s] IN
        \/ sv[k] = "up" /\ cl[k] \in {"up", "closed"} /\ Post(s, TRUE)
        \/ (sv[k] = "broken" \/ cl[k] = "closed") /\ Post(s, FALSE)
    /\ UNCHANGED <<wireVars, sessionVars, owed>>

\* The server's end of k will never have anything more to read.
EndOfStream(k) == req[k] = <<>> /\ (sv[k] = "broken" \/ cl[k] = "closed")

HeaderCompletes(s) ==
    /\ Pending(s, "header")
    /\ LET k == conn[s] IN
        \/ /\ req[k] # <<>>
           /\ cdata' = [cdata EXCEPT ![s] = Head(req[k])]
           /\ Post(s, TRUE)
        \/ EndOfStream(k) /\ Post(s, FALSE) /\ UNCHANGED cdata
    /\ UNCHANGED <<wireVars, count, op, conn, response, owed>>

BodyCompletes(s) ==
    /\ Pending(s, "body")
    /\ LET k == conn[s] IN
        \/ /\ req[k] # <<>>
           /\ req' = [req EXCEPT ![k] = Tail(@)]
           /\ Post(s, Head(req[k]).kind # "cut")
        \/ EndOfStream(k) /\ Post(s, FALSE) /\ UNCHANGED req
    /\ UNCHANGED <<cl, sv, rsp, running, faults, sessionVars, owed>>

\* The kernel takes what is written for a client that has gone, until it learns of it.
WriteCompletes(s) ==
    /\ Pending(s, "write")
    /\ LET k == conn[s] IN
        \/ /\ sv[k] = "up"
           /\ rsp' = IF cl[k] = "closed" THEN rsp
                     ELSE [rsp EXCEPT ![k] = Append(@, response[s])]
           /\ Post(s, TRUE)
        \/ (sv[k] = "broken" \/ cl[k] = "closed") /\ Post(s, FALSE) /\ UNCHANGED rsp
    /\ UNCHANGED <<cl, sv, req, running, faults, sessionVars, owed>>

Completes(s) ==
    \/ AcceptCompletes(s) \/ HandshakeCompletes(s)
    \/ HeaderCompletes(s) \/ BodyCompletes(s) \/ WriteCompletes(s)

-----------------------------------------------------------------------------
(* The handlers.                                                           *)

\* handle_determine_data_size: a hexadecimal number can be read from the header.
HeaderParses(m) == m.kind # "header"

\* inbound_data_.resize() can make room for what the header says; if not, it throws.
Resizes(m) == m.kind # "size"

\* handle_read_data: the filter and the archive accept the body; if not, they throw.
Decodes(m) == m.kind # "body"

\* The strategy knows the operation; if not, it throws a logic_error.
Executes(m) == m.kind # "operation"

\* What the strategy computes from a request: id, result and padding tell which it was.
Result(m) == Response(m.from, m.id)

\* The handler that run() takes next belongs to a session in operation o.
Handles(s, o, ok) ==
    /\ running
    /\ ready # <<>>
    /\ Head(ready) = [session |-> s, ok |-> ok]
    /\ op[s] = o

\* The handler is done, and the session has started operation o.
Continue(s, o) ==
    /\ ready' = Tail(ready)
    /\ op' = [op EXCEPT ![s] = o]
    /\ UNCHANGED <<wireVars, count, conn, cdata>>

\* Mutant of EndSession: something still refers to the connection, so it stays open.
EndSession_Leaks(s) ==
    /\ ready' = Tail(ready)
    /\ op' = [op EXCEPT ![s] = "none"]
    /\ conn' = [conn EXCEPT ![s] = Nobody]
    /\ cdata' = [cdata EXCEPT ![s] = Nothing]
    /\ response' = [response EXCEPT ![s] = Nothing]
    /\ UNCHANGED <<wireVars, count>>

\* No handler captures the session any more: it is destroyed, and its socket closed
\* with what has not been read from it.
EndSession(s) ==
    /\ ready' = Tail(ready)
    /\ op' = [op EXCEPT ![s] = "none"]
    /\ conn' = [conn EXCEPT ![s] = Nobody]
    /\ cdata' = [cdata EXCEPT ![s] = Nothing]
    /\ response' = [response EXCEPT ![s] = Nothing]
    /\ sv' = [sv EXCEPT ![conn[s]] = "closed"]
    /\ req' = [req EXCEPT ![conn[s]] = <<>>]
    /\ UNCHANGED <<cl, rsp, running, faults, count>>

\* An exception leaves the handler, run() and the try block of main(), which exits.
Terminate ==
    /\ StopServer
    /\ ready' = <<>>
    /\ op' = [s \in SessionIds |-> "none"]
    /\ conn' = [s \in SessionIds |-> Nobody]
    /\ cdata' = [s \in SessionIds |-> Nothing]
    /\ response' = [s \in SessionIds |-> Nothing]
    /\ UNCHANGED <<cl, req, rsp, count>>

\* Mutants of AcceptHandler: an error, or a connection, is the last thing accepted.
AcceptHandler_NotOnError(s, ok) ==
    /\ Handles(s, "accept", ok)
    /\ count \in SessionIds
    /\ ready' = Tail(ready)
    /\ op' = IF ok THEN [op EXCEPT ![s] = IF SSL THEN "handshake" ELSE "header",
                                    ![count] = "accept"]
             ELSE [op EXCEPT ![s] = "none"]
    /\ count' = IF ok THEN count + 1 ELSE count
    /\ UNCHANGED <<wireVars, conn, cdata, response, owed>>
AcceptHandler_Once(s, ok) ==
    /\ Handles(s, "accept", ok)
    /\ ready' = Tail(ready)
    /\ op' = [op EXCEPT ![s] = IF ~ok THEN "none" ELSE IF SSL THEN "handshake" ELSE "header"]
    /\ UNCHANGED <<wireVars, count, conn, cdata, response, owed>>

\* The accept handler starts its session, or drops it, and do_accept creates the next
\* one: async_initialize is the handshake, or calls its handler at once.
AcceptHandler(s, ok) ==
    /\ Handles(s, "accept", ok)
    /\ count \in SessionIds
    /\ ready' = Tail(ready)
    /\ op' = [op EXCEPT ![s] = IF ~ok THEN "none" ELSE IF SSL THEN "handshake" ELSE "header",
                        ![count] = "accept"]
    /\ count' = count + 1
    /\ UNCHANGED <<wireVars, conn, cdata, response, owed>>

\* Every session loads its certificates anew; if that throws, nobody catches it.
SessionCreationThrows(s, ok) ==
    /\ SSL
    /\ Fault
    /\ Handles(s, "accept", ok)
    /\ Terminate
    /\ UNCHANGED owed

\* Session::start catches an error_code around the start of the handshake.  What its
\* handler throws is a system_error, and is thrown from run().
HandshakeHandler(s, ok) ==
    /\ Handles(s, "handshake", ok)
    /\ \/ ok /\ Continue(s, "header") /\ UNCHANGED response
       \/ ~ok /\ Terminate /\ UNCHANGED faults
    /\ UNCHANGED owed

\* Mutants of HeaderHandler: it throws what it is told, as the handler of the handshake
\* does; it reads on after an error.
HeaderHandler_Throws(s, ok) ==
    /\ Handles(s, "header", ok)
    /\ \/ ok /\ Continue(s, "body") /\ UNCHANGED response
       \/ ~ok /\ Terminate /\ UNCHANGED faults
    /\ UNCHANGED owed
HeaderHandler_ReadsOn(s, ok) ==
    /\ Handles(s, "header", ok)
    /\ Continue(s, IF ok THEN "body" ELSE "header")
    /\ UNCHANGED <<response, owed>>

\* handle_read_header: on an error, or a header that is no number, the session ends; what
\* resize() throws is thrown from run().
HeaderHandler(s, ok) ==
    /\ Handles(s, "header", ok)
    /\ \/ /\ ok /\ HeaderParses(cdata[s]) /\ Resizes(cdata[s])
          /\ Continue(s, "body")
          /\ UNCHANGED response
       \/ /\ ok /\ HeaderParses(cdata[s]) /\ ~Resizes(cdata[s])
          /\ Terminate
          /\ UNCHANGED faults
       \/ ok /\ ~HeaderParses(cdata[s]) /\ EndSession(s)
       \/ ~ok /\ EndSession(s)
    /\ UNCHANGED owed

\* Mutants of BodyHandler: it replies with what response_ held before; it does not
\* look at the result of decoding.
BodyHandler_Stale(s, ok) ==
    /\ Handles(s, "body", ok)
    /\ \/ ok /\ Continue(s, "write") /\ UNCHANGED response
       \/ ~ok /\ EndSession(s)
    /\ UNCHANGED owed
BodyHandler_Unchecked(s, ok) ==
    /\ Handles(s, "body", ok)
    /\ \/ /\ ok
          /\ response' = [response EXCEPT ![s] = Result(cdata[s])]
          /\ Continue(s, "write")
       \/ ~ok /\ EndSession(s)
    /\ UNCHANGED owed

\* handle_read_data and the handler of do_receive: decoding and the strategy may
\* throw; otherwise do_reply writes the response, which carries the id of cdata_.
BodyHandler(s, ok) ==
    /\ Handles(s, "body", ok)
    /\ \/ /\ ok /\ Decodes(cdata[s]) /\ Executes(cdata[s])
          /\ response' = [response EXCEPT ![s] = Result(cdata[s])]
          /\ Continue(s, "write")
       \/ /\ ok /\ ~(Decodes(cdata[s]) /\ Executes(cdata[s]))
          /\ Terminate
          /\ UNCHANGED faults
       \/ ~ok /\ EndSession(s)
    /\ UNCHANGED owed

\* Mutant of WriteHandler: the next message is read as if its header had been.
WriteHandler_SkipsHeader(s, ok) ==
    /\ Handles(s, "write", ok)
    /\ \/ ok /\ Continue(s, "body") /\ UNCHANGED response
       \/ ~ok /\ EndSession(s)
    /\ UNCHANGED owed

\* The handler of do_reply: back to receiving.
WriteHandler(s, ok) ==
    /\ Handles(s, "write", ok)
    /\ \/ ok /\ Continue(s, "header") /\ UNCHANGED response
       \/ ~ok /\ EndSession(s)
    /\ UNCHANGED owed

RunHandler ==
    \E s \in SessionIds, ok \in BOOLEAN :
        \/ AcceptHandler(s, ok) \/ SessionCreationThrows(s, ok)
        \/ HandshakeHandler(s, ok)
        \/ HeaderHandler(s, ok) \/ BodyHandler(s, ok) \/ WriteHandler(s, ok)

-----------------------------------------------------------------------------
(* The clients, of which a server may assume nothing.                      *)

ClientConnects(k) ==
    /\ running
    /\ cl[k] = "none"
    /\ cl' = [cl EXCEPT ![k] = "up"]
    /\ sv' = [sv EXCEPT ![k] = "backlog"]
    /\ UNCHANGED <<req, rsp, running, faults, sessionVars, ready, owed>>

\* What a client sends before the handshake is over waits until it is; what it sends
\* after the server has closed the connection is lost.
ClientSends(k) ==
    /\ cl[k] = "up"
    /\ sv[k] \in {"backlog", "up"}
    /\ Len(owed[k]) < MaxUnanswered[k]
    /\ \E id \in RequestIds, kind \in RequestKinds :
        LET m == [Request(k, id) EXCEPT !.kind = kind] IN
        /\ owed' = [owed EXCEPT ![k] = Append(@, m)]
        /\ req' = [req EXCEPT ![k] = Append(@, m)]
    /\ UNCHANGED <<cl, sv, rsp, running, faults, sessionVars, ready>>

\* A message of which the server reads the header and never the end of the body.
CutShort(k) == [from |-> k, id |-> CHOOSE id \in RequestIds : TRUE, kind |-> "cut"]

ClientReceives(k) ==
    /\ cl[k] = "up"
    /\ rsp[k] # <<>>
    /\ rsp' = [rsp EXCEPT ![k] = Tail(@)]
    /\ owed' = [owed EXCEPT ![k] = Tail(@)]
    /\ UNCHANGED <<cl, sv, req, running, faults, sessionVars, ready>>

\* A client may close the connection at any time, in the middle of a message too.
ClientCloses(k) ==
    /\ cl[k] \in {"up", "broken"}
    /\ cl' = [cl EXCEPT ![k] = "closed"]
    /\ \/ UNCHANGED req
       \/ cl[k] = "up" /\ req' = [req EXCEPT ![k] = Append(@, CutShort(k))]
    /\ rsp' = [rsp EXCEPT ![k] = <<>>]
    /\ owed' = [owed EXCEPT ![k] = <<>>]
    /\ UNCHANGED <<sv, running, faults, sessionVars, ready>>

ConnectionFails(k) ==
    /\ ResetConnection(k) \/ ClientTimesOut(k) \/ PeerResets(k)
    /\ UNCHANGED <<sessionVars, ready, owed>>

ClientStep(k) ==
    \/ ClientConnects(k) \/ ClientSends(k) \/ ClientReceives(k)
    \/ ClientCloses(k) \/ ConnectionFails(k)

\* Connections are numbered in the order in which they are made.
InOrder(k) == \A j \in ConnIds : j < k => cl[j] # "none"

ServerNext ==
    \/ \E s \in SessionIds : Completes(s) \/ AcceptErrs(s)
    \/ RunHandler
    \/ \E k \in ConnIds : InOrder(k) /\ ClientStep(k)

\* asio completes each operation that can be completed, and run() keeps running handlers.
ServerFairness ==
    /\ \A s \in SessionIds : WF_serverVars(Completes(s))
    /\ WF_serverVars(RunHandler)

ServerSpec == ServerInit /\ [][ServerNext]_serverVars /\ ServerFairness

-----------------------------------------------------------------------------
ServerTypeOK ==
    /\ WireTypeOK(Messages, Answers)
    /\ count \in Nat
    /\ op \in [SessionIds -> Ops]
    /\ conn \in [SessionIds -> ConnIds \cup {Nobody}]
    /\ cdata \in [SessionIds -> Messages \cup {Nothing}]
    /\ response \in [SessionIds -> Answers \cup {Nothing}]
    /\ ready \in Seq([session : SessionIds, ok : BOOLEAN])
    /\ owed \in [ConnIds -> Seq(Messages)]

Serves(s, k) == op[s] \notin {"none", "accept"} /\ conn[s] = k

\* A session has at most one handler posted, and only for an operation it started, so
\* that no two handlers share its buffers; and while the server runs exactly one
\* session waits for a connection, whatever has become of the others.
OneOperationEach ==
    /\ \A i, j \in DOMAIN ready : ready[i].session = ready[j].session => i = j
    /\ \A i \in DOMAIN ready : op[ready[i].session] # "none"
    /\ running => \E s \in SessionIds : {t \in SessionIds : op[t] = "accept"} = {s}

\* A connection that the server holds open belongs to one live session, and a live
\* session to one such connection: no session leaks, no socket is left to nobody.
OneSessionEach ==
    /\ \A s, t \in SessionIds, k \in ConnIds : Serves(s, k) /\ Serves(t, k) => s = t
    /\ \A k \in ConnIds : sv[k] = "up" =>
        \E s \in SessionIds :
            \/ Serves(s, k)
            \/ op[s] = "accept" /\ conn[s] = k
    /\ \A s \in SessionIds : \A k \in ConnIds : Serves(s, k) => sv[k] \in {"up", "broken"}

Posted(s) == \E i \in DOMAIN ready : ready[i].session = s

\* The session of k has read a message as a whole, and not yet answered it.
Holds(s, k) ==
    /\ Serves(s, k)
    /\ \/ op[s] = "body" /\ \E i \in DOMAIN ready : ready[i] = [session |-> s, ok |-> TRUE]
       \/ op[s] = "write" /\ ~Posted(s)

BeingServed(k) ==
    LET held == {cdata[s] : s \in {t \in SessionIds : Holds(t, k)}}
    IN IF held = {} THEN <<>> ELSE <<CHOOSE m \in held : TRUE>>

\* While a connection is up, each message of the client is in exactly one place (on its
\* way, in its session, or answered) and these keep the order in which it was sent: no
\* message is lost, answered twice, out of turn, or to another client.
RequestsAccounted ==
    \A k \in ConnIds :
        cl[k] = "up" /\ sv[k] \in {"backlog", "up"} =>
            LET n == Len(rsp[k]) IN
            /\ n <= Len(owed[k])
            /\ rsp[k] = [i \in 1..n |-> Result(owed[k][i])]
            /\ SubSeq(owed[k], n + 1, Len(owed[k])) = BeingServed(k) \o req[k]

\* A message that is no proper request is never answered.
OnlyRequestsAnswered ==
    \A k \in ConnIds : cl[k] = "up" =>
        \A i \in DOMAIN rsp[k] : i \in DOMAIN owed[k] /\ owed[k][i].kind = "request"

\* Without SSL a client can end the server by a header that is too large a number, a body
\* that does not decode or an unknown operation, and by nothing else: not by a header that
\* is no number, nor by closing in the middle of a message; and neither does the failure of
\* a connection or of an accept.
StaysUp ==
    ~SSL /\ RequestKinds \subseteq {"request", "header"} => running

\* Whatever the other clients do, a connection is accepted unless it fails first ...
EveryConnectionAccepted ==
    \A k \in ConnIds : sv[k] = "backlog" ~> sv[k] # "backlog"

\* ... its messages are answered, or it is closed ...
EveryRequestAnswered ==
    \A k \in ConnIds :
        owed[k] # <<>> /\ sv[k] \in {"backlog", "up"} /\ cl[k] = "up"
            ~> rsp[k] # <<>> \/ cl[k] # "up" \/ sv[k] \in {"broken", "closed"}

\* ... and once the client has closed it, or it has been reset, no session serves it for
\* long, whatever that session was doing, and its socket is not left open.
SessionsReleased ==
    \A k \in ConnIds :
        cl[k] = "closed" \/ sv[k] = "broken"
            ~> sv[k] \notin {"backlog", "up"} /\ \A s \in SessionIds : ~Serves(s, k)

-----------------------------------------------------------------------------
\* Session.hpp says of an error in the initialization: for now we do nothing.  A
\* handshake that fails is the end of its session and not of the server.
HandshakeFailureIgnored ==
    [][running /\ (\E s \in SessionIds : Handles(s, "handshake", FALSE)) => running']_serverVars
=============================================================================
