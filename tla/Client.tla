------------------------------- MODULE Client -------------------------------
(***************************************************************************)
(* A client process: the scraper thread (module Scraper) and the thread    *)
(* that runs Client::start() and Client::listen(), which share the queue   *)
(* and the input stream, and the connection the latter uses (module Wire). *)
(* The server is only what a client can observe of it: it answers each     *)
(* request it reads, in order, may die and may be restarted.               *)
(*                                                                         *)
(* One step is at most one access to something shared: the queue (whose    *)
(* methods each lock), the stream, or the socket.                          *)
(***************************************************************************)
EXTENDS Scraper, Wire

ASSUME ClientAssumption ==
    /\ SSL \in BOOLEAN
    /\ MaxFaults \in Nat
    /\ 1..MaxFaults + 1 \subseteq ConnIds

VARIABLES
    pc,             \* where the main thread is
    cur,            \* the connection in use; 0 before the first
    connection_ok,  \* the local of listen()
    data,           \* the local copy of the head of the queue; 0 out of its scope
    answered,       \* history: the ids of the responses given to the strategy
    hand,           \* hand[k]: the request that the server has read from k and not answered
    executions,     \* history: how often the server has executed each item
    lifetime        \* what the main thread has destroyed

mainVars == <<pc, cur, connection_ok, data>>
clientVars == <<scraperVars, wireVars, mainVars, hand, answered, executions, lifetime>>

Ended == {"returned", "threw"}

\* keep_alive_: main() sets it for std::cin, and not for a file.
KeepAlive == file.stdin

ClientInit ==
    /\ ScraperInit
    /\ WireInit
    /\ pc = "open"
    /\ cur = 0
    /\ connection_ok = TRUE
    /\ data = 0
    /\ answered = <<>>
    /\ hand = [k \in ConnIds |-> <<>>]
    /\ executions = [n \in Items |-> 0]
    /\ lifetime = "alive"

-----------------------------------------------------------------------------
(* Client::start: opening the connection.                                  *)

\* Mutant of Open: a retry goes on with the stream of the previous attempt.
Open_SameStream ==
    /\ pc = "open"
    /\ running
    /\ LET k == IF cur = 0 THEN 1 ELSE cur IN
        /\ cur' = k
        /\ cl' = [cl EXCEPT ![k] = "up"]
        /\ sv' = [sv EXCEPT ![k] = IF cur = 0 THEN "backlog" ELSE @]
    /\ connection_ok' = TRUE
    /\ pc' = IF SSL THEN "handshake" ELSE "poll"
    /\ UNCHANGED <<scraperVars, req, rsp, running, faults, data, answered, hand, executions,
                   lifetime>>

\* boost::asio::connect closes the socket of the previous attempt first.
Open ==
    /\ pc = "open"
    /\ running
    /\ cur' = cur + 1
    /\ cl' = [k \in ConnIds |-> IF k = cur + 1 THEN "up"
                                ELSE IF k = cur THEN "closed" ELSE cl[k]]
    /\ sv' = [sv EXCEPT ![cur + 1] = "backlog"]
    /\ connection_ok' = TRUE
    /\ pc' = IF SSL THEN "handshake" ELSE "poll"
    /\ UNCHANGED <<scraperVars, req, rsp, running, faults, data, answered, hand, executions,
                   lifetime>>

\* The name is not resolved, or nobody listens: it throws.
OpenFails ==
    /\ pc = "open"
    /\ \/ ~running /\ UNCHANGED faults
       \/ Fault
    /\ pc' = "threw"
    /\ UNCHANGED <<scraperVars, cl, sv, req, rsp, running, cur, connection_ok, data,
                   answered, hand, executions, lifetime>>

\* SSL_IO::connect goes on with the handshake, which takes a server that has accepted.
Handshake ==
    /\ pc = "handshake"
    /\ cl[cur] = "up" /\ sv[cur] = "up"
    /\ pc' = "poll"
    /\ UNCHANGED <<scraperVars, wireVars, cur, connection_ok, data, answered, hand,
                   executions, lifetime>>

\* Mutant of HandshakeFails: what connect throws is not an exception of main(), and it
\* is caught by nobody before the loop of start(), which tries again.
HandshakeFails_Retries ==
    /\ pc = "handshake"
    /\ \/ cl[cur] # "up" \/ sv[cur] = "closed"
       \/ cur > 1
    /\ pc' = "open"
    /\ UNCHANGED <<scraperVars, wireVars, cur, connection_ok, data, answered, hand,
                   executions, lifetime>>

\* connect throws the error_code.  From the second connection on, the ssl::stream has
\* the state of a session that broke, and its handshake need not succeed.
HandshakeFails ==
    /\ pc = "handshake"
    /\ \/ cl[cur] # "up" \/ sv[cur] = "closed"
       \/ cur > 1
    /\ pc' = "threw"
    /\ UNCHANGED <<scraperVars, wireVars, cur, connection_ok, data, answered, hand,
                   executions, lifetime>>

-----------------------------------------------------------------------------
(* Client::listen: one turn of its loop.                                   *)

\* Mutant of Poll: the queue is not asked whether it is empty.
Poll_Blindly ==
    /\ pc = "poll"
    /\ pc' = "front"
    /\ UNCHANGED <<scraperVars, wireVars, cur, connection_ok, data, answered, hand,
                   executions, lifetime>>

\* if (!queue.empty())
Poll ==
    /\ pc = "poll"
    /\ \/ queue = <<>> /\ pc' = "more"
       \/ queue # <<>> /\ pc' = "front"
    /\ UNCHANGED <<scraperVars, wireVars, cur, connection_ok, data, answered, hand,
                   executions, lifetime>>

\* data = queue.front(), under a lock of its own; the request strategy notes its padding.
TakeFront ==
    /\ pc = "front"
    /\ data' = Head(queue)
    /\ pc' = "write"
    /\ UNCHANGED <<scraperVars, wireVars, cur, connection_ok, answered, hand, executions,
                   lifetime>>

\* The write half of Connector::send.  It succeeds even if the server has gone:
\* the kernel takes the data.
Write ==
    /\ pc = "write"
    /\ cl[cur] = "up"
    /\ req' = [req EXCEPT ![cur] = Append(@, Request(cur, data))]
    /\ pc' = "read"
    /\ UNCHANGED <<scraperVars, cl, sv, rsp, running, faults, cur, connection_ok, data,
                   answered, hand, executions, lifetime>>

\* Mutant of Read: a response that was not decoded is taken for one (error unchecked).
Read_Unchecked ==
    /\ pc = "read"
    /\ cl[cur] # "none"
    /\ rsp' = [rsp EXCEPT ![cur] = <<>>]
    /\ answered' = Append(answered, IF rsp[cur] = <<>> THEN 0 ELSE Head(rsp[cur]).id)
    /\ connection_ok' = TRUE
    /\ pc' = "pop"
    /\ UNCHANGED <<scraperVars, cl, sv, req, running, faults, cur, data, hand, executions,
                   lifetime>>

\* The read half: a whole response.  Its status is OK (Session sends no other), so it
\* goes to the response strategy, which asserts that it carries the padding of data.
Read ==
    /\ pc = "read"
    /\ cl[cur] = "up"
    /\ rsp[cur] # <<>>
    /\ rsp' = [rsp EXCEPT ![cur] = Tail(@)]
    /\ answered' = Append(answered, Head(rsp[cur]).id)
    /\ connection_ok' = TRUE
    /\ pc' = "pop"
    /\ UNCHANGED <<scraperVars, cl, sv, req, running, faults, cur, data, hand, executions,
                   lifetime>>

\* Mutant of PopFront: the item answered stays in the queue.
PopFront_Forgotten ==
    /\ pc = "pop"
    /\ data' = 0
    /\ pc' = "more"
    /\ UNCHANGED <<scraperVars, wireVars, cur, connection_ok, answered, hand, executions,
                   lifetime>>

\* queue.pop(), again under a lock of its own.
PopFront ==
    /\ pc = "pop"
    /\ queue' = Tail(queue)
    /\ data' = 0
    /\ pc' = "more"
    /\ UNCHANGED <<file, next, flags, spc, scraped, wireVars, cur, connection_ok, answered,
                   hand, executions, lifetime>>

\* Mutants of SendBroken: the item that could not be sent is dropped; the failure is
\* not recorded, so that the broken connection stays in use.
SendBroken_Drops ==
    /\ pc \in {"write", "read"}
    /\ cl[cur] = "broken"
    /\ queue' = Tail(queue)
    /\ connection_ok' = FALSE
    /\ data' = 0
    /\ pc' = "more"
    /\ UNCHANGED <<file, next, flags, spc, scraped, wireVars, cur, answered, hand,
                   executions, lifetime>>
SendBroken_Unrecorded ==
    /\ pc \in {"write", "read"}
    /\ cl[cur] = "broken"
    /\ data' = 0
    /\ pc' = "more"
    /\ UNCHANGED <<scraperVars, wireVars, cur, connection_ok, answered, hand, executions,
                   lifetime>>

\* connection_aborted, connection_reset or timed_out: the item stays in the queue.
SendBroken ==
    /\ pc \in {"write", "read"}
    /\ cl[cur] = "broken"
    /\ connection_ok' = FALSE
    /\ data' = 0
    /\ pc' = "more"
    /\ UNCHANGED <<scraperVars, wireVars, cur, answered, hand, executions, lifetime>>

\* Any other error code, the end of stream of a server that closed among them, and the
\* decoding of a body cut short, leave start() with an exception.
SendThrows ==
    /\ \/ pc \in {"write", "read"} /\ cl[cur] = "broken"
       \/ pc = "read" /\ cl[cur] = "up" /\ rsp[cur] = <<>> /\ sv[cur] = "closed"
    /\ pc' = "threw"
    /\ UNCHANGED <<scraperVars, wireVars, cur, connection_ok, data, answered, hand,
                   executions, lifetime>>

\* Mutant of Decide: the connection is opened anew for every item.
Decide_Reopens(input_ok) ==
    \/ input_ok /\ pc' = "open"
    \/ ~input_ok /\ pc' = "returned"

\* while (connection_ok && input_ok); return input_ok; and the loop of start().
Decide(input_ok) ==
    \/ input_ok /\ connection_ok /\ pc' = "poll"
    \/ input_ok /\ ~connection_ok /\ pc' = "open"
    \/ ~input_ok /\ pc' = "returned"

\* Mutants of AskQueue: without the operand scraper_, without the operand !queue.empty().
AskQueue_NotScraper ==
    /\ pc = "more"
    /\ Decide(KeepAlive \/ queue # <<>>)
    /\ UNCHANGED <<scraperVars, wireVars, cur, connection_ok, data, answered, hand,
                   executions, lifetime>>
AskQueue_NotQueue ==
    /\ pc = "more"
    /\ \/ KeepAlive /\ Decide(TRUE)
       \/ ~KeepAlive /\ pc' = "stream"
    /\ UNCHANGED <<scraperVars, wireVars, cur, connection_ok, data, answered, hand,
                   executions, lifetime>>

\* input_ok = keep_alive_ || !queue.empty() || scraper_, up to the second operand ...
AskQueue ==
    /\ pc = "more"
    /\ \/ (KeepAlive \/ queue # <<>>) /\ Decide(TRUE)
       \/ ~KeepAlive /\ queue = <<>> /\ pc' = "stream"
    /\ UNCHANGED <<scraperVars, wireVars, cur, connection_ok, data, answered, hand,
                   executions, lifetime>>

\* Mutant of AskScraper: it asks !is_.fail(), as the loop of the scraper does.
AskScraper_Fail ==
    /\ pc = "stream"
    /\ Decide(StreamOk)
    /\ UNCHANGED <<scraperVars, wireVars, cur, connection_ok, data, answered, hand,
                   executions, lifetime>>

\* ... and the third one, after the lock of the queue has been released.
AskScraper ==
    /\ pc = "stream"
    /\ Decide(ScraperGood)
    /\ UNCHANGED <<scraperVars, wireVars, cur, connection_ok, data, answered, hand,
                   executions, lifetime>>

-----------------------------------------------------------------------------
(* After start(): main returns or calls exit().  The scraper thread is     *)
(* detached and nobody waits for it.                                       *)

\* The last pointer to the Client goes away, and with it the scraper and the socket.
DestroyClient ==
    /\ pc \in Ended
    /\ lifetime = "alive"
    /\ lifetime' = "unwound"
    /\ cl' = [k \in ConnIds |-> IF k = cur THEN "closed" ELSE cl[k]]
    /\ UNCHANGED <<scraperVars, sv, req, rsp, running, faults, mainVars, answered, hand,
                   executions>>

\* The destructors of static objects run; the Singleton queue is one of them.
DestroyStatics ==
    /\ lifetime = "unwound"
    /\ lifetime' = "finalized"
    /\ UNCHANGED <<scraperVars, wireVars, mainVars, answered, hand, executions>>

\* Only now do the other threads stop.
EndProcess ==
    /\ lifetime = "finalized"
    /\ lifetime' = "gone"
    /\ UNCHANGED <<scraperVars, wireVars, mainVars, answered, hand, executions>>

-----------------------------------------------------------------------------
(* The rest of the world.                                                  *)

\* A session of the server starts, ...
ServerAccepts(k) ==
    /\ running
    /\ sv[k] = "backlog"
    /\ sv' = [sv EXCEPT ![k] = "up"]
    /\ UNCHANGED <<scraperVars, cl, req, rsp, running, faults, mainVars, answered, hand,
                   executions, lifetime>>

\* ... reads a request as a whole and executes it, ...
ServerReads(k) ==
    /\ running
    /\ sv[k] = "up"
    /\ req[k] # <<>> /\ hand[k] = <<>>
    /\ req' = [req EXCEPT ![k] = Tail(@)]
    /\ hand' = [hand EXCEPT ![k] = <<Head(req[k])>>]
    /\ executions' = [executions EXCEPT ![Head(req[k]).id] = @ + 1]
    /\ UNCHANGED <<scraperVars, cl, sv, rsp, running, faults, mainVars, answered, lifetime>>

\* ... and answers with its id.
ServerWrites(k) ==
    /\ running
    /\ sv[k] = "up"
    /\ cl[k] # "closed"
    /\ hand[k] # <<>>
    /\ rsp' = [rsp EXCEPT ![k] = Append(@, Response(k, Head(hand[k]).id))]
    /\ hand' = [hand EXCEPT ![k] = <<>>]
    /\ UNCHANGED <<scraperVars, cl, sv, req, running, faults, mainVars, answered,
                   executions, lifetime>>

\* It finds that the connection has failed or the client has gone, gives up the request
\* it has in hand, and ends.
ServerDrops(k) ==
    /\ running
    /\ sv[k] \in {"up", "broken"} /\ cl[k] # "up"
    /\ hand' = [hand EXCEPT ![k] = <<>>]
    /\ \/ UNCHANGED <<sv, req>>
       \/ /\ sv' = [sv EXCEPT ![k] = "closed"]
          /\ req' = [req EXCEPT ![k] = <<>>]
    /\ UNCHANGED <<scraperVars, cl, rsp, running, faults, mainVars, answered, executions,
                   lifetime>>

WireFails ==
    /\ \/ \E k \in ConnIds : ResetConnection(k) \/ ClientTimesOut(k) \/ PeerResets(k)
       \/ ServerRestarts
    /\ UNCHANGED <<scraperVars, mainVars, answered, hand, executions, lifetime>>

\* What the sessions have read is lost with the process.
ServerCrashes ==
    /\ ServerDies
    /\ hand' = [k \in ConnIds |-> <<>>]
    /\ UNCHANGED <<scraperVars, mainVars, answered, executions, lifetime>>

\* The scraper thread, which stops only with the process.
ScraperRuns(step) ==
    /\ lifetime # "gone"
    /\ step
    /\ UNCHANGED <<wireVars, mainVars, answered, hand, executions, lifetime>>

MainStep ==
    \/ Open \/ OpenFails \/ Handshake \/ HandshakeFails
    \/ Poll \/ TakeFront \/ Write \/ Read \/ PopFront
    \/ SendBroken \/ SendThrows
    \/ AskQueue \/ AskScraper
    \/ DestroyClient \/ DestroyStatics \/ EndProcess

ServerStep == \E k \in ConnIds : ServerAccepts(k) \/ ServerReads(k) \/ ServerWrites(k)

ClientNext ==
    \/ MainStep
    \/ ScraperRuns(ScraperNext)
    \/ ServerStep \/ (\E k \in ConnIds : ServerDrops(k))
    \/ WireFails \/ ServerCrashes

\* The operating system runs both threads, and a thread that calls a method of the queue
\* gets to run it, which depends on the platform's mutex (see SafeQueueFairness).  A server
\* that is up answers what it reads.
\* A file is always readable; stdin need not ever deliver another line.
ClientFairness ==
    /\ WF_clientVars(MainStep)
    /\ WF_clientVars(ServerStep)
    /\ WF_clientVars(ScraperRuns(WriteDatum \/ LeaveLoop))
    /\ WF_clientVars(~KeepAlive /\ ScraperRuns(GetDatum \/ EndOfInput))

ClientSpec == ClientInit /\ [][ClientNext]_clientVars /\ ClientFairness

-----------------------------------------------------------------------------
Requests == [from : ConnIds, id : Items, kind : {"request"}]
Responses == [from : ConnIds, id : Items]

ClientTypeOK ==
    /\ ScraperTypeOK
    /\ WireTypeOK(Requests, Responses)
    /\ hand \in [ConnIds -> Seq(Requests)]
    /\ pc \in {"open", "handshake", "poll", "front", "write", "read", "pop", "more", "stream"} \cup Ended
    /\ cur \in 0..MaxFaults + 1
    /\ connection_ok \in BOOLEAN
    /\ data \in Items \cup {0}
    /\ answered \in Seq(Items)
    /\ executions \in [Items -> Nat]
    /\ lifetime \in {"alive", "unwound", "finalized", "gone"}

\* The check of the queue and its use lock separately, and the scraper thread pushes
\* in between: front() and pop() are still never called on an empty queue.
QueueNeverEmptyWhenUsed ==
    pc \in {"front", "write", "read", "pop"} => queue # <<>>

\* Through every reconnection and retry, each item scraped is answered at most once
\* and in the order of the input, and what is not answered is still in the queue, in
\* order: nothing is skipped, doubled or forgotten.
InOrderExactlyOnce ==
    scraped = answered \o (IF pc = "pop" THEN Tail(queue) ELSE queue)

\* The response read is the one to the request at the head of the queue, never one
\* left over from an attempt given up: the assertion of ClientActions on the padding.
ResponseMatchesRequest ==
    pc = "read" /\ cl[cur] = "up" /\ rsp[cur] # <<>>
        => Head(rsp[cur]) = Response(cur, data) /\ data = Head(queue)

AnsweredItems == {answered[i] : i \in DOMAIN answered}

\* The server executes what was answered at least once and nothing that was not
\* scraped; a retry may execute an item again, but only one more time per failure.
ExecutionsAccounted ==
    \A n \in Items :
        /\ n \in AnsweredItems => executions[n] >= 1
        /\ n \notin ScrapedItems => executions[n] = 0
        /\ executions[n] <= faults + 1

\* A client gives up a connection, or ends with an exception, only when something
\* has failed: there are never more connections than failures account for.
FailuresAccounted ==
    /\ cur <= faults + 1
    /\ pc = "open" => cur <= faults
    /\ pc = "threw" => faults > 0

\* start() returns only for a file, and only once its stream has run out or failed.
ReturnsOnlyAtEnd ==
    pc = "returned" => ~KeepAlive /\ ~ScraperGood

\* When listen() finds no reason in the queue to go on, all that had been scraped by
\* then has been answered.  (What is scraped after that look: ReturnsOnlyWhenDrained.)
AllSeenIsAnswered ==
    [][pc = "more" /\ pc' = "stream" => answered = scraped]_clientVars

\* A client fed by stdin ends with an exception or answers everything it is given.
EveryItemAnswered == <>[](answered = scraped \/ pc \in Ended)

\* A client fed by a file ends, terminated last line or not, failures or not.
FileClientEnds == ~KeepAlive => <>(lifetime = "gone")

\* The main thread has a connection, in whatever state.
Connected == pc \notin {"open"} \cup Ended

\* While the connection in use is up, nothing is on it unless listen() waits for a
\* response, and then it is the head of the queue or the response to it: neither a
\* retry nor a reconnection leaves anything behind for the next item to trip over.
OneInFlight ==
    Connected /\ cl[cur] = "up" =>
        LET empty == <<>>
            request == <<Request(cur, data)>>
        IN
        \/ pc # "read" /\ req[cur] = empty /\ hand[cur] = empty /\ rsp[cur] = empty
        \/ pc = "read" /\
            \/ req[cur] = request /\ hand[cur] = empty /\ rsp[cur] = empty
            \/ req[cur] = empty /\ hand[cur] = request /\ rsp[cur] = empty /\ sv[cur] = "up"
            \/ req[cur] = empty /\ hand[cur] = empty /\ rsp[cur] = <<Response(cur, data)>>
            \/ sv[cur] = "closed" /\ hand[cur] = empty /\ rsp[cur] = empty

\* Where the main thread is says which of its locals mean something.
MainLocals ==
    /\ pc \notin {"open", "threw"} => cur >= 1
    /\ Connected => cl[cur] \in {"up", "broken"}
    /\ pc \in {"write", "read"} => data = Head(queue)
    /\ ~connection_ok => pc \in {"more", "stream", "open"} \cup Ended
    /\ pc \in {"more", "stream"} /\ ~connection_ok => cl[cur] = "broken"

\* The connections not opened yet are untouched.
FreshConnections ==
    \A k \in cur + 1..MaxFaults + 1 :
        /\ cl[k] = "none" /\ sv[k] = "none"
        /\ req[k] = <<>> /\ hand[k] = <<>> /\ rsp[k] = <<>>

\* Whatever is wrong with the connection in use or the server is one more failure.
FailuresExplained ==
    /\ cur >= 1 /\ (cl[cur] = "broken" \/ (cl[cur] = "up" /\ sv[cur] = "closed"))
        => cur <= faults
    /\ ~running => faults > 0

\* The inductive invariant: InOrderExactlyOnce needs the response to be the right one,
\* which needs a single one in flight, which needs every new connection to be fresh,
\* which needs cur to stay within the failures.
ClientInv ==
    /\ ClientTypeOK
    /\ QueueNeverEmptyWhenUsed
    /\ InOrderExactlyOnce
    /\ MainLocals
    /\ OneInFlight
    /\ FreshConnections
    /\ FailuresExplained
    /\ FailuresAccounted

Delivery == INSTANCE OrderedDelivery WITH asked <- scraped

\* The client implements ordered delivery: no step of either thread, of the network or
\* of the server answers a request out of turn or twice.
ImplementsDelivery == Delivery!Spec

-----------------------------------------------------------------------------
(* What the comments of the sources say and the code does not do.          *)

\* Client.hpp: listen() goes on so long as there is still data in the queue.  When it
\* returns for good, the queue is empty.
ReturnsOnlyWhenDrained ==
    [][pc # "returned" /\ pc' = "returned" => queue = <<>>]_clientVars

\* Singleton.hpp: the instance is indestructible.  The scraper thread never pushes
\* onto a queue whose destructor has run.
QueueIndestructible == ~(lifetime = "finalized" /\ spc = "push")
=============================================================================
