--------------------------- MODULE ClientGuarantees ---------------------------
(***************************************************************************)
(* What the client promises, proved from the invariant of ClientProofs:    *)
(* when listen() stops; that every step of the client implements a step of *)
(* OrderedDelivery; and how often the server executes what a client sends: *)
(* an item answered at least once, an item that was not scraped never, and *)
(* no item more often than once for the first attempt and once for each    *)
(* failure.                                                                *)
(***************************************************************************)
EXTENDS ClientProofs, FiniteSetTheorems

-----------------------------------------------------------------------------
(* Why listen() stops.                                                     *)

\* Inductive: past the queue, or returned, the client is fed by a file; and the
\* stream never becomes good again, since nothing clears its state.
StopReason ==
    /\ pc = "stream" => ~KeepAlive
    /\ ReturnsOnlyAtEnd

\* No step clears a state bit of the stream, and a step of another thread than the
\* main one leaves the main one where it is.
LEMMA FlagsSticky == [ClientNext]_clientVars => flags \subseteq flags'
  <1> SUFFICES ASSUME [ClientNext]_clientVars PROVE flags \subseteq flags'
    OBVIOUS
  <1>1. CASE MainStep
    BY <1>1, MainStepFrame
  <1>2. CASE ScraperRuns(ScraperNext)
    BY <1>2 DEF ScraperRuns, ScraperNext, ScraperStep, GetDatum, EndOfInput, WriteDatum,
                LeaveLoop, ReadError
  <1>3. CASE RestOfWorld \/ UNCHANGED clientVars
    BY <1>3, RestOfWorldFrame DEF clientVars, scraperVars
  <1> QED
    BY <1>1, <1>2, <1>3 DEF ClientNext, RestOfWorld

\* The input stays what it is, and with it whether it is std::cin.
LEMMA KeepAliveFixed == [ClientNext]_clientVars => KeepAlive' = KeepAlive
  <1> SUFFICES ASSUME [ClientNext]_clientVars PROVE file' = file
    BY DEF KeepAlive
  <1>1. CASE MainStep
    BY <1>1, MainStepFrame
  <1>2. CASE ScraperRuns(ScraperNext)
    BY <1>2 DEF ScraperRuns, ScraperNext, ScraperStep, GetDatum, EndOfInput, WriteDatum,
                LeaveLoop, ReadError
  <1>3. CASE RestOfWorld \/ UNCHANGED clientVars
    BY <1>3, RestOfWorldFrame DEF clientVars, scraperVars
  <1> QED
    BY <1>1, <1>2, <1>3 DEF ClientNext, RestOfWorld

LEMMA StopReasonStep == StopReason /\ [ClientNext]_clientVars => StopReason'
  <1> SUFFICES ASSUME StopReason, [ClientNext]_clientVars PROVE StopReason'
    OBVIOUS
  <1>1. (ScraperGood' => ScraperGood) /\ KeepAlive' = KeepAlive
    BY FlagsSticky, KeepAliveFixed DEF ScraperGood
  <1>2. CASE AskQueue \/ AskScraper
    BY <1>1, <1>2 DEF AskQueue, AskScraper, Decide, StopReason, ReturnsOnlyAtEnd,
                      scraperVars, ScraperGood
  <1>3. CASE Open \/ OpenFails \/ Handshake \/ HandshakeFails \/ Poll \/ TakeFront
             \/ Write \/ Read \/ PopFront \/ SendBroken \/ SendThrows
    <2>1. pc' \notin {"stream", "returned"}
      BY <1>3 DEF Open, OpenFails, Handshake, HandshakeFails, Poll, TakeFront, Write, Read,
                  PopFront, SendBroken, SendThrows
    <2> QED
      BY <2>1 DEF StopReason, ReturnsOnlyAtEnd
  <1>4. CASE pc' = pc
    BY <1>1, <1>4 DEF StopReason, ReturnsOnlyAtEnd
  <1>5. CASE DestroyClient \/ DestroyStatics \/ EndProcess \/ ScraperRuns(ScraperNext)
             \/ RestOfWorld \/ UNCHANGED clientVars
    <2>1. pc' = pc
      BY <1>5, RestOfWorldFrame
         DEF DestroyClient, DestroyStatics, EndProcess, ScraperRuns, clientVars, mainVars
    <2> QED
      BY <1>4, <2>1
  <1> QED
    BY <1>2, <1>3, <1>5 DEF ClientNext, MainStep, RestOfWorld

\* start() returns only for a file whose stream is no longer good.
THEOREM ReturnsAtEnd == ClientSpec => []ReturnsOnlyAtEnd
  <1>1. ClientInit => StopReason
    BY DEF ClientInit, StopReason, ReturnsOnlyAtEnd
  <1>2. StopReason => ReturnsOnlyAtEnd
    BY DEF StopReason
  <1> QED
    BY <1>1, <1>2, StopReasonStep, PTL DEF ClientSpec

\* Of the steps from "more", only the one that finds the queue empty leads to "stream".
LEMMA FoundEmpty ==
    ASSUME [ClientNext]_clientVars, pc = "more", pc' = "stream"
    PROVE  queue = <<>>
  <1>1. AskQueue
    <2>1. CASE MainStep
      BY <2>1 DEF MainStep, Open, OpenFails, Handshake, HandshakeFails, Poll, TakeFront,
                  Write, Read, PopFront, SendBroken, SendThrows, AskScraper, DestroyClient,
                  DestroyStatics, EndProcess, mainVars
    <2>2. CASE ScraperRuns(ScraperNext) \/ RestOfWorld \/ UNCHANGED clientVars
      BY <2>2, RestOfWorldFrame DEF ScraperRuns, clientVars, mainVars
    <2> QED
      BY <2>1, <2>2 DEF ClientNext, RestOfWorld
  <1> QED
    BY <1>1 DEF AskQueue, Decide

\* All that had been scraped when listen() found the queue empty has been answered.
THEOREM SeenIsAnswered == ClientSpec => AllSeenIsAnswered
  <1>1. ClientInv /\ [ClientNext]_clientVars
            => [pc = "more" /\ pc' = "stream" => answered = scraped]_clientVars
    <2> SUFFICES ASSUME ClientInv, [ClientNext]_clientVars, pc = "more", pc' = "stream"
                 PROVE  answered = scraped
      OBVIOUS
    <2>1. queue = <<>> /\ scraped = answered \o queue /\ answered \in Seq(Items)
      BY FoundEmpty DEF ClientInv, ClientTypeOK, InOrderExactlyOnce
    <2> QED
      BY <2>1, ConcatEmptySeq
  <1> QED
    BY <1>1, ClientInvariance, PTL DEF ClientSpec, AllSeenIsAnswered

-----------------------------------------------------------------------------
(* The client implements ordered delivery.                                 *)

\* Pushing an item is asking for one more answer.
LEMMA PushIsAsk ==
    ASSUME ScraperInv, NEW x \in Items, scraped' = Append(scraped, x), answered' = answered
    PROVE  Delivery!Ask
  <1>1. scraped \in Seq(Items)
    BY DEF ScraperInv, ScraperTypeOK
  <1>2. Len(scraped') = Len(scraped) + 1
    BY <1>1, AppendProperties
  <1>3. SubSeq(scraped', 1, Len(scraped)) = scraped
    BY <1>1, AppendProperties
  <1> QED
    BY <1>2, <1>3 DEF Delivery!Ask

\* Reading a response is answering the oldest request without an answer.
LEMMA ReadIsAnswer == ASSUME ClientInv, Read PROVE Delivery!Answer
  <1>1. /\ queue # <<>> /\ scraped = answered \o queue /\ answered' = Append(answered, Head(queue))
        /\ scraped' = scraped
    BY DEF ClientInv, Read, QueueNeverEmptyWhenUsed, InOrderExactlyOnce, OneInFlight,
           MainLocals, Connected, Ended, Response, scraperVars
  <1>2. queue \in Seq(Items) /\ answered \in Seq(Items)
    BY DEF ClientInv, ClientTypeOK, ScraperTypeOK
  <1>3. Len(answered) < Len(scraped) /\ scraped[Len(answered) + 1] = Head(queue)
    BY <1>1, <1>2, ConcatProperties
  <1> QED
    BY <1>1, <1>3 DEF Delivery!Answer

LEMMA ImplementsStep ==
    ClientInv /\ ScraperInv /\ [ClientNext]_clientVars
        => [Delivery!Next]_<<scraped, answered>>
  <1> SUFFICES ASSUME ClientInv, ScraperInv, [ClientNext]_clientVars
               PROVE  [Delivery!Next]_<<scraped, answered>>
    OBVIOUS
  <1>1. CASE Read
    BY <1>1, ReadIsAnswer DEF Delivery!Next
  <1>2. CASE ScraperRuns(WriteDatum)
    <2>1. next - 1 \in Items
      BY <1>2, HeldIsItem DEF ScraperRuns
    <2>2. scraped' = Append(scraped, next - 1) /\ answered' = answered
      BY <1>2 DEF ScraperRuns, WriteDatum
    <2> QED
      BY <2>1, <2>2, PushIsAsk DEF Delivery!Next
  <1>3. CASE ScraperRuns(ScraperNext) /\ ~WriteDatum
    <2>1. UNCHANGED <<scraped, answered>>
      BY <1>3 DEF ScraperRuns, ScraperNext, ScraperStep, GetDatum, EndOfInput, LeaveLoop,
                  ReadError
    <2> QED
      BY <2>1
  <1>4. CASE MainStep /\ ~Read
    <2>1. UNCHANGED <<scraped, answered>>
      BY <1>4, MainStepFrame
         DEF MainStep, Open, OpenFails, Handshake, HandshakeFails, Poll, TakeFront, Write,
             PopFront, SendBroken, SendThrows, AskQueue, AskScraper, DestroyClient, DestroyStatics, EndProcess
    <2> QED
      BY <2>1
  <1>5. CASE RestOfWorld \/ UNCHANGED clientVars
    <2>1. UNCHANGED <<scraped, answered>>
      BY <1>5, RestOfWorldFrame DEF clientVars, scraperVars
    <2> QED
      BY <2>1
  <1> QED
    BY <1>1, <1>2, <1>3, <1>4, <1>5
       DEF ClientNext, RestOfWorld, ScraperRuns, ScraperNext, ScraperStep

\* Each request asked is answered at most once, in the order asked and with its own
\* answer: the steps of both threads, the server and the network implement Delivery.
THEOREM ClientDelivers == ClientSpec => ImplementsDelivery
  <1>1. ClientInit => Delivery!Init
    BY DEF ClientInit, ScraperInit, Delivery!Init
  <1> QED
    BY <1>1, ImplementsStep, ClientInvariance, PTL
       DEF ClientSpec, ImplementsDelivery, Delivery!Spec

-----------------------------------------------------------------------------
(* How often an item is executed.                                          *)

\* The connections on which item n waits to be read by the server.
Waiting(n) == {k \in 1..cur : req[k] # <<>> /\ req[k][1].id = n}

\* How often n has been executed, or still may be without being sent again.
Spent(n) == executions[n] + Cardinality(Waiting(n))

\* A request is alone on its way, on a connection that has been opened, and was scraped.
RequestsAlone ==
    \A k \in ConnIds : req[k] # <<>> =>
        Len(req[k]) = 1 /\ k \in 1..cur /\ req[k][1].id \in ScrapedItems

\* Each connection has at most one attempt at n, and the one in use has none yet while
\* n has been neither answered nor sent on it.
AttemptsBounded ==
    \A n \in Items :
        /\ Spent(n) <= cur
        /\ /\ Connected /\ connection_ok
           /\ n \notin AnsweredItems
           /\ ~(pc = "read" /\ n = data)
           => Spent(n) < cur

\* What the server has in hand or has answered has been executed, and was scraped.
Executed ==
    /\ \A k \in ConnIds : \A i \in DOMAIN hand[k] : executions[hand[k][i].id] >= 1
    /\ \A k \in ConnIds : \A i \in DOMAIN rsp[k] : executions[rsp[k][i].id] >= 1
    /\ \A n \in AnsweredItems : executions[n] >= 1
    /\ \A n \in Items : n \notin ScrapedItems => executions[n] = 0

\* Inductive, given ClientInv and ScraperInv.
ExecutionsInv == RequestsAlone /\ AttemptsBounded /\ Executed

-----------------------------------------------------------------------------
LEMMA CurTypes ==
    ASSUME ClientInv
    PROVE  /\ cur \in Nat /\ 1..cur \subseteq ConnIds
           /\ \A n \in Items : executions[n] \in Nat
           /\ \A k \in ConnIds : /\ req[k] \in Seq(Requests) /\ hand[k] \in Seq(Requests)
                                 /\ rsp[k] \in Seq(Responses)
  BY ClientAssumption DEF ClientInv, ClientTypeOK, WireTypeOK

LEMMA WaitingFinite ==
    ASSUME ClientInv, NEW n
    PROVE  IsFiniteSet(Waiting(n)) /\ Cardinality(Waiting(n)) \in Nat
  <1>1. IsFiniteSet(1..cur)
    BY CurTypes, FS_Interval
  <1>2. Waiting(n) \in SUBSET (1..cur)
    BY DEF Waiting
  <1>3. IsFiniteSet(Waiting(n))
    BY <1>1, <1>2, FS_Subset
  <1> QED
    BY <1>3, FS_CardinalityType

\* What is sent is not answered yet: the input has each item once.
LEMMA HeadNotAnswered ==
    ASSUME ClientInv, ScraperInv, pc = "write"
    PROVE  /\ data = Head(queue) /\ data \in Items
           /\ data \notin AnsweredItems /\ data \in ScrapedItems
  <1>1. /\ data = Head(queue) /\ queue # <<>> /\ scraped = answered \o queue
        /\ queue \in Seq(Items) /\ answered \in Seq(Items)
    BY DEF ClientInv, MainLocals, QueueNeverEmptyWhenUsed, InOrderExactlyOnce, ClientTypeOK,
           ScraperTypeOK
  <1> DEFINE n == Len(answered)
  <1>2. /\ Head(queue) = queue[1] /\ queue[1] \in Items /\ Len(queue) > 0
        /\ n \in Nat /\ Len(queue) \in Nat
    BY <1>1
  <1>3. /\ n + 1 \in DOMAIN scraped /\ scraped[n + 1] = queue[1]
        /\ \A i \in 1..n : i \in DOMAIN scraped /\ scraped[i] = answered[i]
    BY <1>1, <1>2, ConcatProperties
  <1>4. \A i \in 1..n : scraped[i] < scraped[n + 1] /\ scraped[i] \in Nat
    <2>1. \A i \in 1..n : i < n + 1 /\ answered[i] \in Items
      BY <1>1, <1>2
    <2>2. Items \subseteq Nat
      BY DEF Items
    <2> QED
      BY <1>2, <1>3, <2>1, <2>2 DEF ScraperInv, ScrapedInOrder
  <1>5. queue[1] \in Nat
    BY <1>2 DEF Items
  <1>6. \A i \in 1..n : answered[i] # queue[1]
    BY <1>3, <1>4, <1>5
  <1>7. DOMAIN answered = 1..n
    BY <1>1
  <1>8. queue[1] \notin AnsweredItems
    BY <1>6, <1>7 DEF AnsweredItems
  <1>9. queue[1] \in ScrapedItems
    <2> HIDE DEF n
    <2> QED
      BY <1>3 DEF ScrapedItems
  <1> QED
    BY <1>1, <1>2, <1>8, <1>9

-----------------------------------------------------------------------------
LEMMA ExecutionsInitInv == ClientInit => ExecutionsInv
  <1> SUFFICES ASSUME ClientInit PROVE ExecutionsInv
    OBVIOUS
  <1>1. cur = 0 /\ \A n \in Items : executions[n] = 0
    BY DEF ClientInit
  <1>2. \A k \in ConnIds : req[k] = <<>> /\ hand[k] = <<>> /\ rsp[k] = <<>>
    BY DEF ClientInit, WireInit
  <1>3. \A n \in Items : Spent(n) = 0
    <2> TAKE n \in Items
    <2>1. Waiting(n) = {}
      BY <1>1 DEF Waiting
    <2>2. Cardinality(Waiting(n)) = 0
      BY <2>1, FS_EmptySet
    <2> QED
      BY <1>1, <2>2 DEF Spent
  <1>4. pc = "open" /\ answered = <<>>
    BY DEF ClientInit
  <1> QED
    BY <1>1, <1>2, <1>3, <1>4 DEF ExecutionsInv, RequestsAlone, AttemptsBounded, Executed, Connected,
       AnsweredItems

\* The steps that send, execute and answer nothing, but may lose what is on its way.
LEMMA LossInv ==
    ASSUME ClientInv, ClientInv', ExecutionsInv, UNCHANGED <<executions, file, answered>>,
           cur' \in {cur, cur + 1}, ScrapedItems \subseteq ScrapedItems',
           \A k \in ConnIds : /\ req'[k] \in {req[k], <<>>} /\ hand'[k] \in {hand[k], <<>>}
                              /\ rsp'[k] \in {rsp[k], <<>>},
           Connected' /\ connection_ok' =>
                \/ cur' = cur + 1
                \/ Connected /\ connection_ok /\ (pc = "read" => pc' = "read" /\ data' = data)
    PROVE  ExecutionsInv'
  <1>1. Items' = Items /\ AnsweredItems' = AnsweredItems /\ cur \in Nat
    BY CurTypes DEF Items, AnsweredItems
  <1>2. \A n \in Items : Waiting(n)' \subseteq Waiting(n)
    <2>1. \A k \in 1..cur' : k \in ConnIds
      BY CurTypes, ClientAssumption DEF ClientInv, ClientTypeOK
    <2> QED
      BY <1>1, <2>1 DEF Waiting, ExecutionsInv, RequestsAlone
  <1>3. \A n \in Items : Spent(n)' <= Spent(n) /\ Spent(n)' \in Nat /\ Spent(n) \in Nat
    <2> TAKE n \in Items
    <2>1. IsFiniteSet(Waiting(n)) /\ Waiting(n)' \in SUBSET Waiting(n)
      BY <1>2, WaitingFinite
    <2>2. Cardinality(Waiting(n)') <= Cardinality(Waiting(n)) /\ IsFiniteSet(Waiting(n)')
      BY <2>1, FS_Subset
    <2>3. Cardinality(Waiting(n)') \in Nat /\ Cardinality(Waiting(n)) \in Nat
      BY <2>1, <2>2, FS_CardinalityType
    <2>4. Spent(n)' = executions[n] + Cardinality(Waiting(n)') /\ executions[n] \in Nat
      BY CurTypes DEF Spent
    <2> QED
      BY <2>2, <2>3, <2>4 DEF Spent
  <1>4. RequestsAlone'
    BY <1>1 DEF ExecutionsInv, RequestsAlone
  <1>5. AttemptsBounded'
    BY <1>1, <1>3 DEF ExecutionsInv, AttemptsBounded
  <1>6. Executed'
    BY <1>1 DEF ExecutionsInv, Executed
  <1> QED
    BY <1>4, <1>5, <1>6 DEF ExecutionsInv

\* The steps that leave what waits, what was executed and where the attempts stand.
LEMMA AttemptsKept ==
    ASSUME ClientInv, ExecutionsInv, file' = file, cur' = cur,
           \A n \in Items : Spent(n)' = Spent(n),
           AnsweredItems \subseteq AnsweredItems',
           Connected' /\ connection_ok' => Connected /\ connection_ok,
           \A n \in Items : /\ pc = "read" /\ n = data
                            => (pc = "read" /\ n = data)' \/ n \in AnsweredItems'
    PROVE  AttemptsBounded'
  BY DEF ExecutionsInv, AttemptsBounded, Items

\* The item sent had an attempt left: it was not on its way on this connection.
LEMMA WriteExec ==
    ASSUME ClientInv, ClientInv', ScraperInv, ExecutionsInv, Write
    PROVE  ExecutionsInv'
  <1>1. /\ pc = "write" /\ pc' = "read" /\ cl[cur] = "up"
        /\ req' = [req EXCEPT ![cur] = Append(@, Request(cur, data))]
        /\ UNCHANGED <<scraperVars, cl, sv, rsp, running, faults, cur, connection_ok, data,
                       answered, hand, executions, lifetime>>
    BY DEF Write
  <1>2. /\ cur >= 1 /\ cur \in Nat /\ cur \in ConnIds
        /\ req[cur] = <<>> /\ connection_ok /\ Connected
    BY <1>1, ConnectionsExist, CurTypes
       DEF ClientInv, MainLocals, OneInFlight, Connected, Ended
  <1>3. data \in Items /\ data \notin AnsweredItems /\ data \in ScrapedItems
    BY <1>1, HeadNotAnswered
  <1>4. /\ req'[cur] = <<Request(cur, data)>>
        /\ \A k \in ConnIds : k # cur => req'[k] = req[k]
    BY <1>1, <1>2, CurTypes DEF ClientInv, ClientTypeOK, WireTypeOK
  <1>5. /\ Items' = Items /\ AnsweredItems' = AnsweredItems /\ ScrapedItems' = ScrapedItems
        /\ Request(cur, data).id = data
    BY <1>1 DEF Items, AnsweredItems, ScrapedItems, scraperVars, Request
  <1>6. 1..cur \subseteq ConnIds /\ cur \in 1..cur
    BY <1>2, CurTypes
  <1>7. \A n \in Items : n # data => Waiting(n)' = Waiting(n)
    BY <1>1, <1>2, <1>4, <1>5, <1>6 DEF Waiting
  <1>8. Waiting(data)' = Waiting(data) \cup {cur}
    BY <1>1, <1>2, <1>4, <1>5, <1>6 DEF Waiting
  <1>9. Cardinality(Waiting(data)') = Cardinality(Waiting(data)) + 1
    <2>1. cur \notin Waiting(data) /\ IsFiniteSet(Waiting(data))
      BY <1>2, WaitingFinite DEF Waiting
    <2> QED
      BY <1>8, <2>1, FS_AddElement
  <1>10. \A n \in Items : n # data => Spent(n)' = Spent(n)
    BY <1>1, <1>7 DEF Spent
  <1>11. Spent(data)' = Spent(data) + 1 /\ Spent(data) \in Nat /\ Spent(data) < cur
    <2>1. Spent(data)' = executions[data] + Cardinality(Waiting(data)')
      BY <1>1 DEF Spent
    <2>2. executions[data] \in Nat /\ Cardinality(Waiting(data)) \in Nat
      BY <1>3, CurTypes, WaitingFinite
    <2>3. Spent(data) < cur
      BY <1>1, <1>2, <1>3 DEF ExecutionsInv, AttemptsBounded
    <2> QED
      BY <1>9, <2>1, <2>2, <2>3 DEF Spent
  <1>12. AttemptsBounded'
    <2>1. \A n \in Items : n # data => Spent(n) <= cur /\ (n \notin AnsweredItems => Spent(n) < cur)
      BY <1>1, <1>2 DEF ExecutionsInv, AttemptsBounded
    <2>2. Spent(data)' <= cur
      BY <1>2, <1>11
    <2> QED
      BY <1>1, <1>5, <1>10, <2>1, <2>2 DEF AttemptsBounded
  <1>13. RequestsAlone'
    <2> SUFFICES ASSUME NEW k \in ConnIds, req'[k] # <<>>
                 PROVE  Len(req'[k]) = 1 /\ k \in 1..cur /\ req'[k][1].id \in ScrapedItems
      BY <1>1, <1>5 DEF RequestsAlone
    <2>1. CASE k = cur
      <3>1. Len(<<Request(cur, data)>>) = 1 /\ <<Request(cur, data)>>[1] = Request(cur, data)
        OBVIOUS
      <3> QED
        BY <1>3, <1>4, <1>5, <1>6, <2>1, <3>1
    <2>2. CASE k # cur
      BY <1>4, <2>2 DEF ExecutionsInv, RequestsAlone
    <2> QED
      BY <2>1, <2>2
  <1>14. Executed'
    BY <1>1, <1>5 DEF ExecutionsInv, Executed
  <1> QED
    BY <1>12, <1>13, <1>14 DEF ExecutionsInv

\* The item answered was executed; from now on it needs no further attempt.
LEMMA ReadExec ==
    ASSUME ClientInv, ClientInv', ScraperInv, ExecutionsInv, Read
    PROVE  ExecutionsInv'
  <1>1. /\ pc = "read" /\ pc' = "pop" /\ cl[cur] = "up" /\ rsp[cur] # <<>>
        /\ rsp' = [rsp EXCEPT ![cur] = Tail(@)]
        /\ answered' = Append(answered, Head(rsp[cur]).id)
        /\ UNCHANGED <<scraperVars, cl, sv, req, running, faults, cur, data, hand,
                       executions, lifetime>>
    BY DEF Read
  <1>2. /\ cur >= 1 /\ cur \in ConnIds /\ connection_ok /\ Connected
        /\ rsp[cur] = <<Response(cur, data)>>
    BY <1>1, ConnectionsExist, CurTypes
       DEF ClientInv, MainLocals, OneInFlight, Connected, Ended
  <1>3. Head(rsp[cur]) = Response(cur, data) /\ 1 \in DOMAIN rsp[cur]
        /\ rsp[cur][1].id = data
    BY <1>2 DEF Response
  <1>4. executions[data] >= 1
    BY <1>2, <1>3 DEF ExecutionsInv, Executed
  <1>5. rsp'[cur] = <<>> /\ \A k \in ConnIds : k # cur => rsp'[k] = rsp[k]
    BY <1>1, <1>2 DEF ClientInv, ClientTypeOK, WireTypeOK
  <1>6. answered' = Append(answered, data) /\ answered \in Seq(Items)
    BY <1>1, <1>3 DEF Response, ClientInv, ClientTypeOK
  <1>7. AnsweredItems' = AnsweredItems \cup {data}
    <2>1. /\ DOMAIN answered = 1..Len(answered) /\ Len(answered) \in Nat
          /\ DOMAIN answered' = 1..Len(answered) + 1
          /\ \A i \in 1..Len(answered) : answered'[i] = answered[i]
          /\ answered'[Len(answered) + 1] = data
      BY <1>6
    <2>2. DOMAIN answered' = DOMAIN answered \cup {Len(answered) + 1}
      BY <2>1
    <2> QED
      BY <2>1, <2>2 DEF AnsweredItems
  <1>8. Items' = Items /\ ScrapedItems' = ScrapedItems
    BY <1>1 DEF Items, ScrapedItems, scraperVars
  <1>9. RequestsAlone'
    BY <1>1, <1>8 DEF ExecutionsInv, RequestsAlone
  <1>10. \A n \in Items : Spent(n)' = Spent(n)
    BY <1>1 DEF Spent, Waiting
  <1>11. AttemptsBounded'
    BY <1>1, <1>2, <1>7, <1>10, AttemptsKept DEF scraperVars
  <1>12. Executed'
    <2>1. \A n \in AnsweredItems' : executions'[n] >= 1
      BY <1>1, <1>4, <1>7 DEF ExecutionsInv, Executed
    <2>2. \A k \in ConnIds : \A i \in DOMAIN rsp'[k] : executions'[rsp'[k][i].id] >= 1
      BY <1>1, <1>5 DEF ExecutionsInv, Executed
    <2>3. \A k \in ConnIds : \A i \in DOMAIN hand'[k] : executions'[hand'[k][i].id] >= 1
      BY <1>1 DEF ExecutionsInv, Executed
    <2>4. \A n \in Items' : n \notin ScrapedItems' => executions'[n] = 0
      BY <1>1, <1>8 DEF ExecutionsInv, Executed
    <2> QED
      BY <2>1, <2>2, <2>3, <2>4 DEF Executed
  <1> QED
    BY <1>9, <1>11, <1>12 DEF ExecutionsInv

\* What was waiting has been executed: the attempt is spent either way.
LEMMA ServerReadsExec ==
    ASSUME ClientInv, ClientInv', ExecutionsInv, NEW k \in ConnIds, ServerReads(k)
    PROVE  ExecutionsInv'
  <1>0. PICK m : m = req[k][1].id
    OBVIOUS
  <1>1. /\ req[k] # <<>>
        /\ req' = [req EXCEPT ![k] = Tail(@)]
        /\ hand' = [hand EXCEPT ![k] = <<Head(req[k])>>]
        /\ executions' = [executions EXCEPT ![Head(req[k]).id] = @ + 1]
        /\ UNCHANGED <<scraperVars, cl, sv, rsp, running, faults, mainVars, answered, lifetime>>
    BY DEF ServerReads
  <1>2. /\ Len(req[k]) = 1 /\ k \in 1..cur /\ m \in ScrapedItems
        /\ req[k] \in Seq(Requests)
    BY <1>0, <1>1, CurTypes DEF ExecutionsInv, RequestsAlone
  <1>3. Head(req[k]) = req[k][1] /\ Tail(req[k]) = <<>> /\ req[k][1] \in Requests
    <2>1. /\ Head(req[k]) = req[k][1] /\ Head(req[k]) \in Requests
          /\ Tail(req[k]) \in Seq(Requests) /\ Len(Tail(req[k])) = Len(req[k]) - 1
      BY <1>1, <1>2, HeadTailProperties
    <2>2. Len(Tail(req[k])) = 0
      BY <1>2, <2>1
    <2>3. Tail(req[k]) = <<>>
      BY <2>1, <2>2, EmptySeq
    <2> QED
      BY <2>1, <2>3
  <1>4. m \in Items
    BY <1>0, <1>3 DEF Requests
  <1>5. /\ req'[k] = <<>> /\ \A j \in ConnIds : j # k => req'[j] = req[j]
        /\ hand'[k] = <<req[k][1]>> /\ \A j \in ConnIds : j # k => hand'[j] = hand[j]
        /\ executions'[m] = executions[m] + 1
        /\ \A n \in Items : n # m => executions'[n] = executions[n]
        /\ \A n \in Items : executions[n] \in Nat
    BY <1>0, <1>1, <1>3, <1>4 DEF ClientInv, ClientTypeOK, WireTypeOK
  <1>6. /\ Items' = Items /\ AnsweredItems' = AnsweredItems /\ ScrapedItems' = ScrapedItems
        /\ cur' = cur /\ pc' = pc /\ data' = data /\ connection_ok' = connection_ok
        /\ Connected' = Connected /\ rsp' = rsp
    BY <1>1 DEF Items, AnsweredItems, ScrapedItems, scraperVars, mainVars, Connected
  <1>7. 1..cur \subseteq ConnIds
    BY CurTypes
  <1>8. \A n \in Items : n # m => Waiting(n)' = Waiting(n)
    BY <1>0, <1>5, <1>6, <1>7 DEF Waiting
  <1>9. Waiting(m)' = Waiting(m) \ {k} /\ k \in Waiting(m)
    <2>1. \A j \in 1..cur : j \in Waiting(m)' <=> j # k /\ j \in Waiting(m)
      BY <1>5, <1>6, <1>7 DEF Waiting
    <2>2. Waiting(m)' \subseteq 1..cur /\ Waiting(m) \subseteq 1..cur
      BY <1>6 DEF Waiting
    <2>3. k \in Waiting(m)
      BY <1>0, <1>1, <1>2 DEF Waiting
    <2> QED
      BY <2>1, <2>2, <2>3
  <1>10. \A n \in Items : Spent(n)' = Spent(n)
    <2>1. ASSUME NEW n \in Items, n # m PROVE Spent(n)' = Spent(n)
      BY <1>5, <1>8, <2>1 DEF Spent
    <2>2. Spent(m)' = Spent(m)
      <3>1. IsFiniteSet(Waiting(m)) /\ Cardinality(Waiting(m)) \in Nat
        BY WaitingFinite
      <3>2. Cardinality(Waiting(m)') = Cardinality(Waiting(m)) - 1
        BY <1>9, <3>1, FS_RemoveElement
      <3>3. Spent(m)' = executions'[m] + Cardinality(Waiting(m)')
        BY DEF Spent
      <3>4. executions'[m] = executions[m] + 1 /\ executions[m] \in Nat
        BY <1>4, <1>5
      <3> QED
        BY <3>1, <3>2, <3>3, <3>4 DEF Spent
    <2> QED
      BY <2>1, <2>2
  <1>11. RequestsAlone'
    BY <1>5, <1>6 DEF ExecutionsInv, RequestsAlone
  <1>12. AttemptsBounded'
    BY <1>1, <1>6, <1>10, AttemptsKept DEF scraperVars
  <1>13. Executed'
    <2>1. \A n \in Items : executions[n] >= 1 => executions'[n] >= 1
      BY <1>4, <1>5
    <2>2. executions'[m] >= 1
      BY <1>4, <1>5
    <2>3. ASSUME NEW j \in ConnIds, NEW i \in DOMAIN hand'[j]
          PROVE  executions'[hand'[j][i].id] >= 1
      <3>1. CASE j = k
        <4>1. hand'[j][i] = req[k][1]
          BY <1>5, <2>3, <3>1
        <4> QED
          BY <1>0, <2>2, <4>1
      <3>2. CASE j # k
        <4>1. hand'[j] = hand[j] /\ hand[j] \in Seq(Requests)
          BY <1>5, <3>2, CurTypes
        <4>2. hand[j][i] \in Requests
          BY <2>3, <4>1
        <4>3. hand[j][i].id \in Items
          BY <4>2 DEF Requests
        <4> QED
          BY <2>1, <2>3, <4>1, <4>3 DEF ExecutionsInv, Executed
      <3> QED
        BY <3>1, <3>2
    <2>4. ASSUME NEW j \in ConnIds, NEW i \in DOMAIN rsp'[j]
          PROVE  executions'[rsp'[j][i].id] >= 1
      <3>1. rsp[j] \in Seq(Responses) /\ i \in DOMAIN rsp[j]
        BY <1>6, <2>4, CurTypes
      <3>2. rsp[j][i] \in Responses
        BY <3>1
      <3>3. rsp[j][i].id \in Items
        BY <3>2 DEF Responses
      <3> QED
        BY <1>6, <2>1, <3>1, <3>3 DEF ExecutionsInv, Executed
    <2>5. \A n \in AnsweredItems' : executions'[n] >= 1
      <3>1. AnsweredItems \subseteq Items
        BY DEF AnsweredItems, ClientInv, ClientTypeOK
      <3> QED
        BY <1>6, <2>1, <3>1 DEF ExecutionsInv, Executed
    <2>6. \A n \in Items' : n \notin ScrapedItems' => executions'[n] = 0
      BY <1>0, <1>2, <1>5, <1>6 DEF ExecutionsInv, Executed
    <2> QED
      BY <2>3, <2>4, <2>5, <2>6 DEF Executed
  <1> QED
    BY <1>11, <1>12, <1>13 DEF ExecutionsInv

\* What the server answers with, it had in hand, and so had executed.
LEMMA ServerWritesExec ==
    ASSUME ClientInv, ClientInv', ExecutionsInv, NEW k \in ConnIds, ServerWrites(k)
    PROVE  ExecutionsInv'
  <1>1. /\ hand[k] # <<>>
        /\ rsp' = [rsp EXCEPT ![k] = Append(@, Response(k, Head(hand[k]).id))]
        /\ hand' = [hand EXCEPT ![k] = <<>>]
        /\ UNCHANGED <<scraperVars, cl, sv, req, running, faults, mainVars, answered,
                       executions, lifetime>>
    BY DEF ServerWrites
  <1>2. /\ Items' = Items /\ AnsweredItems' = AnsweredItems /\ ScrapedItems' = ScrapedItems
        /\ cur' = cur /\ pc' = pc /\ data' = data /\ connection_ok' = connection_ok
        /\ Connected' = Connected /\ req' = req /\ executions' = executions
    BY <1>1 DEF Items, AnsweredItems, ScrapedItems, scraperVars, mainVars, Connected
  <1>3. \A n \in Items : Spent(n)' = Spent(n)
    BY <1>2 DEF Spent, Waiting
  <1>4. RequestsAlone'
    BY <1>2 DEF ExecutionsInv, RequestsAlone
  <1>5. AttemptsBounded'
    BY <1>1, <1>2, <1>3, AttemptsKept DEF scraperVars
  <1>6. executions[Head(hand[k]).id] >= 1
    <2>1. hand[k] \in Seq(Requests) /\ 1 \in DOMAIN hand[k] /\ Head(hand[k]) = hand[k][1]
      BY <1>1, CurTypes
    <2> QED
      BY <2>1 DEF ExecutionsInv, Executed
  <1>7. ASSUME NEW j \in ConnIds, NEW i \in DOMAIN rsp'[j]
        PROVE  executions[rsp'[j][i].id] >= 1
    <2>1. rsp[j] \in Seq(Responses) /\ rsp \in [ConnIds -> Seq(Responses)]
      BY DEF ClientInv, ClientTypeOK, WireTypeOK
    <2>2. CASE j # k
      BY <1>1, <1>7, <2>1, <2>2 DEF ExecutionsInv, Executed
    <2>3. CASE j = k
      <3>1. rsp'[j] = Append(rsp[j], Response(k, Head(hand[k]).id))
        BY <1>1, <2>1, <2>3
      <3>2. \/ i \in DOMAIN rsp[j] /\ rsp'[j][i] = rsp[j][i]
            \/ rsp'[j][i] = Response(k, Head(hand[k]).id)
        BY <1>7, <2>1, <3>1
      <3> QED
        BY <1>6, <3>2 DEF ExecutionsInv, Executed, Response
    <2> QED
      BY <2>2, <2>3
  <1>8. \A j \in ConnIds : \A i \in DOMAIN hand'[j] : executions[hand'[j][i].id] >= 1
    <2>1. \A j \in ConnIds : hand'[j] = IF j = k THEN <<>> ELSE hand[j]
      BY <1>1 DEF ClientInv, ClientTypeOK
    <2> QED
      BY <2>1 DEF ExecutionsInv, Executed
  <1>9. Executed'
    BY <1>2, <1>7, <1>8 DEF ExecutionsInv, Executed
  <1> QED
    BY <1>4, <1>5, <1>9 DEF ExecutionsInv

-----------------------------------------------------------------------------
(* The other steps.                                                        *)

LEMMA OpenExec == ClientInv /\ ClientInv' /\ ExecutionsInv /\ Open => ExecutionsInv'
  BY LossInv DEF Open, ScrapedItems, scraperVars

LEMMA MainExec ==
    /\ ClientInv /\ ClientInv' /\ ScraperInv /\ ExecutionsInv /\ MainStep
    => ExecutionsInv'
  <1> SUFFICES ASSUME ClientInv, ClientInv', ScraperInv, ExecutionsInv, MainStep
               PROVE  ExecutionsInv'
    OBVIOUS
  <1>1. CASE Open
    BY <1>1, OpenExec
  <1>2. CASE Write
    BY <1>2, WriteExec
  <1>3. CASE Read
    BY <1>3, ReadExec
  <1>4. CASE \/ OpenFails \/ Handshake \/ HandshakeFails \/ Poll \/ TakeFront \/ PopFront
             \/ SendBroken \/ SendThrows \/ AskQueue \/ AskScraper
             \/ DestroyClient \/ DestroyStatics \/ EndProcess
    <2>1. UNCHANGED <<executions, file, answered, cur, req, hand, rsp, scraped>>
      BY <1>4 DEF OpenFails, Handshake, HandshakeFails, Poll, TakeFront, PopFront, SendBroken,
                  SendThrows, AskQueue, AskScraper, DestroyClient, DestroyStatics,
                  EndProcess, scraperVars, wireVars, mainVars
    <2>2. Connected' /\ connection_ok'
          => Connected /\ connection_ok /\ (pc = "read" => pc' = "read" /\ data' = data)
      <3>1. CASE DestroyClient \/ DestroyStatics \/ EndProcess
        BY <3>1 DEF DestroyClient, DestroyStatics, EndProcess, mainVars, Connected
      <3>2. CASE OpenFails \/ Handshake \/ HandshakeFails \/ Poll \/ TakeFront \/ PopFront
        BY <3>2 DEF OpenFails, Handshake, HandshakeFails, Poll, TakeFront, PopFront, Connected,
                    Ended
      <3>3. CASE SendBroken \/ SendThrows
        BY <3>3 DEF SendBroken, SendThrows, Connected, Ended
      <3>4. CASE AskQueue \/ AskScraper
        BY <3>4 DEF AskQueue, AskScraper, Decide, Connected, Ended
      <3> QED
        BY <1>4, <3>1, <3>2, <3>3, <3>4
    <2>3. ScrapedItems' = ScrapedItems
      BY <2>1 DEF ScrapedItems
    <2> QED
      BY <2>1, <2>2, <2>3, LossInv
  <1> QED
    BY <1>1, <1>2, <1>3, <1>4 DEF MainStep

LEMMA WorldExec ==
    ClientInv /\ ClientInv' /\ ExecutionsInv /\ RestOfWorld => ExecutionsInv'
  <1> SUFFICES ASSUME ClientInv, ClientInv', ExecutionsInv, RestOfWorld
               PROVE  ExecutionsInv'
    OBVIOUS
  <1>1. ASSUME NEW k \in ConnIds, ServerReads(k) PROVE ExecutionsInv'
    BY <1>1, ServerReadsExec
  <1>2. ASSUME NEW k \in ConnIds, ServerWrites(k) PROVE ExecutionsInv'
    BY <1>2, ServerWritesExec
  <1>3. /\ UNCHANGED <<scraperVars, mainVars, answered>>
        /\ ScrapedItems' = ScrapedItems /\ Connected' = Connected
    BY RestOfWorldFrame DEF ScrapedItems, scraperVars, Connected, mainVars
  <1>4. ASSUME UNCHANGED executions,
               \A k \in ConnIds : /\ req'[k] \in {req[k], <<>>}
                                  /\ hand'[k] \in {hand[k], <<>>}
                                  /\ rsp'[k] \in {rsp[k], <<>>}
        PROVE  ExecutionsInv'
    BY <1>3, <1>4, LossInv DEF scraperVars, mainVars
  <1>5. /\ req \in [ConnIds -> Seq(Requests)] /\ rsp \in [ConnIds -> Seq(Responses)]
        /\ hand \in [ConnIds -> Seq(Requests)]
    BY DEF ClientInv, ClientTypeOK, WireTypeOK
  <1>6. ASSUME NEW k \in ConnIds, ServerAccepts(k) PROVE ExecutionsInv'
    BY <1>4, <1>6 DEF ServerAccepts
  <1>7. ASSUME NEW k \in ConnIds, ServerDrops(k) PROVE ExecutionsInv'
    <2>1. /\ UNCHANGED <<executions, rsp>>
          /\ hand' = [hand EXCEPT ![k] = <<>>]
          /\ req' = req \/ req' = [req EXCEPT ![k] = <<>>]
      BY <1>7 DEF ServerDrops
    <2> QED
      BY <1>4, <1>5, <2>1
  <1>8. CASE WireFails
    <2>1. UNCHANGED <<executions, hand>>
      BY <1>8 DEF WireFails
    <2>2. \A j \in ConnIds : req'[j] \in {req[j], <<>>} /\ rsp'[j] \in {rsp[j], <<>>}
      BY <1>5, <1>8 DEF WireFails, ResetConnection, ClientTimesOut, PeerResets, ServerRestarts
    <2> QED
      BY <1>4, <2>1, <2>2
  <1>9. CASE ServerCrashes
    BY <1>4, <1>9 DEF ServerCrashes, ServerDies
  <1> QED
    BY <1>1, <1>2, <1>6, <1>7, <1>8, <1>9 DEF RestOfWorld, ServerStep

LEMMA ScraperExec ==
    /\ ClientInv /\ ClientInv' /\ ScraperInv /\ ExecutionsInv /\ ScraperRuns(ScraperNext)
    => ExecutionsInv'
  <1> SUFFICES ASSUME ClientInv, ClientInv', ScraperInv, ExecutionsInv,
                      ScraperRuns(ScraperNext)
               PROVE  ExecutionsInv'
    OBVIOUS
  <1>1. ScraperNext /\ UNCHANGED <<wireVars, mainVars, answered, hand, executions, lifetime>>
    BY DEF ScraperRuns
  <1>2. file' = file /\ (scraped' = scraped \/ \E x : scraped' = Append(scraped, x))
    BY <1>1 DEF ScraperNext, ScraperStep, GetDatum, EndOfInput, WriteDatum, LeaveLoop, ReadError
  <1>3. ScrapedItems \subseteq ScrapedItems'
    <2>1. scraped \in Seq(Items)
      BY DEF ScraperInv, ScraperTypeOK
    <2>2. ASSUME NEW x, scraped' = Append(scraped, x), NEW i \in DOMAIN scraped
          PROVE  i \in DOMAIN scraped' /\ scraped'[i] = scraped[i]
      BY <2>1, <2>2
    <2> QED
      BY <1>2, <2>2 DEF ScrapedItems
  <1> QED
    BY <1>1, <1>2, <1>3, LossInv DEF wireVars, mainVars, Connected

LEMMA ExecutionsNextInv ==
    ASSUME ClientInv, ScraperInv, ClientInv', ExecutionsInv, [ClientNext]_clientVars
    PROVE  ExecutionsInv'
  <1>1. CASE MainStep
    BY <1>1, MainExec
  <1>2. CASE ScraperRuns(ScraperNext)
    BY <1>2, ScraperExec
  <1>3. CASE RestOfWorld
    BY <1>3, WorldExec
  <1>4. CASE UNCHANGED clientVars
    <2>1. /\ UNCHANGED <<executions, file, answered, cur, req, hand, rsp, scraped, pc, data>>
          /\ Connected' = Connected /\ connection_ok' = connection_ok
      BY <1>4 DEF clientVars, scraperVars, wireVars, mainVars, Connected
    <2>2. ScrapedItems' = ScrapedItems
      BY <2>1 DEF ScrapedItems
    <2> QED
      BY <2>1, <2>2, LossInv
  <1> QED
    BY <1>1, <1>2, <1>3, <1>4 DEF ClientNext, RestOfWorld

LEMMA ExecutionsFollow == ClientInv /\ ExecutionsInv => ExecutionsAccounted
  <1> SUFFICES ASSUME ClientInv, ExecutionsInv, NEW n \in Items
               PROVE  executions[n] <= faults + 1
    BY DEF ExecutionsInv, Executed, ExecutionsAccounted
  <1>1. /\ executions[n] \in Nat /\ Cardinality(Waiting(n)) \in Nat
        /\ cur \in Nat /\ faults \in Nat
    BY CurTypes, WaitingFinite, ConnectionsExist DEF ClientInv
  <1>2. Spent(n) <= cur /\ cur <= faults + 1
    BY DEF ExecutionsInv, AttemptsBounded, ClientInv, FailuresAccounted
  <1> QED
    BY <1>1, <1>2 DEF Spent

\* The server executes what was answered at least once, what was not scraped never, and
\* each item at most once more than something has failed.
THEOREM ExecutionsBounded == ClientSpec => []ExecutionsAccounted
  <1>1. /\ ClientInv /\ ScraperInv /\ (ClientInv /\ ScraperInv)'
        /\ ExecutionsInv /\ [ClientNext]_clientVars
        => ExecutionsInv'
    BY ExecutionsNextInv
  <1> QED
    BY <1>1, ExecutionsInitInv, ExecutionsFollow, ClientInvariance, PTL DEF ClientSpec
=============================================================================
