----------------------------- MODULE ClientProofs -----------------------------
(***************************************************************************)
(* Proofs about the client process, for every input, from a file or from   *)
(* std::cin, every number of failures, with SSL and without: ClientInv is  *)
(* inductive, and with it the client answers in order and exactly once.    *)
(***************************************************************************)
EXTENDS Client, ScraperProofs

\* What is appended to the second of two sequences is appended to both.
LEMMA AppendToConcat ==
    ASSUME NEW s \in Seq(Items), NEW t \in Seq(Items), NEW e \in Items
    PROVE  Append(s \o t, e) = s \o Append(t, e)
  <1>1. <<e>> \in Seq(Items) /\ s \o t \in Seq(Items)
    BY ConcatProperties
  <1>2. Append(s \o t, e) = (s \o t) \o <<e>>
    BY <1>1, AppendIsConcat
  <1>3. (s \o t) \o <<e>> = s \o (t \o <<e>>)
    BY <1>1, ConcatAssociative
  <1>4. t \o <<e>> = Append(t, e)
    BY AppendIsConcat
  <1> QED
    BY <1>2, <1>3, <1>4

\* The head of the second of two sequences may as well end the first.
LEMMA MoveHead ==
    ASSUME NEW S, NEW s \in Seq(S), NEW t \in Seq(S), t # <<>>
    PROVE  s \o t = Append(s, Head(t)) \o Tail(t)
  <1>1. Head(t) \in S /\ Tail(t) \in Seq(S) /\ <<Head(t)>> \in Seq(S)
    BY HeadTailProperties
  <1>2. t = <<Head(t)>> \o Tail(t)
    OBVIOUS
  <1>3. s \o t = s \o (<<Head(t)>> \o Tail(t))
    BY <1>2
  <1>4. s \o (<<Head(t)>> \o Tail(t)) = (s \o <<Head(t)>>) \o Tail(t)
    BY <1>1, ConcatAssociative
  <1>5. s \o <<Head(t)>> = Append(s, Head(t))
    BY <1>1, AppendIsConcat
  <1> QED
    BY <1>3, <1>4, <1>5

\* Taking the head of a sequence, and what that leaves.
LEMMA HeadAndTail ==
    ASSUME NEW S, NEW s \in Seq(S), s # <<>>
    PROVE  Head(s) \in S /\ Tail(s) \in Seq(S)
  BY HeadTailProperties

\* The sets that depend on the input do not change in a step that keeps it.
LEMMA TypesFixed ==
    file' = file => Items' = Items /\ Requests' = Requests /\ Responses' = Responses
  BY DEF Items, Requests, Responses

\* The connection in use, and the next one while the client may open it, exist.
LEMMA ConnectionsExist ==
    ASSUME ClientTypeOK
    PROVE  /\ MaxFaults \in Nat
           /\ faults \in 0..MaxFaults /\ cur \in 0..MaxFaults + 1
           /\ cur >= 1 => cur \in ConnIds
           /\ cur <= MaxFaults => cur + 1 \in ConnIds
  BY ClientAssumption DEF ClientTypeOK, WireTypeOK

LEMMA ClientInitInv == ClientInit => ClientInv
  <1> SUFFICES ASSUME ClientInit PROVE ClientInv
    OBVIOUS
  <1> USE DEF ClientInit, WireInit
  <1>1. ScraperTypeOK
    BY ScraperInitInv DEF ScraperInv
  <1>2. ClientTypeOK
    BY <1>1, ClientAssumption DEF ClientTypeOK, WireTypeOK, ClientEnds, ServerEnds, Ended
  <1>3. QueueNeverEmptyWhenUsed /\ MainLocals /\ OneInFlight
    BY DEF QueueNeverEmptyWhenUsed, MainLocals, OneInFlight, Connected, Ended
  <1>4. InOrderExactlyOnce
    BY DEF InOrderExactlyOnce, ScraperInit
  <1>5. FreshConnections
    BY ClientAssumption DEF FreshConnections
  <1>6. FailuresExplained /\ FailuresAccounted
    BY DEF FailuresExplained, FailuresAccounted
  <1> QED
    BY <1>2, <1>3, <1>4, <1>5, <1>6 DEF ClientInv

-----------------------------------------------------------------------------
(* The main thread.                                                        *)

LEMMA OpenInv == ClientInv /\ Open => ClientInv'
  <1> SUFFICES ASSUME ClientInv, Open PROVE ClientInv'
    OBVIOUS
  <1> USE DEF ClientInv
  <1>1. /\ pc = "open" /\ pc' \in {"handshake", "poll"}
        /\ cur' = cur + 1 /\ connection_ok' = TRUE
        /\ cl' = [k \in ConnIds |-> IF k = cur + 1 THEN "up"
                                    ELSE IF k = cur THEN "closed" ELSE cl[k]]
        /\ sv' = [sv EXCEPT ![cur + 1] = "backlog"]
        /\ UNCHANGED <<scraperVars, req, rsp, running, faults, data, answered, hand,
                       executions, lifetime>>
    BY DEF Open
  <1>2. cur <= faults /\ cur \in Nat /\ faults \in Nat /\ faults <= MaxFaults
    BY <1>1, ConnectionsExist DEF FailuresAccounted
  <1>3. cur + 1 \in ConnIds /\ cur + 1 \in cur + 1..MaxFaults + 1
    BY <1>2, ConnectionsExist
  <1>4. /\ cl'[cur'] = "up" /\ sv'[cur'] = "backlog"
        /\ req'[cur'] = <<>> /\ hand'[cur'] = <<>> /\ rsp'[cur'] = <<>>
    BY <1>1, <1>3 DEF FreshConnections, ClientTypeOK, WireTypeOK
  <1>5. ClientTypeOK'
    <2>1. cl' \in [ConnIds -> ClientEnds] /\ sv' \in [ConnIds -> ServerEnds]
      BY <1>1 DEF ClientTypeOK, WireTypeOK, ClientEnds, ServerEnds
    <2>2. cur' \in 0..MaxFaults + 1
      BY <1>1, <1>2, ConnectionsExist
    <2> QED
      BY <1>1, <2>1, <2>2, TypesFixed
         DEF ClientTypeOK, WireTypeOK, ScraperTypeOK, scraperVars, Items
  <1>6. QueueNeverEmptyWhenUsed' /\ MainLocals'
    BY <1>1, <1>2, <1>4 DEF QueueNeverEmptyWhenUsed, MainLocals, Ended
  <1>7. InOrderExactlyOnce'
    BY <1>1 DEF InOrderExactlyOnce, scraperVars
  <1>8. OneInFlight'
    BY <1>1, <1>4 DEF OneInFlight
  <1>9. FreshConnections'
    <2> SUFFICES ASSUME NEW k \in cur' + 1..MaxFaults + 1
                 PROVE  /\ cl'[k] = "none" /\ sv'[k] = "none"
                        /\ req'[k] = <<>> /\ hand'[k] = <<>> /\ rsp'[k] = <<>>
      BY <1>1 DEF FreshConnections
    <2>1. k \in cur + 1..MaxFaults + 1 /\ k # cur /\ k # cur + 1
      BY <1>1, <1>2, ConnectionsExist
    <2>2. k \in ConnIds
      BY <1>2, <2>1, ClientAssumption
    <2> QED
      BY <1>1, <2>1, <2>2 DEF FreshConnections, ClientTypeOK, WireTypeOK
  <1>10. FailuresExplained'
    BY <1>1, <1>4 DEF FailuresExplained
  <1>11. FailuresAccounted'
    BY <1>1, <1>2 DEF FailuresAccounted
  <1> QED
    BY <1>5, <1>6, <1>7, <1>8, <1>9, <1>10, <1>11

\* The steps of the main thread that touch neither the queue nor the connections.
LEMMA LocalStepInv ==
    ASSUME ClientInv,
           UNCHANGED <<scraperVars, cl, sv, req, rsp, running, cur, answered, hand,
                       executions>>,
           faults' \in {faults, faults + 1}, faults' <= MaxFaults,
           lifetime' \in {"alive", "unwound", "finalized", "gone"},
           connection_ok' \in BOOLEAN, data' \in Items \cup {0},
           pc' \in {"open", "poll", "front", "write", "more", "stream"} \cup Ended,
           pc # "pop" \/ pc' = "pop", pc # "read" \/ cl[cur] # "up" \/ pc' \in Ended,
           pc' \notin {"open", "threw"} => cur >= 1,
           pc' \in {"front", "write"} => queue # <<>>,
           pc' = "write" => data' = Head(queue),
           ~connection_ok' => /\ pc' \in {"more", "stream", "open"} \cup Ended
                              /\ pc' \in {"more", "stream"} => cl[cur] = "broken",
           ~Connected => ~Connected',
           pc' = "open" => cur <= faults',
           pc' = "threw" => faults' > 0
    PROVE  ClientInv'
  <1> USE DEF ClientInv
  <1>1. faults \in Nat /\ MaxFaults \in Nat /\ cur \in Nat
    BY ConnectionsExist
  <1>2. ClientTypeOK'
    BY <1>1, TypesFixed DEF ClientTypeOK, WireTypeOK, ScraperTypeOK, scraperVars, Items, Ended
  <1>3. QueueNeverEmptyWhenUsed'
    BY DEF QueueNeverEmptyWhenUsed, scraperVars, Ended
  <1>4. InOrderExactlyOnce'
    BY DEF InOrderExactlyOnce, scraperVars, Ended
  <1>5. MainLocals'
    BY DEF MainLocals, Connected, scraperVars, Ended
  <1>6. OneInFlight'
    BY DEF OneInFlight, Connected, Ended
  <1>7. FreshConnections'
    BY DEF FreshConnections
  <1>8. faults' \in Nat /\ faults <= faults'
    BY <1>1
  <1>9. FailuresExplained'
    BY <1>1, <1>8 DEF FailuresExplained
  <1>10. FailuresAccounted'
    <2>1. cur <= faults + 1 /\ cur' = cur
      BY DEF FailuresAccounted
    <2>2. \A c, f, g \in Nat : c <= f + 1 /\ f <= g => c <= g + 1
      OBVIOUS
    <2>3. cur <= faults' + 1
      BY <1>1, <1>8, <2>1, <2>2
    <2>4. (pc = "open" => cur <= faults)' /\ (pc = "threw" => faults > 0)'
      BY <2>1
    <2> QED
      BY <2>1, <2>3, <2>4 DEF FailuresAccounted
  <1> QED
    BY <1>2, <1>3, <1>4, <1>5, <1>6, <1>7, <1>9, <1>10

LEMMA OpenFailsInv == ClientInv /\ OpenFails => ClientInv'
  <1> SUFFICES ASSUME ClientInv, OpenFails PROVE ClientInv'
    OBVIOUS
  <1>1. /\ pc = "open" /\ pc' = "threw"
        /\ UNCHANGED <<scraperVars, cl, sv, req, rsp, running, cur, connection_ok, data,
                       answered, hand, executions, lifetime>>
    BY DEF OpenFails
  <1>2. ClientTypeOK /\ faults \in Nat /\ MaxFaults \in Nat /\ faults <= MaxFaults
    BY ConnectionsExist DEF ClientInv
  <1>3. /\ faults' \in {faults, faults + 1} /\ faults' <= MaxFaults
        /\ faults' > 0
    <2>1. CASE ~running /\ faults' = faults
      BY <1>2, <2>1 DEF ClientInv, FailuresExplained
    <2>2. CASE Fault
      BY <1>2, <2>2 DEF Fault
    <2> QED
      BY <2>1, <2>2 DEF OpenFails
  <1> QED
    BY <1>1, <1>2, <1>3, LocalStepInv DEF ClientTypeOK, Connected, Ended

LEMMA HandshakeInv == ClientInv /\ (Handshake \/ HandshakeFails) => ClientInv'
  <1> SUFFICES ASSUME ClientInv, Handshake \/ HandshakeFails PROVE ClientInv'
    OBVIOUS
  <1>1. /\ pc = "handshake" /\ pc' \in {"poll", "threw"}
        /\ UNCHANGED <<scraperVars, wireVars, cur, connection_ok, data, answered, hand,
                       executions, lifetime>>
    BY DEF Handshake, HandshakeFails
  <1>2. /\ ClientTypeOK /\ faults \in Nat /\ faults <= MaxFaults /\ cur \in Nat
        /\ cur >= 1 /\ cl[cur] \in {"up", "broken"} /\ connection_ok
    BY <1>1, ConnectionsExist DEF ClientInv, ClientTypeOK, MainLocals, Connected, Ended
  <1>3. HandshakeFails => faults > 0
    BY <1>1, <1>2 DEF ClientInv, HandshakeFails, FailuresExplained, FailuresAccounted
  <1>4. pc' = "threw" => faults > 0
    BY <1>1, <1>3 DEF Handshake
  <1> QED
    BY <1>1, <1>2, <1>4, LocalStepInv DEF wireVars, ClientTypeOK, Connected, Ended

LEMMA PollInv == ClientInv /\ Poll => ClientInv'
  <1> SUFFICES ASSUME ClientInv, Poll PROVE ClientInv'
    OBVIOUS
  <1>1. ClientTypeOK /\ faults \in Nat /\ faults <= MaxFaults /\ cur >= 1 /\ connection_ok
    BY ConnectionsExist DEF ClientInv, ClientTypeOK, MainLocals, Poll, Ended
  <1> QED
    BY <1>1, LocalStepInv DEF Poll, wireVars, ClientTypeOK, Connected, Ended

LEMMA TakeFrontInv == ClientInv /\ TakeFront => ClientInv'
  <1> SUFFICES ASSUME ClientInv, TakeFront PROVE ClientInv'
    OBVIOUS
  <1>1. ClientTypeOK /\ faults \in Nat /\ faults <= MaxFaults /\ cur >= 1 /\ connection_ok
    BY ConnectionsExist DEF ClientInv, ClientTypeOK, MainLocals, TakeFront, Ended
  <1>2. queue # <<>> /\ Head(queue) \in Items
    BY <1>1, HeadAndTail
       DEF ClientInv, QueueNeverEmptyWhenUsed, TakeFront, ClientTypeOK, ScraperTypeOK
  <1> QED
    BY <1>1, <1>2, LocalStepInv DEF TakeFront, wireVars, ClientTypeOK, Connected, Ended

LEMMA SendBrokenInv == ClientInv /\ SendBroken => ClientInv'
  <1> SUFFICES ASSUME ClientInv, SendBroken PROVE ClientInv'
    OBVIOUS
  <1>1. ClientTypeOK /\ faults \in Nat /\ faults <= MaxFaults /\ cur >= 1
    BY ConnectionsExist DEF ClientInv, ClientTypeOK, MainLocals, SendBroken, Ended
  <1> QED
    BY <1>1, LocalStepInv DEF SendBroken, wireVars, ClientTypeOK, Connected, Ended

LEMMA SendThrowsInv == ClientInv /\ SendThrows => ClientInv'
  <1> SUFFICES ASSUME ClientInv, SendThrows PROVE ClientInv'
    OBVIOUS
  <1>1. /\ ClientTypeOK /\ faults \in Nat /\ faults <= MaxFaults
        /\ cur >= 1 /\ cur \in Nat /\ cur \in ConnIds
    BY ConnectionsExist DEF ClientInv, ClientTypeOK, MainLocals, SendThrows, Ended
  <1>2. faults > 0
    BY <1>1 DEF SendThrows, ClientInv, FailuresExplained
  <1> QED
    BY <1>1, <1>2, LocalStepInv DEF SendThrows, wireVars, ClientTypeOK, Connected, Ended

LEMMA AskInv == ClientInv /\ (AskQueue \/ AskScraper) => ClientInv'
  <1> SUFFICES ASSUME ClientInv, AskQueue \/ AskScraper PROVE ClientInv'
    OBVIOUS
  <1>0. ClientTypeOK /\ pc \in {"more", "stream"}
    BY DEF ClientInv, AskQueue, AskScraper
  <1>1. /\ faults \in Nat /\ faults <= MaxFaults
        /\ cur >= 1 /\ cur \in Nat
        /\ ~connection_ok => cl[cur] = "broken" /\ cur <= faults
    <2>1. faults \in Nat /\ faults <= MaxFaults /\ cur \in Nat
      BY <1>0, ConnectionsExist
    <2>2. cur >= 1 /\ (~connection_ok => cl[cur] = "broken")
      BY <1>0 DEF ClientInv, MainLocals
    <2> QED
      BY <2>1, <2>2 DEF ClientInv, FailuresExplained
  <1>2. /\ pc' \in {"poll", "open", "returned", "stream"}
        /\ pc' = "poll" => connection_ok
        /\ pc' = "open" => ~connection_ok
        /\ UNCHANGED <<scraperVars, wireVars, cur, connection_ok, data, answered,
                       hand, executions, lifetime>>
    BY DEF AskQueue, AskScraper, Decide
  <1> QED
    BY <1>0, <1>1, <1>2, LocalStepInv DEF wireVars, ClientTypeOK, Connected, Ended

LEMMA WriteInv == ClientInv /\ Write => ClientInv'
  <1> SUFFICES ASSUME ClientInv, Write PROVE ClientInv'
    OBVIOUS
  <1> USE DEF ClientInv
  <1>1. /\ pc = "write" /\ pc' = "read" /\ cl[cur] = "up"
        /\ req' = [req EXCEPT ![cur] = Append(@, Request(cur, data))]
        /\ UNCHANGED <<scraperVars, cl, sv, rsp, running, faults, cur, connection_ok, data,
                       answered, hand, executions, lifetime>>
    BY DEF Write
  <1>2. /\ cur >= 1 /\ cur \in ConnIds /\ cur \in Nat /\ MaxFaults \in Nat
        /\ queue # <<>> /\ data = Head(queue) /\ data \in Items
        /\ req[cur] = <<>> /\ hand[cur] = <<>> /\ rsp[cur] = <<>> /\ connection_ok
        /\ Request(cur, data) \in Requests
    <2>1. /\ cur >= 1 /\ queue # <<>> /\ data = Head(queue)
          /\ req[cur] = <<>> /\ hand[cur] = <<>> /\ rsp[cur] = <<>>
      BY <1>1 DEF MainLocals, QueueNeverEmptyWhenUsed, OneInFlight, Connected, Ended
    <2>2. connection_ok
      BY <1>1 DEF MainLocals, Ended
    <2>3. data \in Items
      BY <2>1, HeadAndTail DEF ClientTypeOK, ScraperTypeOK
    <2>4. cur \in ConnIds
      BY <2>1, ConnectionsExist
    <2>5. Request(cur, data) \in Requests
      BY <2>3, <2>4 DEF Request, Requests
    <2> QED
      BY <2>1, <2>2, <2>3, <2>4, <2>5, ConnectionsExist
  <1>3. req'[cur] = <<Request(cur, data)>> /\ \A k \in ConnIds : k # cur => req'[k] = req[k]
    BY <1>1, <1>2 DEF ClientTypeOK, WireTypeOK
  <1>4. ClientTypeOK'
    <2>1. req' \in [ConnIds -> Seq(Requests)]
      BY <1>1, <1>2 DEF ClientTypeOK, WireTypeOK
    <2> QED
      BY <1>1, <2>1, TypesFixed
         DEF ClientTypeOK, WireTypeOK, ScraperTypeOK, scraperVars, Items
  <1>5. QueueNeverEmptyWhenUsed' /\ MainLocals'
    BY <1>1, <1>2 DEF QueueNeverEmptyWhenUsed, MainLocals, scraperVars, Connected, Ended
  <1>6. InOrderExactlyOnce'
    BY <1>1 DEF InOrderExactlyOnce, scraperVars
  <1>7. OneInFlight'
    BY <1>1, <1>2, <1>3 DEF OneInFlight
  <1>8. FreshConnections'
    <2> SUFFICES ASSUME NEW k \in cur + 1..MaxFaults + 1
                 PROVE  /\ cl'[k] = "none" /\ sv'[k] = "none"
                        /\ req'[k] = <<>> /\ hand'[k] = <<>> /\ rsp'[k] = <<>>
      BY <1>1 DEF FreshConnections
    <2>1. k # cur /\ k \in ConnIds
      BY <1>2, ClientAssumption
    <2> QED
      BY <1>1, <1>3, <2>1 DEF FreshConnections
  <1>9. FailuresExplained' /\ FailuresAccounted'
    BY <1>1 DEF FailuresExplained, FailuresAccounted
  <1> QED
    BY <1>4, <1>5, <1>6, <1>7, <1>8, <1>9

LEMMA ReadInv == ClientInv /\ Read => ClientInv'
  <1> SUFFICES ASSUME ClientInv, Read PROVE ClientInv'
    OBVIOUS
  <1> USE DEF ClientInv
  <1>1. /\ pc = "read" /\ pc' = "pop" /\ cl[cur] = "up" /\ rsp[cur] # <<>>
        /\ rsp' = [rsp EXCEPT ![cur] = Tail(@)]
        /\ answered' = Append(answered, Head(rsp[cur]).id)
        /\ connection_ok' = TRUE
        /\ UNCHANGED <<scraperVars, cl, sv, req, running, faults, cur, data, hand,
                       executions, lifetime>>
    BY DEF Read
  <1>2. /\ cur >= 1 /\ cur \in ConnIds /\ cur \in Nat /\ MaxFaults \in Nat
        /\ queue # <<>> /\ data = Head(queue) /\ data \in Items
        /\ req[cur] = <<>> /\ hand[cur] = <<>> /\ rsp[cur] = <<Response(cur, data)>>
    <2>1. /\ cur >= 1 /\ queue # <<>> /\ data = Head(queue)
          /\ req[cur] = <<>> /\ hand[cur] = <<>> /\ rsp[cur] = <<Response(cur, data)>>
      BY <1>1 DEF MainLocals, QueueNeverEmptyWhenUsed, OneInFlight, Connected, Ended
    <2>2. data \in Items
      BY <2>1, HeadAndTail DEF ClientTypeOK, ScraperTypeOK
    <2> QED
      BY <2>1, <2>2, ConnectionsExist
  <1>3. rsp'[cur] = <<>> /\ \A k \in ConnIds : k # cur => rsp'[k] = rsp[k]
    BY <1>1, <1>2 DEF ClientTypeOK, WireTypeOK
  <1>4. answered' = Append(answered, Head(queue))
    BY <1>1, <1>2 DEF Response
  <1>5. ClientTypeOK'
    <2>1. rsp' \in [ConnIds -> Seq(Responses)]
      BY <1>1, <1>2 DEF ClientTypeOK, WireTypeOK
    <2>2. answered' \in Seq(Items)
      BY <1>2, <1>4 DEF ClientTypeOK
    <2> QED
      BY <1>1, <2>1, <2>2, TypesFixed
         DEF ClientTypeOK, WireTypeOK, ScraperTypeOK, scraperVars, Items
  <1>6. QueueNeverEmptyWhenUsed' /\ MainLocals'
    BY <1>1, <1>2 DEF QueueNeverEmptyWhenUsed, MainLocals, scraperVars, Connected, Ended
  <1>7. InOrderExactlyOnce'
    <2>1. scraped = answered \o queue
      BY <1>1 DEF InOrderExactlyOnce
    <2>2. answered \o queue = Append(answered, Head(queue)) \o Tail(queue)
      BY <1>2, MoveHead DEF ClientTypeOK, ScraperTypeOK
    <2> QED
      BY <1>1, <1>4, <2>1, <2>2 DEF InOrderExactlyOnce, scraperVars
  <1>8. OneInFlight'
    BY <1>1, <1>2, <1>3 DEF OneInFlight
  <1>9. FreshConnections'
    <2> SUFFICES ASSUME NEW k \in cur + 1..MaxFaults + 1
                 PROVE  /\ cl'[k] = "none" /\ sv'[k] = "none"
                        /\ req'[k] = <<>> /\ hand'[k] = <<>> /\ rsp'[k] = <<>>
      BY <1>1 DEF FreshConnections
    <2>1. k # cur /\ k \in ConnIds
      BY <1>2, ClientAssumption
    <2> QED
      BY <1>1, <1>3, <2>1 DEF FreshConnections
  <1>10. FailuresExplained' /\ FailuresAccounted'
    BY <1>1 DEF FailuresExplained, FailuresAccounted
  <1> QED
    BY <1>5, <1>6, <1>7, <1>8, <1>9, <1>10

LEMMA PopFrontInv == ClientInv /\ PopFront => ClientInv'
  <1> SUFFICES ASSUME ClientInv, PopFront PROVE ClientInv'
    OBVIOUS
  <1> USE DEF ClientInv
  <1>1. /\ pc = "pop" /\ pc' = "more" /\ queue' = Tail(queue) /\ data' = 0
        /\ UNCHANGED <<file, next, flags, spc, scraped, wireVars, cur, connection_ok,
                       answered, hand, executions, lifetime>>
    BY DEF PopFront
  <1>2. queue # <<>> /\ Tail(queue) \in Seq(Items)
    BY <1>1, HeadAndTail DEF QueueNeverEmptyWhenUsed, ClientTypeOK, ScraperTypeOK
  <1>3. connection_ok /\ cur >= 1
    BY <1>1 DEF MainLocals, Ended
  <1>4. ClientTypeOK'
    BY <1>1, <1>2, TypesFixed DEF ClientTypeOK, WireTypeOK, wireVars, ScraperTypeOK, Items
  <1>5. QueueNeverEmptyWhenUsed' /\ MainLocals'
    BY <1>1, <1>3 DEF QueueNeverEmptyWhenUsed, MainLocals, Connected, Ended, wireVars
  <1>6. InOrderExactlyOnce'
    BY <1>1 DEF InOrderExactlyOnce
  <1>7. OneInFlight'
    BY <1>1 DEF OneInFlight, Connected, Ended, wireVars
  <1>8. FreshConnections' /\ FailuresExplained' /\ FailuresAccounted'
    BY <1>1 DEF FreshConnections, FailuresExplained, FailuresAccounted, wireVars
  <1> QED
    BY <1>4, <1>5, <1>6, <1>7, <1>8

\* What happens after start() only changes the end of a connection nobody uses any more.
LEMMA DestructionInv ==
    ClientInv /\ (DestroyClient \/ DestroyStatics \/ EndProcess) => ClientInv'
  <1> SUFFICES ASSUME ClientInv, DestroyClient \/ DestroyStatics \/ EndProcess
               PROVE  ClientInv'
    OBVIOUS
  <1> USE DEF ClientInv
  <1>1. CASE DestroyClient
    <2>1. /\ pc \in Ended /\ lifetime' = "unwound"
          /\ cl' = [k \in ConnIds |-> IF k = cur THEN "closed" ELSE cl[k]]
          /\ UNCHANGED <<scraperVars, sv, req, rsp, running, faults, mainVars, answered,
                         hand, executions>>
      BY <1>1 DEF DestroyClient
    <2>2. ClientTypeOK'
      <3>1. cl' \in [ConnIds -> ClientEnds]
        BY <2>1 DEF ClientTypeOK, WireTypeOK, ClientEnds
      <3> QED
        BY <2>1, <3>1, TypesFixed
           DEF ClientTypeOK, WireTypeOK, ScraperTypeOK, scraperVars, mainVars, Items
    <2>3. QueueNeverEmptyWhenUsed' /\ InOrderExactlyOnce'
      BY <2>1 DEF QueueNeverEmptyWhenUsed, InOrderExactlyOnce, scraperVars, mainVars
    <2>4. MainLocals' /\ OneInFlight'
      BY <2>1 DEF MainLocals, OneInFlight, Connected, scraperVars, mainVars, Ended
    <2>5. FreshConnections'
      <3> SUFFICES ASSUME NEW k \in cur + 1..MaxFaults + 1 PROVE cl'[k] = "none"
        BY <2>1 DEF FreshConnections, mainVars
      <3>1. k # cur /\ k \in ConnIds
        BY ClientAssumption, ConnectionsExist
      <3> QED
        BY <2>1, <3>1 DEF FreshConnections
    <2>6. FailuresExplained'
      <3>1. cur >= 1 => cl'[cur] = "closed"
        BY <2>1, ConnectionsExist
      <3> QED
        BY <2>1, <3>1 DEF FailuresExplained, mainVars
    <2>7. FailuresAccounted'
      BY <2>1 DEF FailuresAccounted, mainVars
    <2> QED
      BY <2>2, <2>3, <2>4, <2>5, <2>6, <2>7
  <1>2. CASE DestroyStatics \/ EndProcess
    <2>1. /\ lifetime' \in {"finalized", "gone"}
          /\ UNCHANGED <<scraperVars, wireVars, mainVars, answered, hand, executions>>
      BY <1>2 DEF DestroyStatics, EndProcess
    <2>2. ClientTypeOK'
      BY <2>1, TypesFixed
         DEF ClientTypeOK, WireTypeOK, ScraperTypeOK, scraperVars, wireVars, mainVars, Items
    <2>3. QueueNeverEmptyWhenUsed' /\ InOrderExactlyOnce' /\ MainLocals'
      BY <2>1 DEF QueueNeverEmptyWhenUsed, InOrderExactlyOnce, MainLocals, Connected,
                  scraperVars, wireVars, mainVars
    <2>4. OneInFlight' /\ FreshConnections'
      BY <2>1 DEF OneInFlight, Connected, FreshConnections, wireVars, mainVars
    <2>5. FailuresExplained' /\ FailuresAccounted'
      BY <2>1 DEF FailuresExplained, FailuresAccounted, wireVars, mainVars
    <2> QED
      BY <2>2, <2>3, <2>4, <2>5
  <1> QED
    BY <1>1, <1>2

-----------------------------------------------------------------------------
(* The server, the network and the scraper thread.                         *)

\* A step of the session of connection k: nothing changes but what the server has of k,
\* which is not fresh, and which the server does not close while the client uses it.
LEMMA SessionStepInv ==
    ASSUME ClientInv, NEW k \in ConnIds,
           UNCHANGED <<scraperVars, cl, running, faults, mainVars, answered, lifetime>>,
           sv[k] # "none",
           sv' \in [ConnIds -> ServerEnds], req' \in [ConnIds -> Seq(Requests)],
           rsp' \in [ConnIds -> Seq(Responses)], hand' \in [ConnIds -> Seq(Requests)],
           executions' \in [Items -> Nat],
           \A j \in ConnIds : j # k => /\ sv'[j] = sv[j] /\ req'[j] = req[j]
                                       /\ rsp'[j] = rsp[j] /\ hand'[j] = hand[j],
           cl[k] = "up" /\ sv'[k] = "closed" => sv[k] = "closed",
           k = cur => OneInFlight'
    PROVE  ClientInv'
  <1> USE DEF ClientInv
  <1>1. ClientTypeOK'
    <2>1. ScraperTypeOK' /\ Items' = Items /\ Requests' = Requests /\ Responses' = Responses
      BY TypesFixed DEF ClientTypeOK, ScraperTypeOK, scraperVars, Items
    <2>2. WireTypeOK(Requests, Responses)'
      BY <2>1 DEF ClientTypeOK, WireTypeOK
    <2> QED
      BY <2>1, <2>2 DEF ClientTypeOK, mainVars
  <1>2. QueueNeverEmptyWhenUsed' /\ InOrderExactlyOnce' /\ MainLocals'
    BY DEF QueueNeverEmptyWhenUsed, InOrderExactlyOnce, MainLocals, Connected, scraperVars,
           mainVars
  <1>3. cur >= 1 => cur \in ConnIds
    BY ConnectionsExist
  <1>4. OneInFlight'
    <2>1. CASE k # cur /\ Connected
      <3>1. cur \in ConnIds
        BY <1>3, <2>1 DEF MainLocals, Connected, Ended
      <3> QED
        BY <2>1, <3>1 DEF OneInFlight, Connected, mainVars
    <2>2. CASE ~Connected
      BY <2>2 DEF OneInFlight, Connected, mainVars
    <2> QED
      BY <2>1, <2>2
  <1>5. FreshConnections'
    <2> SUFFICES ASSUME NEW j \in cur + 1..MaxFaults + 1
                 PROVE  /\ cl[j] = "none" /\ sv'[j] = "none"
                        /\ req'[j] = <<>> /\ hand'[j] = <<>> /\ rsp'[j] = <<>>
      BY DEF FreshConnections, mainVars
    <2>1. j \in ConnIds
      BY ClientAssumption, ConnectionsExist
    <2>2. j # k
      BY DEF FreshConnections
    <2> QED
      BY <2>1, <2>2 DEF FreshConnections
  <1>6. FailuresExplained'
    BY <1>3 DEF FailuresExplained, mainVars
  <1>7. FailuresAccounted'
    BY DEF FailuresAccounted, mainVars
  <1> QED
    BY <1>1, <1>2, <1>4, <1>5, <1>6, <1>7

LEMMA ServerAcceptsInv ==
    ASSUME ClientInv, NEW k \in ConnIds, ServerAccepts(k) PROVE ClientInv'
  <1>1. /\ sv[k] = "backlog" /\ sv' = [sv EXCEPT ![k] = "up"]
        /\ UNCHANGED <<scraperVars, cl, req, rsp, running, faults, mainVars, answered, hand,
                       executions, lifetime>>
    BY DEF ServerAccepts
  <1>2. ClientTypeOK /\ sv' \in [ConnIds -> ServerEnds] /\ sv'[k] = "up"
        /\ \A j \in ConnIds : j # k => sv'[j] = sv[j]
    BY <1>1 DEF ClientInv, ClientTypeOK, WireTypeOK, ServerEnds
  <1>3. OneInFlight' \/ k # cur
    BY <1>1, <1>2 DEF ClientInv, OneInFlight, Connected, mainVars
  <1> QED
    BY <1>1, <1>2, <1>3, SessionStepInv DEF ClientTypeOK, WireTypeOK

LEMMA ServerReadsInv ==
    ASSUME ClientInv, NEW k \in ConnIds, ServerReads(k) PROVE ClientInv'
  <1>1. /\ sv[k] = "up" /\ req[k] # <<>> /\ hand[k] = <<>>
        /\ req' = [req EXCEPT ![k] = Tail(@)]
        /\ hand' = [hand EXCEPT ![k] = <<Head(req[k])>>]
        /\ executions' = [executions EXCEPT ![Head(req[k]).id] = @ + 1]
        /\ UNCHANGED <<scraperVars, cl, sv, rsp, running, faults, mainVars, answered, lifetime>>
    BY DEF ServerReads
  <1>2. ClientTypeOK /\ req[k] \in Seq(Requests)
    BY DEF ClientInv, ClientTypeOK, WireTypeOK
  <1>3. Head(req[k]) \in Requests /\ Tail(req[k]) \in Seq(Requests)
    BY <1>1, <1>2, HeadAndTail
  <1>4. Head(req[k]).id \in Items
    BY <1>3 DEF Requests
  <1>5. /\ req' \in [ConnIds -> Seq(Requests)] /\ hand' \in [ConnIds -> Seq(Requests)]
        /\ executions' \in [Items -> Nat]
    <2>1. req \in [ConnIds -> Seq(Requests)] /\ hand \in [ConnIds -> Seq(Requests)]
      BY <1>2 DEF ClientTypeOK, WireTypeOK
    <2>2. executions \in [Items -> Nat]
      BY <1>2 DEF ClientTypeOK
    <2>3. <<Head(req[k])>> \in Seq(Requests)
      BY <1>3
    <2>4. executions' \in [Items -> Nat]
      BY <1>1, <1>4, <2>2
    <2> QED
      BY <1>1, <1>3, <2>1, <2>3, <2>4
  <1>6. /\ req'[k] = Tail(req[k]) /\ hand'[k] = <<Head(req[k])>>
        /\ \A j \in ConnIds : j # k => req'[j] = req[j] /\ hand'[j] = hand[j]
    BY <1>1, <1>2 DEF ClientTypeOK, WireTypeOK
  <1>7. OneInFlight' \/ k # cur
    <2> SUFFICES ASSUME k = cur, Connected, cl[cur] = "up" PROVE OneInFlight'
      BY <1>1 DEF OneInFlight, Connected, mainVars
    <2>1. pc = "read" /\ req[k] = <<Request(cur, data)>> /\ rsp[k] = <<>>
      BY <1>1 DEF ClientInv, OneInFlight
    <2>2. Head(req[k]) = Request(cur, data) /\ Tail(req[k]) = <<>>
      BY <2>1
    <2> QED
      BY <1>1, <1>6, <2>1, <2>2 DEF OneInFlight, Request, mainVars
  <1> QED
    BY <1>1, <1>2, <1>5, <1>6, <1>7, SessionStepInv DEF ClientTypeOK, WireTypeOK

LEMMA ServerWritesInv ==
    ASSUME ClientInv, NEW k \in ConnIds, ServerWrites(k) PROVE ClientInv'
  <1>1. /\ sv[k] = "up" /\ hand[k] # <<>>
        /\ rsp' = [rsp EXCEPT ![k] = Append(@, Response(k, Head(hand[k]).id))]
        /\ hand' = [hand EXCEPT ![k] = <<>>]
        /\ UNCHANGED <<scraperVars, cl, sv, req, running, faults, mainVars, answered,
                       executions, lifetime>>
    BY DEF ServerWrites
  <1>2. ClientTypeOK /\ hand[k] \in Seq(Requests) /\ rsp[k] \in Seq(Responses)
    BY DEF ClientInv, ClientTypeOK, WireTypeOK
  <1>3. Head(hand[k]) \in Requests
    BY <1>1, <1>2, HeadAndTail
  <1>4. Response(k, Head(hand[k]).id) \in Responses
    BY <1>3 DEF Requests, Responses, Response
  <1>5. rsp' \in [ConnIds -> Seq(Responses)] /\ hand' \in [ConnIds -> Seq(Requests)]
    BY <1>1, <1>2, <1>4 DEF ClientTypeOK, WireTypeOK
  <1>6. /\ rsp'[k] = Append(rsp[k], Response(k, Head(hand[k]).id)) /\ hand'[k] = <<>>
        /\ \A j \in ConnIds : j # k => rsp'[j] = rsp[j] /\ hand'[j] = hand[j]
    BY <1>1, <1>2 DEF ClientTypeOK, WireTypeOK
  <1>7. OneInFlight' \/ k # cur
    <2> SUFFICES ASSUME k = cur, Connected, cl[cur] = "up" PROVE OneInFlight'
      BY <1>1 DEF OneInFlight, Connected, mainVars
    <2>1. pc = "read" /\ req[k] = <<>> /\ hand[k] = <<Request(cur, data)>> /\ rsp[k] = <<>>
      BY <1>1 DEF ClientInv, OneInFlight
    <2>2. rsp'[k] = <<Response(cur, data)>>
      BY <1>6, <2>1 DEF Request
    <2> QED
      BY <1>1, <1>6, <2>1, <2>2 DEF OneInFlight, mainVars
  <1> QED
    BY <1>1, <1>2, <1>5, <1>6, <1>7, SessionStepInv DEF ClientTypeOK, WireTypeOK

LEMMA ServerDropsInv ==
    ASSUME ClientInv, NEW k \in ConnIds, ServerDrops(k) PROVE ClientInv'
  <1>1. /\ sv[k] \in {"up", "broken"} /\ cl[k] # "up"
        /\ hand' = [hand EXCEPT ![k] = <<>>]
        /\ \/ UNCHANGED <<sv, req>>
           \/ /\ sv' = [sv EXCEPT ![k] = "closed"]
              /\ req' = [req EXCEPT ![k] = <<>>]
        /\ UNCHANGED <<scraperVars, cl, rsp, running, faults, mainVars, answered, executions,
                       lifetime>>
    BY DEF ServerDrops
  <1>2. ClientTypeOK
    BY DEF ClientInv
  <1>3. /\ sv' \in [ConnIds -> ServerEnds] /\ req' \in [ConnIds -> Seq(Requests)]
        /\ hand' \in [ConnIds -> Seq(Requests)]
        /\ \A j \in ConnIds :
            j # k => sv'[j] = sv[j] /\ req'[j] = req[j] /\ hand'[j] = hand[j]
    <2>1. /\ hand' \in [ConnIds -> Seq(Requests)]
          /\ \A j \in ConnIds : j # k => hand'[j] = hand[j]
      BY <1>1, <1>2 DEF ClientTypeOK
    <2>2. CASE UNCHANGED <<sv, req>>
      BY <1>2, <2>1, <2>2 DEF ClientTypeOK, WireTypeOK
    <2>3. CASE sv' = [sv EXCEPT ![k] = "closed"] /\ req' = [req EXCEPT ![k] = <<>>]
      BY <1>2, <2>1, <2>3 DEF ClientTypeOK, WireTypeOK, ServerEnds
    <2> QED
      BY <1>1, <2>2, <2>3
  <1>4. OneInFlight' \/ k # cur
    BY <1>1 DEF OneInFlight, mainVars
  <1> QED
    BY <1>1, <1>2, <1>3, <1>4, SessionStepInv DEF ClientTypeOK, WireTypeOK

\* Ends of connections break or close, and messages are lost, but nothing appears that
\* was not there, and the connection in use is spared or has a failure to explain it.
LEMMA WireStepInv ==
    ASSUME ClientInv, faults' \in {faults, faults + 1}, faults' <= MaxFaults,
           FailuresExplained',
           UNCHANGED <<scraperVars, mainVars, answered, executions, lifetime>>,
           cl' \in [ConnIds -> ClientEnds], sv' \in [ConnIds -> ServerEnds],
           running' \in BOOLEAN,
           req' \in [ConnIds -> Seq(Requests)], rsp' \in [ConnIds -> Seq(Responses)],
           hand' \in [ConnIds -> Seq(Requests)],
           \A k \in ConnIds : cl'[k] # cl[k] => cl[k] = "up" /\ cl'[k] = "broken",
           \A k \in ConnIds : sv[k] = "none" /\ cl[k] = "none" => sv'[k] = "none",
           \A k \in ConnIds :
               cl'[k] = "up" \/ cl[k] = "none" => req'[k] = req[k] /\ rsp'[k] = rsp[k],
           \A k \in ConnIds : hand'[k] \in {hand[k], <<>>},
           \A k \in ConnIds : cl'[k] = "up" =>
               \/ sv'[k] = sv[k] /\ (hand'[k] = hand[k] \/ sv[k] # "up")
               \/ sv'[k] = "closed" /\ hand'[k] = <<>>
    PROVE  ClientInv'
  <1> USE DEF ClientInv
  <1>1. /\ faults \in Nat /\ MaxFaults \in Nat /\ cur \in Nat /\ cur' = cur
        /\ pc' = pc /\ queue' = queue /\ file' = file /\ data' = data
        /\ connection_ok' = connection_ok
    BY ConnectionsExist DEF mainVars, scraperVars
  <1>2. ClientTypeOK'
    BY <1>1, TypesFixed
       DEF ClientTypeOK, WireTypeOK, ScraperTypeOK, scraperVars, mainVars, Items
  <1>3. QueueNeverEmptyWhenUsed' /\ InOrderExactlyOnce'
    BY DEF QueueNeverEmptyWhenUsed, InOrderExactlyOnce, scraperVars, mainVars
  <1>4. Connected => cur \in ConnIds
    BY ConnectionsExist DEF MainLocals, Connected, Ended
  <1>5. MainLocals'
    BY <1>1, <1>4 DEF MainLocals, Connected, Ended
  <1>6. OneInFlight'
    <2> SUFFICES ASSUME Connected, cl'[cur] = "up" PROVE OneInFlight'
      BY <1>1 DEF OneInFlight, Connected
    <2>1. cl[cur] = "up" /\ req'[cur] = req[cur] /\ rsp'[cur] = rsp[cur]
      BY <1>4
    <2>2. CASE pc # "read"
      <3>1. req[cur] = <<>> /\ hand[cur] = <<>> /\ rsp[cur] = <<>>
        BY <2>1, <2>2 DEF OneInFlight
      <3>2. hand'[cur] = <<>>
        BY <1>4, <3>1
      <3> QED
        BY <1>1, <2>1, <2>2, <3>1, <3>2 DEF OneInFlight
    <2>3. CASE pc = "read"
      <3>1. CASE sv'[cur] = sv[cur] /\ hand'[cur] = hand[cur]
        BY <1>1, <2>1, <2>3, <3>1 DEF OneInFlight
      <3>2. CASE sv'[cur] = sv[cur] /\ sv[cur] # "up"
        <4>1. hand[cur] = <<>>
          BY <2>1, <2>3, <3>2 DEF OneInFlight
        <4> QED
          BY <1>1, <1>4, <2>1, <2>3, <3>2, <4>1, <3>1
      <3>3. CASE sv'[cur] = "closed" /\ hand'[cur] = <<>>
        BY <1>1, <2>1, <2>3, <3>3 DEF OneInFlight
      <3> QED
        BY <1>4, <3>1, <3>2, <3>3
    <2> QED
      BY <2>2, <2>3
  <1>7. FreshConnections'
    <2> SUFFICES ASSUME NEW k \in cur + 1..MaxFaults + 1
                 PROVE  /\ cl'[k] = "none" /\ sv'[k] = "none"
                        /\ req'[k] = <<>> /\ hand'[k] = <<>> /\ rsp'[k] = <<>>
      BY <1>1 DEF FreshConnections
    <2>1. k \in ConnIds
      BY <1>1, ClientAssumption
    <2> QED
      BY <2>1 DEF FreshConnections
  <1>8. FailuresAccounted'
    <2>1. CASE faults' = faults
      BY <1>1, <2>1 DEF FailuresAccounted
    <2>2. CASE faults' = faults + 1
      BY <1>1, <2>2 DEF FailuresAccounted
    <2> QED
      BY <2>1, <2>2
  <1> QED
    BY <1>2, <1>3, <1>5, <1>6, <1>7, <1>8

\* Any failure explains one more connection.
LEMMA FaultExplains ==
    ASSUME ClientInv, Fault, UNCHANGED mainVars
    PROVE  /\ faults' \in {faults, faults + 1} /\ faults' <= MaxFaults
           /\ FailuresExplained'
  <1>1. faults \in Nat /\ MaxFaults \in Nat /\ cur \in Nat /\ cur <= faults + 1
    BY ConnectionsExist DEF ClientInv, FailuresAccounted
  <1> QED
    BY <1>1 DEF Fault, FailuresExplained, mainVars

LEMMA WireFailsInv == ClientInv /\ WireFails => ClientInv'
  <1> SUFFICES ASSUME ClientInv, WireFails PROVE ClientInv'
    OBVIOUS
  <1>1. /\ cl \in [ConnIds -> ClientEnds] /\ sv \in [ConnIds -> ServerEnds]
        /\ req \in [ConnIds -> Seq(Requests)] /\ rsp \in [ConnIds -> Seq(Responses)]
        /\ hand \in [ConnIds -> Seq(Requests)] /\ hand' = hand
        /\ running \in BOOLEAN /\ faults \in Nat /\ faults <= MaxFaults
        /\ UNCHANGED <<scraperVars, mainVars, answered, executions, lifetime>>
    BY ConnectionsExist DEF ClientInv, ClientTypeOK, WireTypeOK, WireFails
  <1>2. ASSUME NEW k \in ConnIds, ResetConnection(k) PROVE ClientInv'
    <2>1. /\ Fault /\ cl[k] = "up" /\ running' = running
          /\ cl' = [cl EXCEPT ![k] = "broken"] /\ sv' = [sv EXCEPT ![k] = "broken"]
          /\ req' = [req EXCEPT ![k] = <<>>] /\ rsp' = [rsp EXCEPT ![k] = <<>>]
      BY <1>2 DEF ResetConnection
    <2>2. /\ cl' \in [ConnIds -> ClientEnds] /\ sv' \in [ConnIds -> ServerEnds]
          /\ req' \in [ConnIds -> Seq(Requests)] /\ rsp' \in [ConnIds -> Seq(Responses)]
      BY <1>1, <2>1 DEF ClientEnds, ServerEnds
    <2> QED
      BY <1>1, <2>1, <2>2, FaultExplains, WireStepInv
  <1>3. ASSUME NEW k \in ConnIds, ClientTimesOut(k) PROVE ClientInv'
    <2>1. /\ Fault /\ cl[k] = "up" /\ cl' = [cl EXCEPT ![k] = "broken"]
          /\ UNCHANGED <<sv, req, rsp, running>>
      BY <1>3 DEF ClientTimesOut
    <2>2. cl' \in [ConnIds -> ClientEnds]
      BY <1>1, <2>1 DEF ClientEnds
    <2> QED
      BY <1>1, <2>1, <2>2, FaultExplains, WireStepInv
  <1>4. ASSUME NEW k \in ConnIds, PeerResets(k) PROVE ClientInv'
    <2>1. /\ cl[k] = "up" /\ sv[k] = "closed" /\ cl' = [cl EXCEPT ![k] = "broken"]
          /\ UNCHANGED <<sv, req, rsp, running, faults>>
      BY <1>4 DEF PeerResets
    <2>2. cl' \in [ConnIds -> ClientEnds]
      BY <1>1, <2>1 DEF ClientEnds
    <2>3. FailuresExplained'
      BY <1>1, <2>1, ConnectionsExist DEF ClientInv, FailuresExplained, mainVars
    <2> QED
      BY <1>1, <2>1, <2>2, <2>3, WireStepInv
  <1>5. CASE ServerRestarts
    <2>1. running' = TRUE /\ UNCHANGED <<cl, sv, req, rsp, faults>>
      BY <1>5 DEF ServerRestarts
    <2>2. FailuresExplained'
      BY <1>1, <2>1 DEF ClientInv, FailuresExplained, mainVars
    <2> QED
      BY <1>1, <2>1, <2>2, WireStepInv
  <1> QED
    BY <1>2, <1>3, <1>4, <1>5 DEF WireFails

LEMMA ServerCrashesInv == ClientInv /\ ServerCrashes => ClientInv'
  <1> SUFFICES ASSUME ClientInv, ServerCrashes PROVE ClientInv'
    OBVIOUS
  <1>1. /\ Fault /\ running' = FALSE /\ hand' = [k \in ConnIds |-> <<>>]
        /\ sv' = [k \in ConnIds |-> IF sv[k] \in {"backlog", "up"} THEN "closed" ELSE sv[k]]
        /\ UNCHANGED <<scraperVars, cl, req, rsp, mainVars, answered, executions, lifetime>>
    BY DEF ServerCrashes, ServerDies, StopServer
  <1>2. /\ cl \in [ConnIds -> ClientEnds] /\ sv \in [ConnIds -> ServerEnds]
        /\ req \in [ConnIds -> Seq(Requests)] /\ rsp \in [ConnIds -> Seq(Responses)]
    BY DEF ClientInv, ClientTypeOK, WireTypeOK
  <1>3. sv' \in [ConnIds -> ServerEnds] /\ hand' \in [ConnIds -> Seq(Requests)]
    BY <1>1, <1>2 DEF ServerEnds
  <1>4. \A k \in ConnIds : \/ sv'[k] = sv[k] /\ sv[k] # "up"
                           \/ sv'[k] = "closed" /\ hand'[k] = <<>>
    BY <1>1, <1>2
  <1>5. \A k \in ConnIds : hand'[k] = <<>> /\ (sv[k] = "none" => sv'[k] = "none")
    BY <1>1
  <1> QED
    BY <1>1, <1>2, <1>3, <1>4, <1>5, FaultExplains, WireStepInv

\* All that is neither a thread of the client nor an idle step.
RestOfWorld == ServerStep \/ (\E k \in ConnIds : ServerDrops(k)) \/ WireFails \/ ServerCrashes

LEMMA RestOfWorldInv == ClientInv /\ RestOfWorld => ClientInv'
  BY ServerAcceptsInv, ServerReadsInv, ServerWritesInv, ServerDropsInv, WireFailsInv,
     ServerCrashesInv DEF RestOfWorld, ServerStep

LEMMA RestOfWorldFrame ==
    RestOfWorld => UNCHANGED <<scraperVars, mainVars, answered, lifetime>>
  BY DEF RestOfWorld, ServerStep, ServerAccepts, ServerReads, ServerWrites, ServerDrops,
         WireFails, ServerCrashes

\* The scraper thread only appends, so it cannot disturb the head that listen() uses.
LEMMA ScraperRunsInv ==
    ClientInv /\ ScraperInv /\ ScraperRuns(ScraperNext) => ClientInv' /\ ScraperInv'
  <1> SUFFICES ASSUME ClientInv, ScraperInv, ScraperRuns(ScraperNext)
               PROVE  ClientInv' /\ ScraperInv'
    OBVIOUS
  <1>1. /\ ScraperNext
        /\ UNCHANGED <<wireVars, mainVars, answered, hand, executions, lifetime>>
    BY DEF ScraperRuns
  <1>2. ScraperInv'
    BY <1>1, ScraperNextInv
  <1>3. /\ file' = file
        /\ \/ queue' = queue /\ scraped' = scraped
           \/ \E x \in Items : queue' = Append(queue, x) /\ scraped' = Append(scraped, x)
    <2>1. CASE WriteDatum
      BY <2>1, HeldIsItem DEF WriteDatum
    <2>2. CASE ~WriteDatum
      BY <1>1, <2>2
         DEF ScraperNext, ScraperStep, GetDatum, EndOfInput, LeaveLoop, ReadError
    <2> QED
      BY <2>1, <2>2
  <1>4. queue \in Seq(Items) /\ scraped \in Seq(Items) /\ answered \in Seq(Items)
    BY DEF ScraperInv, ScraperTypeOK, ClientInv, ClientTypeOK
  <1>5. queue # <<>> => queue' # <<>> /\ Head(queue') = Head(queue)
    <2>1. \A x \in Items : /\ Append(queue, x) # <<>>
                           /\ queue # <<>> => Head(Append(queue, x)) = Head(queue)
      BY <1>4, HeadTailAppend, AppendProperties
    <2> QED
      BY <1>3, <2>1
  <1>6. ClientTypeOK'
    BY <1>1, <1>2, <1>3, TypesFixed
       DEF ClientInv, ClientTypeOK, WireTypeOK, ScraperInv, wireVars, mainVars
  <1>7. QueueNeverEmptyWhenUsed'
    BY <1>1, <1>5 DEF ClientInv, QueueNeverEmptyWhenUsed, mainVars
  <1>8. InOrderExactlyOnce'
    <2>1. CASE queue' = queue /\ scraped' = scraped
      BY <1>1, <2>1 DEF ClientInv, InOrderExactlyOnce, mainVars
    <2>2. ASSUME NEW x \in Items, queue' = Append(queue, x), scraped' = Append(scraped, x)
          PROVE  InOrderExactlyOnce'
      <3>1. CASE pc # "pop"
        <4>1. scraped = answered \o queue
          BY <3>1 DEF ClientInv, InOrderExactlyOnce
        <4>2. Append(scraped, x) = answered \o Append(queue, x)
          BY <1>4, <4>1, AppendToConcat
        <4> QED
          BY <1>1, <2>2, <3>1, <4>2 DEF InOrderExactlyOnce, mainVars
      <3>2. CASE pc = "pop"
        <4>1. queue # <<>> /\ scraped = answered \o Tail(queue)
          BY <3>2 DEF ClientInv, QueueNeverEmptyWhenUsed, InOrderExactlyOnce
        <4>2. Tail(queue) \in Seq(Items) /\ Tail(Append(queue, x)) = Append(Tail(queue), x)
          BY <1>4, <4>1, HeadAndTail, HeadTailAppend
        <4>3. Append(scraped, x) = answered \o Append(Tail(queue), x)
          BY <1>4, <4>1, <4>2, AppendToConcat
        <4> QED
          BY <1>1, <2>2, <3>2, <4>2, <4>3 DEF InOrderExactlyOnce, mainVars
      <3> QED
        BY <3>1, <3>2
    <2> QED
      BY <1>3, <2>1, <2>2
  <1>9. MainLocals'
    BY <1>1, <1>5 DEF ClientInv, MainLocals, QueueNeverEmptyWhenUsed, Connected, mainVars,
                      wireVars
  <1>10. OneInFlight' /\ FreshConnections' /\ FailuresExplained' /\ FailuresAccounted'
    BY <1>1 DEF ClientInv, OneInFlight, Connected, FreshConnections, FailuresExplained,
                FailuresAccounted, mainVars, wireVars
  <1> QED
    BY <1>2, <1>6, <1>7, <1>8, <1>9, <1>10 DEF ClientInv

-----------------------------------------------------------------------------
(* The client.                                                             *)

\* The other steps leave the scraper thread where it is and at most pop its queue.
LEMMA ScraperLeftAlone ==
    ASSUME ScraperInv, ClientInv', UNCHANGED <<file, next, flags, spc, scraped>>
    PROVE  ScraperInv'
  <1>1. ScraperTypeOK'
    BY DEF ClientInv, ClientTypeOK
  <1>2. HeldWasRead'
    BY DEF ScraperInv, HeldWasRead
  <1>3. /\ ScrapedItems' = ScrapedItems /\ InHand' = InHand
        /\ \A kind : LinesOf(kind)' = LinesOf(kind)
    BY DEF ScrapedItems, InHand, LinesOf, Items
  <1>4. ScrapedInOrder' /\ RecordsKept'
    BY <1>3 DEF ScraperInv, ScrapedInOrder, RecordsKept
  <1> QED
    BY <1>1, <1>2, <1>4 DEF ScraperInv

LEMMA MainStepInv == ClientInv /\ MainStep => ClientInv'
  BY OpenInv, OpenFailsInv, HandshakeInv, PollInv, TakeFrontInv, WriteInv, ReadInv,
     PopFrontInv, SendBrokenInv, SendThrowsInv, AskInv, DestructionInv DEF MainStep

LEMMA MainStepFrame == MainStep => UNCHANGED <<file, next, flags, spc, scraped>>
  BY DEF MainStep, Open, OpenFails, Handshake, HandshakeFails, Poll, TakeFront, Write, Read,
         PopFront, SendBroken, SendThrows, AskQueue, AskScraper, DestroyClient, DestroyStatics, EndProcess,
         scraperVars

LEMMA ClientNextInv ==
    ClientInv /\ ScraperInv /\ [ClientNext]_clientVars => ClientInv' /\ ScraperInv'
  <1> SUFFICES ASSUME ClientInv, ScraperInv, [ClientNext]_clientVars
               PROVE  ClientInv' /\ ScraperInv'
    OBVIOUS
  <1>1. CASE MainStep
    BY <1>1, MainStepInv, MainStepFrame, ScraperLeftAlone
  <1>2. CASE ScraperRuns(ScraperNext)
    BY <1>2, ScraperRunsInv
  <1>3. CASE RestOfWorld
    BY <1>3, RestOfWorldInv, RestOfWorldFrame, ScraperLeftAlone DEF scraperVars
  <1>4. CASE UNCHANGED clientVars
    <2> USE <1>4 DEF clientVars, scraperVars, wireVars, mainVars
    <2>1. ClientTypeOK'
      BY TypesFixed DEF ClientInv, ClientTypeOK, WireTypeOK, ScraperTypeOK, Items
    <2>2. QueueNeverEmptyWhenUsed' /\ InOrderExactlyOnce' /\ MainLocals'
      BY DEF ClientInv, QueueNeverEmptyWhenUsed, InOrderExactlyOnce, MainLocals, Connected
    <2>3. OneInFlight' /\ FreshConnections' /\ FailuresExplained' /\ FailuresAccounted'
      BY DEF ClientInv, OneInFlight, Connected, FreshConnections, FailuresExplained,
             FailuresAccounted
    <2>4. ClientInv'
      BY <2>1, <2>2, <2>3 DEF ClientInv
    <2> QED
      BY <2>4, ScraperLeftAlone
  <1> QED
    BY <1>1, <1>2, <1>3, <1>4 DEF ClientNext, RestOfWorld

\* ClientInv, and with it the invariant of the scraper thread, holds throughout every
\* execution of the client.
THEOREM ClientInvariance == ClientSpec => [](ClientInv /\ ScraperInv)
  <1>1. ClientInit => ClientInv /\ ScraperInv
    BY ClientInitInv, ScraperInitInv DEF ClientInit
  <1> QED
    BY <1>1, ClientNextInv, PTL DEF ClientSpec

\* No variable ever leaves its type.
THEOREM ClientTypeCorrect == ClientSpec => []ClientTypeOK
  BY ClientInvariance, PTL DEF ClientInv

\* However the two threads interleave, front() and pop() never meet an empty queue.
THEOREM QueueUseIsSafe == ClientSpec => []QueueNeverEmptyWhenUsed
  BY ClientInvariance, PTL DEF ClientInv

\* Through any number of reconnections, every item is answered at most once and in the
\* order of the input, and is in the queue until then.
THEOREM AnswersInOrderExactlyOnce == ClientSpec => []InOrderExactlyOnce
  BY ClientInvariance, PTL DEF ClientInv

\* A response that listen() finds is the response to the head of the queue, so that the
\* assertion of the response strategy never fails.
THEOREM ResponsesMatch == ClientSpec => []ResponseMatchesRequest
  <1>1. ClientInv => ResponseMatchesRequest
    <2> SUFFICES ASSUME ClientInv, pc = "read", cl[cur] = "up", rsp[cur] # <<>>
                 PROVE  Head(rsp[cur]) = Response(cur, data) /\ data = Head(queue)
      BY DEF ResponseMatchesRequest
    <2>1. rsp[cur] = <<Response(cur, data)>>
      BY DEF ClientInv, OneInFlight, Connected, Ended
    <2>2. data = Head(queue)
      BY DEF ClientInv, MainLocals
    <2> QED
      BY <2>1, <2>2
  <1> QED
    BY <1>1, ClientInvariance, PTL

\* The client neither reconnects nor gives up more often than something has failed.
THEOREM FailuresAreAccounted == ClientSpec => []FailuresAccounted
  BY ClientInvariance, PTL DEF ClientInv

\* The items in the queue and the answers keep the order of the lines of the input.
THEOREM ClientKeepsInputOrder == ClientSpec => [](ScrapedInOrder /\ RecordsKept)
  BY ClientInvariance, PTL DEF ScraperInv
=============================================================================
