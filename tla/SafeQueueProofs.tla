--------------------------- MODULE SafeQueueProofs ---------------------------
(***************************************************************************)
(* The queue, for any number of items and of cells: its methods exclude    *)
(* each other, nobody writes to an item that is being copied, and the      *)
(* methods are the atomic steps of AtomicQueue.                            *)
(***************************************************************************)
EXTENDS SafeQueue, TLAPS

\* The mutex belongs to the thread that is inside a method, and to no other.
Exclusion == \A t \in Threads : at[t] \in {"inside", "halfway", "unlock"} <=> owner = t

Distinct == \A i, j \in DOMAIN contents : contents[i] = contents[j] => i = j

\* Where the threads are says what they know of the queue: what the main thread has
\* found in it stays there, and what the scraper thread fills is not in it yet.
Knowledge ==
    /\ doing \in {"copying", "send"} => at["main"] = "away"
    /\ doing = "copy" => at["main"] \in {"away", "unlock"}
    /\ at["main"] = "halfway" => doing = "pop"
    /\ doing # "empty" => contents # <<>>
    /\ doing \in {"copy", "copying", "send", "pop"} => ref = contents[1]
    /\ at["scraper"] \in {"lock", "inside", "halfway"} => pushed < MaxPushes
    /\ at["scraper"] = "halfway" => \A i \in DOMAIN contents : contents[i] # cell

\* Every item in the queue is whole, but the one that pop() is destroying, and the main
\* thread has it as it is.
Whole ==
    /\ \A i \in DOMAIN contents : memory[contents[i]] \in Values \/ (Popping /\ i = 1)
    /\ doing = "copying" => copied = memory[ref]
    /\ doing \in {"send", "pop"} /\ ~Popping => seen = memory[contents[1]]
    /\ doing \notin {"send", "pop"} => seen = 0

\* The inductive invariant.
QueueInv == SafeQueueTypeOK /\ Exclusion /\ Distinct /\ Knowledge /\ Whole

-----------------------------------------------------------------------------
LEMMA InitInv == SafeQueueInit => QueueInv
  <1> SUFFICES ASSUME SafeQueueInit PROVE QueueInv
    OBVIOUS
  <1>1. SafeQueueTypeOK
    BY QueueAssumption DEF SafeQueueInit, SafeQueueTypeOK, Values, Methods
  <1>2. Exclusion
    BY DEF SafeQueueInit, Exclusion, Threads
  <1>3. Distinct
    BY DEF SafeQueueInit, Distinct
  <1>4. Knowledge
    BY DEF SafeQueueInit, Knowledge, Threads
  <1>5. Whole
    BY DEF SafeQueueInit, Whole
  <1> QED
    BY <1>1, <1>2, <1>3, <1>4, <1>5 DEF QueueInv

\* Taking and releasing the mutex leaves the container alone.
LEMMA LockingInv ==
    ASSUME QueueInv, NEW t \in Threads, Call(t) \/ Lock(t) \/ Unlock(t)
    PROVE  QueueInv'
  <1> USE DEF QueueInv, Threads
  <1>1. /\ UNCHANGED <<contents, memory, pushed, cell, doing, ref, copied, seen>>
        /\ at \in [Threads -> {"away", "lock", "inside", "halfway", "unlock"}]
    BY DEF Call, Lock, Unlock, mainLocals, SafeQueueTypeOK
  <1>2. \A u \in Threads : at'[u] = "halfway" <=> at[u] = "halfway"
    BY <1>1 DEF Call, Lock, Unlock
  <1>3. SafeQueueTypeOK'
    BY <1>1 DEF Call, Lock, Unlock, SafeQueueTypeOK
  <1>4. Exclusion'
    BY <1>1 DEF Call, Lock, Unlock, Exclusion, SafeQueueTypeOK
  <1>5. Distinct'
    BY <1>1 DEF Distinct
  <1>6. Knowledge'
    BY <1>1, <1>2 DEF Call, Lock, Unlock, Knowledge, Methods
  <1>7. Whole'
    BY <1>1, <1>2 DEF Whole, Popping
  <1> QED
    BY <1>3, <1>4, <1>5, <1>6, <1>7

\* push() writes to a cell that is not in the queue, and links it last.
LEMMA PushInv == ASSUME QueueInv, PushBegins \/ PushEnds PROVE QueueInv'
  <1> USE DEF QueueInv, Threads
  <1>1. /\ UNCHANGED <<owner, doing, ref, copied, seen>>
        /\ at \in [Threads -> {"away", "lock", "inside", "halfway", "unlock"}]
        /\ contents \in Seq(Cells) /\ at["main"] \notin {"inside", "halfway", "unlock"}
        /\ owner = "scraper" /\ pushed < MaxPushes /\ pushed \in Nat /\ MaxPushes \in Nat
    BY QueueAssumption
       DEF PushBegins, PushEnds, mainLocals, SafeQueueTypeOK, Exclusion, Knowledge
  <1>2. ~Popping /\ ~Popping' /\ at'["main"] = at["main"]
    BY <1>1 DEF Popping, PushBegins, PushEnds
  <1>3. CASE PushBegins
    <2>1. /\ cell' \in Cells /\ \A i \in DOMAIN contents : contents[i] # cell'
          /\ memory' = [memory EXCEPT ![cell'] = Garbage]
          /\ UNCHANGED <<contents, pushed>>
          /\ at' = [at EXCEPT !["scraper"] = "halfway"]
      BY <1>3 DEF PushBegins, Range
    <2>2. \A i \in DOMAIN contents : memory'[contents'[i]] = memory[contents[i]]
      BY <1>1, <2>1 DEF SafeQueueTypeOK
    <2>3. SafeQueueTypeOK'
      BY <1>1, <2>1 DEF SafeQueueTypeOK
    <2>4. Exclusion' /\ Distinct'
      BY <1>1, <1>3, <2>1 DEF Exclusion, Distinct, PushBegins
    <2>5. Knowledge'
      BY <1>1, <1>2, <2>1 DEF Knowledge
    <2>6. Whole'
      BY <1>1, <1>2, <2>1, <2>2 DEF Whole, Knowledge
    <2> QED
      BY <2>3, <2>4, <2>5, <2>6
  <1>4. CASE PushEnds
    <2>1. /\ cell \in Cells /\ \A i \in DOMAIN contents : contents[i] # cell
          /\ pushed' = pushed + 1 /\ pushed' \in Values /\ cell' = cell
          /\ memory' = [memory EXCEPT ![cell] = pushed']
          /\ contents' = Append(contents, cell)
          /\ at' = [at EXCEPT !["scraper"] = "unlock"]
      BY <1>1, <1>4 DEF PushEnds, Knowledge, SafeQueueTypeOK, Values
    <2>2. /\ contents' \in Seq(Cells) /\ contents' # <<>>
          /\ DOMAIN contents' = DOMAIN contents \cup {Len(contents) + 1}
          /\ \A i \in DOMAIN contents : i # Len(contents) + 1 /\ contents'[i] = contents[i]
          /\ contents'[Len(contents) + 1] = cell
          /\ contents # <<>> => 1 \in DOMAIN contents
      BY <1>1, <2>1
    <2>3. /\ \A i \in DOMAIN contents : memory'[contents'[i]] = memory[contents[i]]
          /\ memory'[contents'[Len(contents) + 1]] = pushed'
      BY <1>1, <2>1, <2>2 DEF SafeQueueTypeOK
    <2>4. SafeQueueTypeOK'
      BY <1>1, <2>1, <2>2 DEF SafeQueueTypeOK
    <2>5. Exclusion'
      BY <1>1, <1>4, <2>1 DEF Exclusion, PushEnds
    <2>6. Distinct'
      BY <2>1, <2>2 DEF Distinct
    <2>7. Knowledge'
      BY <1>1, <1>2, <2>1, <2>2 DEF Knowledge
    <2>8. Whole'
      BY <1>1, <1>2, <2>1, <2>2, <2>3 DEF Whole, Knowledge
    <2> QED
      BY <2>4, <2>5, <2>6, <2>7, <2>8
  <1> QED
    BY <1>3, <1>4

\* The main thread asks, takes a reference, and copies: it writes to no item.
LEMMA LookInv ==
    ASSUME QueueInv, Empty \/ Front \/ CopyBegins \/ CopyEnds \/ Sent PROVE QueueInv'
  <1> USE DEF QueueInv, Threads
  <1>1. /\ UNCHANGED <<owner, contents, memory, pushed, cell>>
        /\ at \in [Threads -> {"away", "lock", "inside", "halfway", "unlock"}]
        /\ contents \in Seq(Cells) /\ at'["scraper"] = at["scraper"]
        /\ contents # <<>> => 1 \in DOMAIN contents /\ contents[1] \in Cells
        /\ ~Popping /\ ~Popping'
    BY DEF Empty, Front, CopyBegins, CopyEnds, Sent, Within, Returns, SafeQueueTypeOK,
           Popping, Knowledge
  <1>2. Garbage \notin Values /\ 0 \notin Values
    BY QueueAssumption DEF Values
  <1>3. SafeQueueTypeOK'
    BY <1>1, <1>2 DEF Empty, Front, CopyBegins, CopyEnds, Sent, Within, Returns, SafeQueueTypeOK,
                      Methods, Knowledge, Whole
  <1>4. Exclusion' /\ Distinct'
    BY <1>1 DEF Empty, Front, CopyBegins, CopyEnds, Sent, Within, Returns, Exclusion, Distinct,
                Knowledge
  <1>5. Knowledge'
    BY <1>1 DEF Empty, Front, CopyBegins, CopyEnds, Sent, Within, Returns, Knowledge
  <1>6. Whole'
    BY <1>1, <1>2 DEF Empty, Front, CopyBegins, CopyEnds, Sent, Within, Returns, Whole, Knowledge
  <1> QED
    BY <1>3, <1>4, <1>5, <1>6

\* pop() destroys the item in front, and unlinks it.
LEMMA PopInv == ASSUME QueueInv, PopBegins \/ PopEnds PROVE QueueInv'
  <1> USE DEF QueueInv, Threads
  <1>1. /\ UNCHANGED <<owner, pushed, cell, ref, copied>>
        /\ at \in [Threads -> {"away", "lock", "inside", "halfway", "unlock"}]
        /\ contents \in Seq(Cells) /\ contents # <<>> /\ doing = "pop"
        /\ 1 \in DOMAIN contents /\ contents[1] \in Cells
        /\ owner = "main" /\ at["scraper"] \notin {"inside", "halfway", "unlock"}
    BY DEF PopBegins, PopEnds, mainLocals, SafeQueueTypeOK, Exclusion, Knowledge, Within
  <1>2. CASE PopBegins
    <2>1. /\ memory' = [memory EXCEPT ![contents[1]] = Garbage]
          /\ at' = [at EXCEPT !["main"] = "halfway"]
          /\ UNCHANGED <<contents, doing, seen>>
      BY <1>1, <1>2 DEF PopBegins, mainLocals
    <2>2. \A i \in DOMAIN contents : i # 1 => memory'[contents'[i]] = memory[contents[i]]
      BY <1>1, <2>1 DEF Distinct, SafeQueueTypeOK
    <2>3. SafeQueueTypeOK'
      BY <1>1, <2>1 DEF SafeQueueTypeOK
    <2>4. Exclusion' /\ Distinct'
      BY <1>1, <2>1 DEF Exclusion, Distinct
    <2>5. Knowledge'
      BY <1>1, <2>1 DEF Knowledge
    <2>6. Whole'
      <3>1. Popping' /\ ~Popping
        BY <1>1, <1>2, <2>1 DEF Popping, PopBegins, Within
      <3> QED
        BY <1>1, <2>1, <2>2, <3>1 DEF Whole
    <2> QED
      BY <2>3, <2>4, <2>5, <2>6
  <1>3. CASE PopEnds
    <2>1. /\ contents' = Tail(contents) /\ memory' = memory /\ seen' = 0 /\ doing' = "empty"
          /\ at' = [at EXCEPT !["main"] = "unlock"] /\ at["main"] = "halfway"
      BY <1>1, <1>3 DEF PopEnds, Returns
    <2>2. /\ contents' \in Seq(Cells)
          /\ \A i \in DOMAIN contents' :
                i + 1 \in DOMAIN contents /\ i + 1 # 1 /\ contents'[i] = contents[i + 1]
          /\ \A i, j \in DOMAIN contents' : i + 1 = j + 1 => i = j
      BY <1>1, <2>1
    <2>3. SafeQueueTypeOK'
      BY <1>1, <2>1, <2>2 DEF SafeQueueTypeOK, Methods
    <2>4. Exclusion'
      BY <1>1, <2>1 DEF Exclusion
    <2>5. Distinct'
      BY <2>2 DEF Distinct
    <2>6. Knowledge'
      BY <1>1, <2>1, <2>2 DEF Knowledge
    <2>7. Whole'
      BY <1>1, <2>1, <2>2 DEF Whole, Popping
    <2> QED
      BY <2>3, <2>4, <2>5, <2>6, <2>7
  <1> QED
    BY <1>2, <1>3

LEMMA NextInv == QueueInv /\ [SafeQueueNext]_queueVars => QueueInv'
  <1> SUFFICES ASSUME QueueInv, [SafeQueueNext]_queueVars PROVE QueueInv'
    OBVIOUS
  <1>1. CASE \E t \in Threads : Call(t) \/ Lock(t) \/ Unlock(t)
    BY <1>1, LockingInv
  <1>2. CASE PushBegins \/ PushEnds
    BY <1>2, PushInv
  <1>3. CASE Empty \/ Front \/ CopyBegins \/ CopyEnds \/ Sent
    BY <1>3, LookInv
  <1>4. CASE PopBegins \/ PopEnds
    BY <1>4, PopInv
  <1>5. CASE UNCHANGED queueVars
    BY <1>5 DEF queueVars, mainLocals, QueueInv, SafeQueueTypeOK, Exclusion, Distinct, Knowledge,
                Whole, Popping
  <1> QED
    BY <1>1, <1>2, <1>3, <1>4, <1>5 DEF SafeQueueNext, PushStep, ListenStep, Threads

-----------------------------------------------------------------------------
\* The inductive invariant holds, however the calls of the two threads interleave.
THEOREM QueueInvariance == SafeQueueSpec => []QueueInv
  BY InitInv, NextInv, PTL DEF SafeQueueSpec

\* The variables of the queue and of its callers keep their types.
THEOREM QueueTypeCorrect == SafeQueueSpec => []SafeQueueTypeOK
  <1>1. QueueInv => SafeQueueTypeOK
    BY DEF QueueInv
  <1> QED
    BY <1>1, QueueInvariance, PTL

\* Two threads are never inside the container at once, and an item that is copied
\* through a reference, outside of the mutex, is whole and in front while it is.
THEOREM NoRace == SafeQueueSpec => []NoDataRace
  <1>1. QueueInv => NoDataRace
    <2> SUFFICES ASSUME QueueInv PROVE NoDataRace
      OBVIOUS
    <2>1. \A t \in Threads : at[t] \in {"inside", "halfway", "unlock"} => owner = t
      BY DEF QueueInv, Exclusion
    <2>2. \A c \in Reading : /\ contents # <<>> /\ c = Head(contents)
                             /\ c \notin Writing("scraper") /\ memory[c] # Garbage
      <3> SUFFICES ASSUME doing \in {"copy", "copying"}
                   PROVE  /\ contents # <<>> /\ ref = Head(contents)
                          /\ ref \notin Writing("scraper") /\ memory[ref] # Garbage
        BY DEF Reading
      <3>1. contents # <<>> /\ contents \in Seq(Cells) /\ ref = contents[1] /\ ~Popping
        BY DEF QueueInv, Knowledge, SafeQueueTypeOK, Popping
      <3>2. 1 \in DOMAIN contents /\ Head(contents) = contents[1]
        BY <3>1
      <3>3. ref \notin Writing("scraper")
        BY <3>1, <3>2 DEF Writing, QueueInv, Knowledge
      <3>4. memory[ref] # Garbage
        BY <3>1, <3>2, QueueAssumption DEF QueueInv, Whole, Values
      <3> QED
        BY <3>1, <3>2, <3>3, <3>4
    <2>3. \A i, j \in DOMAIN contents : contents[i] = contents[j] => i = j
      BY DEF QueueInv, Distinct
    <2> QED
      BY <2>1, <2>2, <2>3 DEF NoDataRace
  <1> QED
    BY <1>1, QueueInvariance, PTL

-----------------------------------------------------------------------------
(* The methods are atomic to their callers.                                *)

\* What the queue holds, as a sequence of items.
Shown == [i \in DOMAIN Linked |-> memory[Linked[i]]]
ShownSeen == IF Popping THEN 0 ELSE seen

\* A step after which the same cells hold the same items changes nothing that is shown.
LEMMA SameShown ==
    ASSUME Linked' = Linked, \A i \in DOMAIN Linked : memory'[Linked[i]] = memory[Linked[i]]
    PROVE  Shown' = Shown
  BY DEF Shown

\* Linking a new cell pushes the item in it.
LEMMA PushRefines == ASSUME QueueInv, PushBegins \/ PushEnds PROVE [Atomic!Next]_<<Shown, ShownSeen>>
  <1> USE DEF QueueInv, Threads
  <1>1. /\ ~Popping /\ ~Popping' /\ seen' = seen /\ contents \in Seq(Cells)
        /\ Linked = contents /\ Linked' = contents' /\ memory \in [Cells -> Values \cup {Garbage}]
    BY DEF PushBegins, PushEnds, mainLocals, SafeQueueTypeOK, Exclusion, Popping, Linked
  <1>2. CASE PushBegins
    <2>1. /\ cell' \in Cells /\ \A i \in DOMAIN contents : contents[i] # cell'
          /\ memory' = [memory EXCEPT ![cell'] = Garbage] /\ contents' = contents
      BY <1>2 DEF PushBegins, Range
    <2>2. \A i \in DOMAIN contents : memory'[contents[i]] = memory[contents[i]]
      BY <1>1, <2>1
    <2> QED
      BY <1>1, <2>1, <2>2, SameShown DEF ShownSeen
  <1>3. CASE PushEnds
    <2>1. /\ cell \in Cells /\ \A i \in DOMAIN contents : contents[i] # cell
          /\ pushed' \in Values
          /\ memory' = [memory EXCEPT ![cell] = pushed'] /\ contents' = Append(contents, cell)
      BY <1>3, QueueAssumption DEF PushEnds, Knowledge, SafeQueueTypeOK, Values
    <2>2. /\ DOMAIN contents = 1..Len(contents) /\ Len(contents) \in Nat
          /\ DOMAIN contents' = 1..Len(contents) + 1
          /\ \A i \in 1..Len(contents) : contents'[i] = contents[i] /\ contents[i] \in Cells
          /\ contents'[Len(contents) + 1] = cell
      BY <1>1, <2>1
    <2>3. /\ Shown = [i \in 1..Len(contents) |-> memory[contents[i]]]
          /\ Shown' = [i \in 1..Len(contents) + 1 |-> memory'[contents'[i]]]
      BY <1>1, <2>2 DEF Shown
    <2>4. \A i \in 1..Len(contents) + 1 :
            memory'[contents'[i]] = IF i = Len(contents) + 1 THEN pushed' ELSE memory[contents[i]]
      BY <1>1, <2>1, <2>2
    <2>5. Shown \in Seq(Values \cup {Garbage}) /\ Len(Shown) = Len(contents)
      BY <1>1, <2>2, <2>3
    <2>6. Shown' = Append(Shown, pushed')
      BY <2>1, <2>2, <2>3, <2>4, <2>5
    <2> QED
      BY <1>1, <2>1, <2>6 DEF ShownSeen, Atomic!Next, Atomic!Push, Shown
  <1> QED
    BY <1>2, <1>3

\* Copying takes the item in front; an item that was not answered is released.
LEMMA LookRefines ==
    ASSUME QueueInv, Empty \/ Front \/ CopyBegins \/ CopyEnds \/ Sent
    PROVE  [Atomic!Next]_<<Shown, ShownSeen>>
  <1> USE DEF QueueInv, Threads
  <1>1. /\ ~Popping /\ ~Popping' /\ contents \in Seq(Cells) /\ UNCHANGED <<contents, memory>>
        /\ Linked = contents /\ Shown = [i \in DOMAIN contents |-> memory[contents[i]]]
    BY DEF Empty, Front, CopyBegins, CopyEnds, Sent, Within, Returns, SafeQueueTypeOK, Popping,
           Knowledge, Linked, Shown
  <1>2. Shown' = Shown
    BY <1>1, SameShown DEF Linked
  <1>3. CASE CopyEnds
    <2>1. /\ contents # <<>> /\ ref = contents[1] /\ seen = 0 /\ seen' = memory[ref]
      BY <1>3 DEF CopyEnds, Knowledge, Whole
    <2>2. 1 \in DOMAIN contents /\ DOMAIN contents = 1..Len(contents) /\ Len(contents) \in Nat
      BY <1>1, <2>1
    <2>3. Shown # <<>> /\ Head(Shown) = memory[contents[1]]
      BY <1>1, <2>2
    <2> QED
      BY <1>1, <1>2, <2>1, <2>3 DEF Atomic!Next, Atomic!Take, ShownSeen, Shown
  <1>4. CASE Sent
    BY <1>1, <1>2, <1>4 DEF Sent, ShownSeen, Atomic!Next, Atomic!Release, Shown
  <1>5. CASE Empty \/ Front \/ CopyBegins
    BY <1>1, <1>2, <1>5 DEF Empty, Front, CopyBegins, ShownSeen
  <1> QED
    BY <1>3, <1>4, <1>5

\* For its caller, an item has been popped when its destruction begins.
LEMMA PopRefines == ASSUME QueueInv, PopBegins \/ PopEnds PROVE [Atomic!Next]_<<Shown, ShownSeen>>
  <1> USE DEF QueueInv, Threads
  <1>1. /\ contents \in Seq(Cells) /\ contents # <<>> /\ doing = "pop"
        /\ memory \in [Cells -> Values \cup {Garbage}]
    BY DEF PopBegins, PopEnds, Within, SafeQueueTypeOK, Knowledge
  <1>2. /\ Len(contents) \in Nat \ {0} /\ DOMAIN contents = 1..Len(contents)
        /\ \A i \in 1..Len(contents) : contents[i] \in Cells
        /\ Head(contents) = contents[1]
        /\ DOMAIN Tail(contents) = 1..Len(contents) - 1
        /\ \A i \in 1..Len(contents) - 1 : Tail(contents)[i] = contents[i + 1]
    BY <1>1
  <1>3. CASE PopBegins
    <2>1. /\ ~Popping /\ Popping' /\ seen' = seen /\ contents' = contents
          /\ memory' = [memory EXCEPT ![contents[1]] = Garbage]
          /\ seen = memory[contents[1]]
      BY <1>1, <1>2, <1>3 DEF PopBegins, Popping, Within, SafeQueueTypeOK, mainLocals, Whole
    <2>2. /\ Shown = [i \in 1..Len(contents) |-> memory[contents[i]]]
          /\ Shown' = [i \in 1..Len(contents) - 1 |-> memory'[contents[i + 1]]]
      BY <1>2, <2>1 DEF Shown, Linked
    <2>3. \A i \in 1..Len(contents) - 1 : memory'[contents[i + 1]] = memory[contents[i + 1]]
      BY <1>1, <1>2, <2>1 DEF Distinct
    <2>4. Shown \in Seq(Values \cup {Garbage}) /\ Len(Shown) = Len(contents)
      BY <1>1, <1>2, <2>2
    <2>5. Shown # <<>> /\ Head(Shown) = seen /\ Shown' = Tail(Shown)
      BY <1>2, <2>1, <2>2, <2>3, <2>4
    <2> QED
      BY <2>1, <2>5 DEF ShownSeen, Atomic!Next, Atomic!Pop, Shown
  <1>4. CASE PopEnds
    <2>1. /\ Popping /\ ~Popping' /\ contents' = Tail(contents) /\ memory' = memory /\ seen' = 0
      BY <1>4 DEF PopEnds, Returns, Popping, SafeQueueTypeOK
    <2>2. Shown' = Shown
      BY <2>1, SameShown DEF Linked
    <2> QED
      BY <2>1, <2>2 DEF ShownSeen
  <1> QED
    BY <1>3, <1>4

LEMMA StepRefines ==
    ASSUME QueueInv, [SafeQueueNext]_queueVars PROVE [Atomic!Next]_<<Shown, ShownSeen>>
  <1>1. CASE \E t \in Threads : Call(t) \/ Lock(t) \/ Unlock(t)
    <2>1. /\ UNCHANGED <<contents, memory, seen>> /\ Popping' = Popping
      BY <1>1 DEF Call, Lock, Unlock, mainLocals, Popping, QueueInv, SafeQueueTypeOK, Threads
    <2>2. Shown' = Shown
      BY <2>1, SameShown DEF Linked
    <2> QED
      BY <2>1, <2>2 DEF ShownSeen
  <1>2. CASE UNCHANGED queueVars
    <2>1. /\ UNCHANGED <<contents, memory, seen>> /\ Popping' = Popping
      BY <1>2 DEF queueVars, mainLocals, Popping
    <2>2. Shown' = Shown
      BY <2>1, SameShown DEF Linked
    <2> QED
      BY <2>1, <2>2 DEF ShownSeen
  <1>3. CASE PushBegins \/ PushEnds
    BY <1>3, PushRefines
  <1>4. CASE Empty \/ Front \/ CopyBegins \/ CopyEnds \/ Sent
    BY <1>4, LookRefines
  <1>5. CASE PopBegins \/ PopEnds
    BY <1>5, PopRefines
  <1> QED
    BY <1>1, <1>2, <1>3, <1>4, <1>5 DEF SafeQueueNext, PushStep, ListenStep, Threads

\* Every step of a method is a step of AtomicQueue or none: what listen() takes is the
\* oldest item, whole, and what it pops is the item it took.
THEOREM QueueIsAtomic == SafeQueueSpec => ImplementsAtomicQueue
  <1>1. SafeQueueInit => Atomic!Init
    BY DEF SafeQueueInit, Atomic!Init, Linked, Popping, Threads
  <1>2. QueueInv /\ [SafeQueueNext]_queueVars => [Atomic!Next]_<<Shown, ShownSeen>>
    BY StepRefines
  <1> QED
    BY <1>1, <1>2, QueueInvariance, PTL
       DEF SafeQueueSpec, ImplementsAtomicQueue, Atomic!Spec, Shown, ShownSeen
=============================================================================
