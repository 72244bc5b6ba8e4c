------------------------------ MODULE SafeQueue ------------------------------
(***************************************************************************)
(* safe_container::queue as the two threads of the client use it: the      *)
(* scraper thread pushes, the main thread calls empty(), front() and       *)
(* pop().  Each method holds the mutex from its first statement to its     *)
(* return, and the queue between calls belongs to nobody.  front() returns *)
(* a reference, so that listen() copies the item after the mutex has been  *)
(* released, while push() may be running.                                  *)
(*                                                                         *)
(* The std::deque below is a sequence of cells.  An item is constructed in *)
(* a free cell before it is linked, and destroyed before it is unlinked;   *)
(* pushing moves no item.  An item is more than a word: constructing,      *)
(* destroying and copying it take time, during which others may look.      *)
(***************************************************************************)
EXTENDS Naturals, Sequences, FiniteSets, Functions

CONSTANTS
    MaxPushes,  \* bound: the items pushed
    Cells,      \* the memory of the deque
    Garbage     \* what a cell holds that holds no item

ASSUME QueueAssumption ==
    /\ MaxPushes \in Nat
    /\ IsFiniteSet(Cells) /\ Cardinality(Cells) >= MaxPushes
    /\ Garbage \notin Nat

VARIABLES
    owner,      \* _lock: the thread that holds it, or "nobody"
    at,         \* at[t]: where thread t is with respect to the queue
    contents,   \* queue_impl_: the cells of its items, the front first
    memory,     \* memory[c]: the item in cell c, or Garbage
    pushed,     \* how many items have been pushed
    cell,       \* the cell that push() is filling
    doing,      \* what the main thread is doing, or about to call
    ref,        \* the reference that front() has returned: a cell
    copied,     \* what the main thread found there when it began to copy
    seen        \* data in listen(): the finished copy, 0 out of its scope

mainLocals == <<doing, ref, copied, seen>>
queueVars == <<owner, at, contents, memory, pushed, cell, mainLocals>>

Threads == {"scraper", "main"}
Values == 1..MaxPushes
Methods == {"empty", "front", "pop"}

SafeQueueInit ==
    /\ owner = "nobody"
    /\ at = [t \in Threads |-> "away"]
    /\ contents = <<>>
    /\ memory = [c \in Cells |-> Garbage]
    /\ pushed = 0
    /\ cell \in Cells
    /\ doing = "empty"
    /\ ref \in Cells
    /\ copied = 0
    /\ seen = 0

-----------------------------------------------------------------------------
(* std::lock_guard.                                                        *)

\* The scraper thread calls push() with an item, the main thread what is next for it.
Call(t) ==
    /\ at[t] = "away"
    /\ IF t = "main" THEN doing \in Methods ELSE pushed < MaxPushes
    /\ at' = [at EXCEPT ![t] = "lock"]
    /\ UNCHANGED <<owner, contents, memory, pushed, cell, mainLocals>>

\* Mutant of Lock: push() does without it.
Lock_NotForPush(t) ==
    /\ at[t] = "lock"
    /\ t = "main" => owner = "nobody"
    /\ owner' = t
    /\ at' = [at EXCEPT ![t] = "inside"]
    /\ UNCHANGED <<contents, memory, pushed, cell, mainLocals>>

Lock(t) ==
    /\ at[t] = "lock"
    /\ owner = "nobody"
    /\ owner' = t
    /\ at' = [at EXCEPT ![t] = "inside"]
    /\ UNCHANGED <<contents, memory, pushed, cell, mainLocals>>

\* Mutant of Unlock: the main thread waits for data with the mutex in its hands.
Unlock_Polling(t) ==
    /\ at[t] = "unlock"
    /\ IF t = "main" /\ doing = "empty"
       THEN owner' = owner /\ at' = [at EXCEPT ![t] = "inside"]
       ELSE owner' = "nobody" /\ at' = [at EXCEPT ![t] = "away"]
    /\ UNCHANGED <<contents, memory, pushed, cell, mainLocals>>

Unlock(t) ==
    /\ at[t] = "unlock"
    /\ owner' = "nobody"
    /\ at' = [at EXCEPT ![t] = "away"]
    /\ UNCHANGED <<contents, memory, pushed, cell, mainLocals>>

-----------------------------------------------------------------------------
(* The scraper thread: push().                                             *)

PushBegins ==
    /\ at["scraper"] = "inside"
    /\ cell' \in Cells \ Range(contents)
    /\ memory' = [memory EXCEPT ![cell'] = Garbage]
    /\ at' = [at EXCEPT !["scraper"] = "halfway"]
    /\ UNCHANGED <<owner, contents, pushed, mainLocals>>

\* Mutant of PushEnds: the container is a vector, and growing it moves its items.
PushEnds_Moves ==
    /\ at["scraper"] = "halfway"
    /\ pushed' = pushed + 1
    /\ IF contents = <<>>
       THEN /\ memory' = [memory EXCEPT ![cell] = pushed']
            /\ contents' = <<cell>>
       ELSE \E c \in Cells \ (Range(contents) \cup {cell}) :
            /\ memory' = [memory EXCEPT ![cell] = pushed', ![c] = memory[Head(contents)],
                                        ![Head(contents)] = Garbage]
            /\ contents' = <<c>> \o Tail(contents) \o <<cell>>
    /\ at' = [at EXCEPT !["scraper"] = "unlock"]
    /\ UNCHANGED <<owner, cell, mainLocals>>

PushEnds ==
    /\ at["scraper"] = "halfway"
    /\ pushed' = pushed + 1
    /\ memory' = [memory EXCEPT ![cell] = pushed']
    /\ contents' = Append(contents, cell)
    /\ at' = [at EXCEPT !["scraper"] = "unlock"]
    /\ UNCHANGED <<owner, cell, mainLocals>>

-----------------------------------------------------------------------------
(* The main thread: one turn of the loop of listen().                      *)

\* The body of the method that it has called and holds the mutex for.
Within(method) == at["main"] = "inside" /\ doing = method
Returns == at' = [at EXCEPT !["main"] = "unlock"]

\* Mutant of Empty: an item is only seen once there is another one behind it.
Empty_OffByOne ==
    /\ Within("empty")
    /\ doing' = IF Len(contents) <= 1 THEN "empty" ELSE "front"
    /\ Returns
    /\ UNCHANGED <<owner, contents, memory, pushed, cell, ref, copied, seen>>

\* if (!queue.empty()), and the same question in the condition of the loop.
Empty ==
    /\ Within("empty")
    /\ doing' = IF contents = <<>> THEN "empty" ELSE "front"
    /\ Returns
    /\ UNCHANGED <<owner, contents, memory, pushed, cell, ref, copied, seen>>

Front ==
    /\ Within("front")
    /\ ref' = Head(contents)
    /\ doing' = "copy"
    /\ Returns
    /\ UNCHANGED <<owner, contents, memory, pushed, cell, copied, seen>>

\* auto data = ..., through the reference, with the mutex released.
CopyBegins ==
    /\ doing = "copy" /\ at["main"] = "away"
    /\ copied' = memory[ref]
    /\ doing' = "copying"
    /\ UNCHANGED <<owner, at, contents, memory, pushed, cell, ref, seen>>

\* What has changed meanwhile leaves a mixture of two items, which is none.
CopyEnds ==
    /\ doing = "copying"
    /\ seen' = IF memory[ref] = copied THEN copied ELSE Garbage
    /\ doing' = "send"
    /\ UNCHANGED <<owner, at, contents, memory, pushed, cell, ref, copied>>

\* Mutant of Sent: the item is out of the queue whether or not it was answered.
Sent_Anyway ==
    /\ doing = "send"
    /\ doing' = "pop"
    /\ \/ UNCHANGED seen
       \/ seen' = 0
    /\ UNCHANGED <<owner, at, contents, memory, pushed, cell, ref, copied>>

\* The response has come, or the item stays in the queue for the next connection.
Sent ==
    /\ doing = "send"
    /\ \/ doing' = "pop" /\ UNCHANGED seen
       \/ doing' = "empty" /\ seen' = 0
    /\ UNCHANGED <<owner, at, contents, memory, pushed, cell, ref, copied>>

PopBegins ==
    /\ Within("pop")
    /\ memory' = [memory EXCEPT ![Head(contents)] = Garbage]
    /\ at' = [at EXCEPT !["main"] = "halfway"]
    /\ UNCHANGED <<owner, contents, pushed, cell, mainLocals>>

PopEnds ==
    /\ at["main"] = "halfway"
    /\ contents' = Tail(contents)
    /\ seen' = 0
    /\ doing' = "empty"
    /\ Returns
    /\ UNCHANGED <<owner, memory, pushed, cell, ref, copied>>

-----------------------------------------------------------------------------
PushStep == PushBegins \/ PushEnds \/ Unlock("scraper")

ListenStep ==
    \/ Call("main") \/ Unlock("main")
    \/ Empty \/ Front \/ CopyBegins \/ CopyEnds \/ Sent \/ PopBegins \/ PopEnds

SafeQueueNext ==
    \/ Call("scraper") \/ PushStep
    \/ ListenStep
    \/ \E t \in Threads : Lock(t)

\* Both threads run, and a mutex that stays free is obtained by a thread that waits for it.
\* std::mutex promises no more: a thread may release it and take it again and again with
\* the other one waiting all the time.  Nobody need push.
SafeQueueFairness ==
    /\ WF_queueVars(PushStep)
    /\ WF_queueVars(ListenStep)
    /\ \A t \in Threads : WF_queueVars(Lock(t))

SafeQueueSpec == SafeQueueInit /\ [][SafeQueueNext]_queueVars /\ SafeQueueFairness

-----------------------------------------------------------------------------
SafeQueueTypeOK ==
    /\ owner \in Threads \cup {"nobody"}
    /\ at \in [Threads -> {"away", "lock", "inside", "halfway", "unlock"}]
    /\ contents \in Seq(Cells)
    /\ memory \in [Cells -> Values \cup {Garbage}]
    /\ pushed \in 0..MaxPushes
    /\ cell \in Cells /\ ref \in Cells
    /\ doing \in Methods \cup {"copy", "copying", "send"}
    /\ copied \in Values \cup {0} /\ seen \in Values \cup {0}

\* The cells whose items a thread is constructing or destroying, and those the main
\* thread is about to read, or reading, through the reference it holds.
Writing(t) ==
    IF at[t] # "halfway" THEN {}
    ELSE IF t = "scraper" THEN {cell} ELSE {Head(contents)}
Reading == IF doing \in {"copy", "copying"} THEN {ref} ELSE {}

\* No two threads are inside the container; and the item that is copied outside of the
\* mutex is in the queue, at its front, and nobody writes to its cell meanwhile, though
\* items are pushed and cells used again.
NoDataRace ==
    /\ \A t \in Threads : at[t] \in {"inside", "halfway", "unlock"} => owner = t
    /\ \A c \in Reading : /\ contents # <<>> /\ c = Head(contents)
                          /\ c \notin Writing("scraper") /\ memory[c] # Garbage
    /\ \A i, j \in DOMAIN contents : contents[i] = contents[j] => i = j

Popping == at["main"] = "halfway"

\* The queue as a caller sees it: what pop() has begun to destroy is out of it.
Linked == IF Popping THEN Tail(contents) ELSE contents
Atomic == INSTANCE AtomicQueue
    WITH queue <- [i \in DOMAIN Linked |-> memory[Linked[i]]],
         seen <- IF Popping THEN 0 ELSE seen,
         NoValue <- 0

\* The methods, with their locks and with a reference used after the lock is released,
\* are the atomic steps of AtomicQueue: what is taken is the oldest item, whole, and
\* what is popped is the item that was taken, however pushes interleave.
ImplementsAtomicQueue == Atomic!Spec

\* The mutex is released over and over, by the main thread that polls too: whoever waits for
\* it is kept waiting only by the other's getting in first.  (The scraper thread may be kept
\* waiting so for ever: listen() polls without a pause.)
MutexReleased == []<>(owner = "nobody")

\* Each item that has been pushed is seen by listen(), in spite of the pushes that may get in
\* first, unless an earlier one is tried again and again.
EveryItemSeen ==
    \A v \in Values :
        <>(pushed >= v) => <>(seen = v) \/ \E w \in 1..(v - 1) : []<>(seen = w)
=============================================================================
