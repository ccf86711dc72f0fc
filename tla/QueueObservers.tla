--------------------------- MODULE QueueObservers ----------------------------
(***************************************************************************)
(* was_size, was_empty and was_full (src/src/common.rs), asked by threads  *)
(* of RelaxedCounters between their calls, while others push and pop.      *)
(* Both loads are Relaxed, so each may return an old value, and the tail   *)
(* returned may be older than the head.  To a thread that only asks, the   *)
(* answers mean nothing certain: was_full may say true of an empty queue.  *)
(* But a counter that only one thread moves is never old to that thread,   *)
(* which makes the answer err on the safe side.                            *)
(***************************************************************************)
EXTENDS RelaxedCounters

CONSTANT Observers   \* the threads that ask

ASSUME ObserversAssumption == Observers \subseteq Threads

Questions == {"was_size", "was_empty", "was_full"}

VARIABLES
  asking,    \* is each observer between the two loads of a question?
  told,      \* history: what the next call of each observer has been told to find
  pushers    \* history: the producers that have claimed an index

observers == <<asking, told, pushers>>
observedVars == <<allVars, observers>>

ObservedInit ==
  /\ RelaxedInit
  /\ asking = [o \in Observers |-> "nothing"]
  /\ told = [o \in Observers |-> "nothing"]
  /\ pushers = {}

\* Observer o's call ends, and with it what it has been told before.
Returns(o) == pc[o] # "idle" /\ pc'[o] = "idle"

\* A thread that has not got its answer makes no call.
QueueStep ==
  /\ RelaxedNext
  /\ \A o \in Observers : asking[o] # "nothing" => pc'[o] = pc[o]
  /\ told' = [o \in Observers |-> IF Returns(o) THEN "nothing" ELSE told[o]]
  /\ pushers' = pushers \cup {p \in Producers : pc[p] # "store" /\ pc'[p] = "store"}
  /\ UNCHANGED asking

\* The load of head, the first of every question.  What it returns is from then on
\* the asker's view of head.
LoadHead(o) ==
  /\ asking[o] = "nothing"
  /\ pc[o] = "idle"
  /\ asking' = [asking EXCEPT ![o] = "tail"]
  /\ \E h \in HeadLoads(o) : SeesHead(o, h)
  /\ UNCHANGED <<vars, poppers, told, pushers>>

\* A slip: the elements are counted with both ends.
SizeAnswerBothEnds(h, t) == h - t + 1

\* was_size of the head h and the tail t it has loaded.  Below zero the difference
\* wraps to a number near 2^64, or panics.
SizeAnswer(h, t) == h - t

\* A slip: the test is that of a queue that pops have overdrawn.
EmptyAnswerPast(h, t) == h < t

\* was_empty
EmptyAnswer(h, t) == h = t

\* A slip: the queue passes for full only beyond its capacity.
FullAnswerLate(h, t) == SizeAnswer(h, t) > Capacity

\* was_full
FullAnswer(h, t) == SizeAnswer(h, t) = Capacity

\* The subtraction of was_size, which was_full calls, underflows.
Underflows(q, h, t) == q \in {"was_size", "was_full"} /\ SizeAnswer(h, t) < 0

\* What the answer to q leaves the asker to count on in its next call: room for a
\* push if it is that the queue was not full, an element if it was not empty.
Promise(q, h, t) ==
  CASE q = "was_full" /\ ~FullAnswer(h, t) -> "room"
    [] q = "was_empty" /\ ~EmptyAnswer(h, t) -> "element"
    [] OTHER -> "nothing"

\* The load of tail, which returns t, and the answer to q.
AnswerAt(o, q, t) ==
  /\ SeesTail(o, t)
  /\ told' = [told EXCEPT ![o] = Promise(q, view[o].head, t)]
  /\ asking' = [asking EXCEPT ![o] =
       IF OverflowChecks /\ Underflows(q, view[o].head, t) THEN "panicked" ELSE "nothing"]

LoadTail(o) ==
  /\ asking[o] = "tail"
  /\ \E q \in Questions, t \in TailLoads(o) : AnswerAt(o, q, t)
  /\ UNCHANGED <<vars, poppers, pushers>>

ObservedNext ==
  \/ QueueStep
  \/ \E o \in Observers : LoadHead(o) \/ LoadTail(o)

ObservedSpec == ObservedInit /\ [][ObservedNext]_observedVars

(***************************************************************************)
(* Properties                                                              *)
(***************************************************************************)

\* No thread but o has claimed an index to push to (to pop from).
SolePusher(o) == pushers \subseteq {o}
SolePopper(o) == poppers \subseteq {o}

\* To the only thread that pushes, "not full" is a promise: its next try_push is
\* not refused, unless pops have overdrawn the queue and the difference wraps.
NotFullMeansRoom ==
  [][\A o \in Observers \cap Producers :
       told[o] = "room" /\ SolePusher(o) /\ PushRefused(o) => head < tail]_observedVars

\* To the only thread that pops, "not empty" is a promise: its next try_pop takes an
\* element.
NotEmptyMeansElement ==
  [][\A o \in Observers \cap Consumers :
       told[o] = "element" /\ SolePopper(o) => ~PopRefused(o)]_observedVars

\* In this step observer o gets its answer, or panics over it.
Answered(o) == asking[o] = "tail" /\ asking'[o] # "tail"

\* was_size errs on the side of the one who asks: to the only thread that pops it
\* never reports more than the queue holds, nor wraps below zero; to the only
\* thread that pushes it never reports less, nor more than the capacity.
SizeOnSafeSide ==
  [][\A o \in Observers : Answered(o) =>
       LET size == SizeAnswer(view[o].head, view'[o].tail) IN
         /\ SolePopper(o) => 0 <= size /\ size <= head - tail
         /\ SolePusher(o) => head - tail <= size /\ size <= Capacity]_observedVars
=============================================================================
