-------------------------- MODULE RelaxedCounters ---------------------------
(***************************************************************************)
(* try_push and try_pop of AtomicQueue on a machine with a weak memory.    *)
(* The code loads head and tail with the ordering X (Relaxed), so a load   *)
(* may return any value the counter has had since the last one this thread *)
(* read or wrote.  A compare_exchange that succeeds acts on the counter's  *)
(* last value.  The slots are as in AtomicQueue.  That a thread which      *)
(* loads an element also learns what the thread that stored it had read is *)
(* left out, so the loads here return at least every value they can.       *)
(***************************************************************************)
EXTENDS AtomicQueueProperties, FiniteSets

ASSUME ThreadsAssumption == IsFiniteSet(Consumers)

VARIABLES
  view,      \* the last value of each counter that each thread has read or written
  poppers    \* history: the consumers that have claimed an index

relaxed == <<view, poppers>>
allVars == <<vars, relaxed>>

RelaxedInit ==
  /\ Init
  /\ view = [t \in Threads |-> [head |-> 0, tail |-> 0]]
  /\ poppers = {}

\* What a relaxed load may return to thread t.
HeadLoads(t) == view[t].head .. head
TailLoads(t) == view[t].tail .. tail

SeesHead(t, h) == view' = [view EXCEPT ![t].head = h]
SeesTail(t, i) == view' = [view EXCEPT ![t].tail = i]

(***************************************************************************)
(* try_push                                                                *)
(***************************************************************************)

LoadHeadToPush(p) ==
  /\ \E h \in HeadLoads(p) : CallTryPushAt(p, h) /\ SeesHead(p, h)
  /\ UNCHANGED poppers

LoadTailToPush(p) ==
  /\ \E i \in TailLoads(p) : TryPushCheckAt(p, i) /\ SeesTail(p, i)
  /\ UNCHANGED poppers

ClaimToPush(p) ==
  /\ TryPushClaim(p)
  /\ IF head' # head THEN SeesHead(p, head') ELSE UNCHANGED view
  /\ UNCHANGED poppers

(***************************************************************************)
(* try_pop                                                                 *)
(***************************************************************************)

LoadTailToPop(c) ==
  /\ \E i \in TailLoads(c) : CallTryPopAt(c, i) /\ SeesTail(c, i)
  /\ UNCHANGED poppers

LoadHeadToPop(c) ==
  /\ \E h \in HeadLoads(c) : TryPopCheckAt(c, h) /\ SeesHead(c, h)
  /\ UNCHANGED poppers

ClaimToPop(c) ==
  /\ TryPopClaim(c)
  /\ IF tail' # tail
     THEN SeesTail(c, tail') /\ poppers' = poppers \cup {c}
     ELSE UNCHANGED relaxed

(***************************************************************************)
(* The specification                                                       *)
(***************************************************************************)

SlotStep ==
  /\ \/ \E p \in Producers : Store(p)
     \/ \E c \in Consumers : Take(c) \/ Clear(c)
  /\ UNCHANGED relaxed

RelaxedNext ==
  \/ \E p \in Producers : LoadHeadToPush(p) \/ LoadTailToPush(p) \/ ClaimToPush(p)
  \/ \E c \in Consumers : LoadTailToPop(c) \/ LoadHeadToPop(c) \/ ClaimToPop(c)
  \/ SlotStep

RelaxedSpec == RelaxedInit /\ [][RelaxedNext]_allVars

(***************************************************************************)
(* Properties                                                              *)
(***************************************************************************)

\* However stale the counters a try_push has read, it never claims an index
\* more than Capacity ahead of tail: an old tail only makes the queue look
\* fuller, and an old head fails the compare_exchange.
NeverOverfull == head - tail <= Capacity

\* As long as no second consumer has claimed, the first claims no index that no push
\* has: tail is its own, and the head it saw is at least that.
SolePopperNeverOverdraws == (\A c, d \in poppers : c = d) => tail <= head

\* With more consumers tail may pass head, since a new tail and an old head are
\* not equal, and once it has every try_pop claims.  But each index it is ahead
\* by holds up the consumer that claimed it, so the excess is never more than
\* the number of consumers, until a slot is shared.
OverdraftHeldUntilLapped ==
  ~lapped =>
    /\ \A i \in head .. (tail - 1) : \E c \in Consumers : pc[c] = "wait" /\ index[c] = i
    /\ tail - head <= Cardinality(Consumers)
=============================================================================
