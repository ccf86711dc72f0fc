----------------------------- MODULE AtomicQueue -----------------------------
(***************************************************************************)
(* AtomicQueue<T, SIZE>, the ring buffer of word-sized elements            *)
(* (src/src/atomic_queue.rs), shared by any number of producer and         *)
(* consumer threads.  AtomicQueueB runs the same four operations.          *)
(*                                                                         *)
(* A step is one atomic memory operation of the code together with the     *)
(* local computation up to the next one.  A push claims an index by        *)
(* advancing head and then stores into the index's slot; a pop claims an   *)
(* index by advancing tail and then waits for the slot to become nonzero.  *)
(* Claiming and touching the slot are separate steps, and nothing in the   *)
(* code makes a claim wait for the previous user of the slot.              *)
(***************************************************************************)
EXTENDS Integers

CONSTANTS
  Producers,       \* threads that push
  Consumers,       \* threads that pop; a thread may be both
  Elements,        \* the elements to push, each pushed at most once
  Zero,            \* T::default(), the word that marks a vacant slot
  Capacity,        \* the capacity field: SIZE rounded up to a power of two
  Calls,           \* the operations the threads use
  OverflowChecks   \* TRUE for a build that panics on integer overflow

Threads == Producers \cup Consumers

AllCalls == {"push", "pop", "try_push", "try_pop"}

ASSUME QueueAssumption ==
  /\ Capacity \in Nat \ {0}
  /\ Calls \subseteq AllCalls
  /\ OverflowChecks \in BOOLEAN

\* The slot mask of get_element is a remainder only for a power of two.
ASSUME PowerOfTwoAssumption == \E k \in 0 .. 63 : Capacity = 2^k

VARIABLES
  head,       \* common.head: the next index a push claims
  tail,       \* common.tail: the next index a pop claims
  elements,   \* the slots
  pc,         \* where each thread is in its call
  index,      \* each thread's local head (push) or tail (pop)
  element,    \* each thread's argument (push) or current (pop)
  \* History variables: no step of the code depends on them.
  unsent,     \* the elements no call has taken yet
  claimed,    \* claimed[i]: the element whose push claimed index i
  delivered,  \* delivered[i]: what the pop that claimed index i returned
  lapped      \* has a thread touched a slot whose earlier pop was unfinished?

vars == <<head, tail, elements, pc, index, element,
          unsent, claimed, delivered, lapped>>

(***************************************************************************)
(* Helpers                                                                 *)
(***************************************************************************)

\* get_element: index & (capacity - 1)
Slot(i) == i % Capacity

\* A weakening of the test: one slot is always left free.
LooksFullEarly(h, t) == h < t \/ h - t >= Capacity - 1

\* try_push's test head - tail >= capacity on unsigned words: when another
\* thread has moved tail past the head h read before, the difference wraps to a
\* number near 2^64, and the queue looks full.
LooksFull(h, t) == h < t \/ h - t >= Capacity

\* f with i mapped to v
Extend(f, i, v) == [j \in DOMAIN f \cup {i} |-> IF j = i THEN v ELSE f[j]]

EmptyMap == [i \in {} |-> Zero]

\* Index i's slot still serves an index of an earlier lap.
Laps(i) == \E j \in 0 .. (i - 1) : Slot(j) = Slot(i) /\ j \notin DOMAIN delivered

Goto(t, label) == pc' = [pc EXCEPT ![t] = label]

\* Thread t leaves its call; its locals are dead and are reset.
Leave(t, label) ==
  /\ Goto(t, label)
  /\ index' = [index EXCEPT ![t] = 0]
  /\ element' = [element EXCEPT ![t] = Zero]

Init ==
  /\ head = 0
  /\ tail = 0
  /\ elements = [s \in 0 .. (Capacity - 1) |-> Zero]
  /\ pc = [t \in Threads |-> "idle"]
  /\ index = [t \in Threads |-> 0]
  /\ element = [t \in Threads |-> Zero]
  /\ unsent = Elements
  /\ claimed = EmptyMap
  /\ delivered = EmptyMap
  /\ lapped = FALSE

(***************************************************************************)
(* Producers                                                               *)
(***************************************************************************)

\* try_push: the load of head, which returns h.
CallTryPushAt(p, h) ==
  /\ "try_push" \in Calls
  /\ pc[p] = "idle"
  /\ \E v \in unsent :
       /\ unsent' = unsent \ {v}
       /\ element' = [element EXCEPT ![p] = v]
  /\ index' = [index EXCEPT ![p] = h]
  /\ Goto(p, "push_check")
  /\ UNCHANGED <<head, tail, elements, claimed, delivered, lapped>>

CallTryPush(p) == CallTryPushAt(p, head)

\* try_push returns false: the caller keeps the element and may offer it again.
RefusePush(p) ==
  /\ unsent' = unsent \cup {element[p]}
  /\ Leave(p, "idle")
  /\ UNCHANGED <<head, tail, elements, claimed, delivered, lapped>>

\* try_push: the load of tail, which returns t, and the test for a full queue.
TryPushCheckAt(p, t) ==
  /\ pc[p] = "push_check"
  /\ \/ /\ ~LooksFull(index[p], t)
        /\ Goto(p, "push_cas")
        /\ UNCHANGED <<head, tail, elements, index, element,
                       unsent, claimed, delivered, lapped>>
     \/ /\ LooksFull(index[p], t)
        /\ ~(OverflowChecks /\ index[p] < t)
        /\ RefusePush(p)
     \/ /\ OverflowChecks /\ index[p] < t
        /\ Leave(p, "panicked")
        /\ UNCHANGED <<head, tail, elements, unsent, claimed, delivered, lapped>>

TryPushCheck(p) == TryPushCheckAt(p, tail)

\* Producer p claims index head for v.
ClaimHead(p, v) ==
  /\ head' = head + 1
  /\ claimed' = Extend(claimed, head, v)
  /\ Goto(p, "store")
  /\ UNCHANGED <<tail, elements, delivered, lapped>>

\* A weakening of the claim: the index is taken without comparing head.
TryPushClaimBlind(p) ==
  /\ pc[p] = "push_cas"
  /\ ClaimHead(p, element[p])
  /\ UNCHANGED <<index, element, unsent>>

\* try_push: the compare_exchange of head.
TryPushClaim(p) ==
  /\ pc[p] = "push_cas"
  /\ \/ /\ head = index[p]
        /\ ClaimHead(p, element[p])
        /\ UNCHANGED <<index, element, unsent>>
     \/ /\ head # index[p]
        /\ RefusePush(p)

\* push of v: fetch_add on head, whatever the queue holds.
PushOf(p, v) ==
  /\ "push" \in Calls
  /\ pc[p] = "idle"
  /\ element' = [element EXCEPT ![p] = v]
  /\ index' = [index EXCEPT ![p] = head]
  /\ ClaimHead(p, v)

Push(p) == \E v \in unsent : unsent' = unsent \ {v} /\ PushOf(p, v)

\* A weakening of the store: its slot is that of a fresh load of head.
StoreAtHead(p) ==
  /\ pc[p] = "store"
  /\ elements' = [elements EXCEPT ![Slot(head)] = element[p]]
  /\ lapped' = (lapped \/ Laps(index[p]))
  /\ Leave(p, "idle")
  /\ UNCHANGED <<head, tail, unsent, claimed, delivered>>

\* A slip: the call returns without the store, as if an error in it were ignored.
StoreNothing(p) ==
  /\ pc[p] = "store"
  /\ Leave(p, "idle")
  /\ UNCHANGED <<head, tail, elements, unsent, claimed, delivered, lapped>>

\* The store that ends push and try_push.  It overwrites what the slot holds.
Store(p) ==
  /\ pc[p] = "store"
  /\ elements' = [elements EXCEPT ![Slot(index[p])] = element[p]]
  /\ lapped' = (lapped \/ Laps(index[p]))
  /\ Leave(p, "idle")
  /\ UNCHANGED <<head, tail, unsent, claimed, delivered>>

(***************************************************************************)
(* Consumers                                                               *)
(***************************************************************************)

\* try_pop: the load of tail, which returns t.
CallTryPopAt(c, t) ==
  /\ "try_pop" \in Calls
  /\ pc[c] = "idle"
  /\ index' = [index EXCEPT ![c] = t]
  /\ Goto(c, "pop_check")
  /\ UNCHANGED <<head, tail, elements, element,
                 unsent, claimed, delivered, lapped>>

CallTryPop(c) == CallTryPopAt(c, tail)

\* try_pop returns None.
RefusePop(c) ==
  /\ Leave(c, "idle")
  /\ UNCHANGED <<head, tail, elements, unsent, claimed, delivered, lapped>>

\* A slip in the test: the queue passes for empty only once tail is past head.
TryPopCheckPastAt(c, h) ==
  /\ pc[c] = "pop_check"
  /\ \/ /\ index[c] > h
        /\ RefusePop(c)
     \/ /\ index[c] <= h
        /\ Goto(c, "pop_cas")
        /\ UNCHANGED <<head, tail, elements, index, element,
                       unsent, claimed, delivered, lapped>>

\* try_pop: the load of head, which returns h, and the test for an empty queue.
TryPopCheckAt(c, h) ==
  /\ pc[c] = "pop_check"
  /\ \/ /\ index[c] = h
        /\ RefusePop(c)
     \/ /\ index[c] # h
        /\ Goto(c, "pop_cas")
        /\ UNCHANGED <<head, tail, elements, index, element,
                       unsent, claimed, delivered, lapped>>

TryPopCheck(c) == TryPopCheckAt(c, head)

\* A weakening of the claim: tail is read but not advanced.
ClaimTailStuck(c) ==
  /\ Goto(c, "wait")
  /\ UNCHANGED <<head, tail, elements, element, unsent, claimed, delivered, lapped>>

\* Consumer c claims index tail.
ClaimTail(c) ==
  /\ tail' = tail + 1
  /\ Goto(c, "wait")
  /\ UNCHANGED <<head, elements, element, unsent, claimed, delivered, lapped>>

\* A weakening of the claim: the index is taken without comparing tail.
TryPopClaimBlind(c) ==
  /\ pc[c] = "pop_cas"
  /\ ClaimTail(c)
  /\ UNCHANGED index

\* A weakening of the claim: compare_exchange_weak, which may fail for no reason.
TryPopClaimWeak(c) ==
  /\ pc[c] = "pop_cas"
  /\ \/ /\ tail = index[c]
        /\ ClaimTail(c)
        /\ UNCHANGED index
     \/ RefusePop(c)

\* try_pop: the compare_exchange of tail.
TryPopClaim(c) ==
  /\ pc[c] = "pop_cas"
  /\ \/ /\ tail = index[c]
        /\ ClaimTail(c)
        /\ UNCHANGED index
     \/ /\ tail # index[c]
        /\ RefusePop(c)

\* pop: fetch_add on tail, whatever the queue holds.
Pop(c) ==
  /\ "pop" \in Calls
  /\ pc[c] = "idle"
  /\ index' = [index EXCEPT ![c] = tail]
  /\ ClaimTail(c)

\* The load that ends the spin loop; a load of Zero spins and changes nothing.
Take(c) ==
  /\ pc[c] = "wait"
  /\ elements[Slot(index[c])] # Zero
  /\ element' = [element EXCEPT ![c] = elements[Slot(index[c])]]
  /\ lapped' = (lapped \/ Laps(index[c]))
  /\ Goto(c, "clear")
  /\ UNCHANGED <<head, tail, elements, index, unsent, claimed, delivered>>

\* A weakening of the last step: the slot is not reset.
KeepSlot(c) ==
  /\ pc[c] = "clear"
  /\ delivered' = Extend(delivered, index[c], element[c])
  /\ Leave(c, "idle")
  /\ UNCHANGED <<head, tail, elements, unsent, claimed, lapped>>

\* The store of zero that ends pop and try_pop, and the return of the element.
Clear(c) ==
  /\ pc[c] = "clear"
  /\ elements' = [elements EXCEPT ![Slot(index[c])] = Zero]
  /\ delivered' = Extend(delivered, index[c], element[c])
  /\ Leave(c, "idle")
  /\ UNCHANGED <<head, tail, unsent, claimed, lapped>>

(***************************************************************************)
(* The specification                                                       *)
(***************************************************************************)

PushCall(p) == CallTryPush(p) \/ Push(p)
PushStep(p) == TryPushCheck(p) \/ TryPushClaim(p) \/ Store(p)
PopCall(c) == CallTryPop(c) \/ Pop(c)
PopStep(c) == TryPopCheck(c) \/ TryPopClaim(c) \/ Take(c) \/ Clear(c)

Next ==
  \/ \E p \in Producers : PushCall(p) \/ PushStep(p)
  \/ \E c \in Consumers : PopCall(c) \/ PopStep(c)

Spec == Init /\ [][Next]_vars

\* The threads of T go on with a call in progress: the scheduler runs each of
\* them when it can take a step.  Nothing makes a thread start a call.
FairnessOf(T) ==
  /\ \A p \in Producers \cap T : WF_vars(PushStep(p))
  /\ \A c \in Consumers \cap T : WF_vars(PopStep(c))

FairSpec == Spec /\ FairnessOf(Threads)
=============================================================================
