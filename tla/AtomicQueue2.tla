----------------------------- MODULE AtomicQueue2 ----------------------------
(***************************************************************************)
(* AtomicQueue2<T, SIZE, .., TOTAL_ORDER, SPSC>, the ring buffer of        *)
(* elements of any type (src/src/atomic_queue2.rs).  AtomicQueueB2 runs    *)
(* the same operations.                                                    *)
(*                                                                         *)
(* Beside the array of elements it keeps an array of slot states.  A call  *)
(* claims an index as in AtomicQueue and then waits for the state it needs *)
(* of the slot.  What follows depends on SPSC: with it, the state changes  *)
(* after the element has been copied; without it, a compare_exchange       *)
(* changes the state first, and the copy is an unsynchronised access.      *)
(***************************************************************************)
EXTENDS Integers, Sequences

CONSTANTS
  Producers,       \* threads that push
  Consumers,       \* threads that pop
  Elements,        \* the elements to push, each pushed at most once
  Uninit,          \* what an element slot holds before the first write
  Torn,            \* what two unsynchronised accesses to a slot may yield
  Capacity,        \* the capacity field
  Calls,           \* the operations the threads use
  TotalOrder,      \* the parameter TOTAL_ORDER
  SPSC,            \* the parameter SPSC
  OverflowChecks   \* TRUE for a build that panics on integer overflow

Threads == Producers \cup Consumers

AllCalls == {"push", "pop", "try_push", "try_pop"}

ASSUME Queue2Assumption ==
  /\ Capacity \in Nat \ {0}
  /\ Calls \subseteq AllCalls
  /\ TotalOrder \in BOOLEAN /\ SPSC \in BOOLEAN /\ OverflowChecks \in BOOLEAN
  /\ Uninit \notin Elements /\ Torn \notin Elements

\* A client that sets SPSC has one producer thread and one consumer thread.
ASSUME SingleAssumption ==
  SPSC => /\ \A p, q \in Producers : p = q
          /\ \A c, d \in Consumers : c = d
          /\ Producers \cap Consumers = {}

VARIABLES
  head,       \* common.head
  tail,       \* common.tail
  states,     \* the state of each slot
  elements,   \* the memory of each slot; a pop copies it and leaves it
  pc,         \* where each thread is in its call
  index,      \* each thread's local head (push) or tail (pop)
  element,    \* each thread's argument (push) or value read (pop)
  \* History variables: no step of the code depends on them.
  unsent,     \* the elements no call has taken yet
  sent,       \* the elements whose push has claimed an index, in that order
  received,   \* what the pops returned, in that order
  dropped     \* what drop destroyed

vars == <<head, tail, states, elements, pc, index, element,
          unsent, sent, received, dropped>>

\* get_slot.  The remapping of slots is a permutation (see Geometry), and a
\* permutation of the slots changes nothing here.
Slot(i) == i % Capacity

\* try_push's size >= capacity, where size wraps once tail has passed head.
LooksFull(h) == h < tail \/ h - tail >= Capacity

Goto(t, label) == pc' = [pc EXCEPT ![t] = label]

\* Thread t leaves its call; its locals are dead and are reset.
Leave(t, label) ==
  /\ Goto(t, label)
  /\ index' = [index EXCEPT ![t] = 0]
  /\ element' = [element EXCEPT ![t] = Uninit]

Init ==
  /\ head = 0
  /\ tail = 0
  /\ states = [s \in 0 .. (Capacity - 1) |-> "EMPTY"]
  /\ elements = [s \in 0 .. (Capacity - 1) |-> Uninit]
  /\ pc = [t \in Threads |-> "idle"]
  /\ index = [t \in Threads |-> 0]
  /\ element = [t \in Threads |-> Uninit]
  /\ unsent = Elements
  /\ sent = <<>>
  /\ received = <<>>
  /\ dropped = {}

(***************************************************************************)
(* Producers                                                               *)
(***************************************************************************)

\* A call's argument is one of the elements that are still to be pushed.
Draw(v) == v \in unsent /\ unsent' = unsent \ {v}

\* try_push: the load of head.
CallTryPush(p) ==
  /\ "try_push" \in Calls
  /\ pc[p] = "idle"
  /\ \E v \in unsent : Draw(v) /\ element' = [element EXCEPT ![p] = v]
  /\ index' = [index EXCEPT ![p] = head]
  /\ Goto(p, "push_check")
  /\ UNCHANGED <<head, tail, states, elements, sent, received, dropped>>

\* try_push returns false: the argument goes out of scope with the call, and a
\* caller that wants to retry offers a clone of it.
RefusePush(p) ==
  /\ unsent' = unsent \cup {element[p]}
  /\ Leave(p, "idle")
  /\ UNCHANGED <<head, tail, states, elements, sent, received, dropped>>

\* try_push: the load of tail and the test against the capacity.
TryPushCheck(p) ==
  /\ pc[p] = "push_check"
  /\ \/ /\ ~LooksFull(index[p])
        /\ Goto(p, "push_claim")
        /\ UNCHANGED <<head, tail, states, elements, index, element,
                       unsent, sent, received, dropped>>
     \/ /\ LooksFull(index[p])
        /\ ~(OverflowChecks /\ index[p] < tail)
        /\ RefusePush(p)
     \/ /\ OverflowChecks /\ index[p] < tail
        /\ Leave(p, "panicked")
        /\ UNCHANGED <<head, tail, states, elements, unsent, sent, received, dropped>>

\* Producer p advances head for v.
ClaimHead(p, v) ==
  /\ head' = head + 1
  /\ sent' = Append(sent, v)
  /\ Goto(p, "offer")
  /\ UNCHANGED <<tail, states, elements, received, dropped>>

\* A weakening of the claim: head is advanced without comparing it.
TryPushClaimBlind(p) ==
  /\ pc[p] = "push_claim"
  /\ ClaimHead(p, element[p])
  /\ UNCHANGED <<index, element, unsent>>

\* try_push: with TOTAL_ORDER, the compare_exchange of head; without it, a
\* fetch_add whose result is not used: the slot is that of the head read first.
TryPushClaim(p) ==
  /\ pc[p] = "push_claim"
  /\ \/ /\ TotalOrder => head = index[p]
        /\ ClaimHead(p, element[p])
        /\ UNCHANGED <<index, element, unsent>>
     \/ /\ TotalOrder /\ head # index[p]
        /\ RefusePush(p)

\* push of v: fetch_add on head.
PushOf(p, v) ==
  /\ "push" \in Calls
  /\ pc[p] = "idle"
  /\ element' = [element EXCEPT ![p] = v]
  /\ index' = [index EXCEPT ![p] = head]
  /\ ClaimHead(p, v)

Push(p) == \E v \in unsent : Draw(v) /\ PushOf(p, v)

\* A weakening of the wait: the slot's state is not looked at.
AwaitNothing(p) ==
  /\ pc[p] = "offer"
  /\ states' = IF SPSC THEN states ELSE [states EXCEPT ![Slot(index[p])] = "FULL"]
  /\ Goto(p, "write")
  /\ UNCHANGED <<head, tail, elements, index, element, unsent, sent, received, dropped>>

\* do_push_any: the load (SPSC) or compare_exchange that ends the wait for an
\* empty slot.  The compare_exchange marks the slot full at once.
AwaitEmpty(p) ==
  /\ pc[p] = "offer"
  /\ states[Slot(index[p])] = "EMPTY"
  /\ states' = IF SPSC THEN states ELSE [states EXCEPT ![Slot(index[p])] = "FULL"]
  /\ Goto(p, "write")
  /\ UNCHANGED <<head, tail, elements, index, element, unsent, sent, received, dropped>>

\* Another thread is at its own write of the slot that t accesses.
Contended(t) ==
  \E p \in Producers \ {t} : pc[p] = "write" /\ Slot(index[p]) = Slot(index[t])

\* do_push_any: ptr::write.  Two writes at once may leave a mixture.
Write(p) ==
  /\ pc[p] = "write"
  /\ \E v \in {element[p]} \cup (IF Contended(p) THEN {Torn} ELSE {}) :
       elements' = [elements EXCEPT ![Slot(index[p])] = v]
  /\ IF SPSC
     THEN Goto(p, "publish") /\ UNCHANGED <<index, element>>
     ELSE Leave(p, "idle")
  /\ UNCHANGED <<head, tail, states, unsent, sent, received, dropped>>

\* do_push_any with SPSC: the store of FULL.
Publish(p) ==
  /\ pc[p] = "publish"
  /\ states' = [states EXCEPT ![Slot(index[p])] = "FULL"]
  /\ Leave(p, "idle")
  /\ UNCHANGED <<head, tail, elements, unsent, sent, received, dropped>>

(***************************************************************************)
(* Consumers                                                               *)
(***************************************************************************)

\* try_pop: the load of tail.
CallTryPop(c) ==
  /\ "try_pop" \in Calls
  /\ pc[c] = "idle"
  /\ index' = [index EXCEPT ![c] = tail]
  /\ Goto(c, "pop_check")
  /\ UNCHANGED <<head, tail, states, elements, element,
                 unsent, sent, received, dropped>>

\* try_pop returns None.
RefusePop(c) ==
  /\ Leave(c, "idle")
  /\ UNCHANGED <<head, tail, states, elements, unsent, sent, received, dropped>>

\* try_pop: the load of head and the test for an empty queue.
TryPopCheck(c) ==
  /\ pc[c] = "pop_check"
  /\ \/ /\ index[c] = head
        /\ RefusePop(c)
     \/ /\ index[c] # head
        /\ Goto(c, "pop_claim")
        /\ UNCHANGED <<head, tail, states, elements, index, element,
                       unsent, sent, received, dropped>>

\* A weakening of the claim: tail is read but not advanced.
ClaimTailStuck(c) ==
  /\ Goto(c, "wait")
  /\ UNCHANGED <<head, tail, states, elements, element, unsent, sent, received, dropped>>

\* Consumer c advances tail.
ClaimTail(c) ==
  /\ tail' = tail + 1
  /\ Goto(c, "wait")
  /\ UNCHANGED <<head, states, elements, element, unsent, sent, received, dropped>>

\* A weakening of the claim: tail is advanced without comparing it.
TryPopClaimBlind(c) ==
  /\ pc[c] = "pop_claim"
  /\ ClaimTail(c)
  /\ UNCHANGED index

\* An off-by-one: the slot is that of the tail after the fetch_add.
TryPopClaimLate(c) ==
  /\ pc[c] = "pop_claim"
  /\ ClaimTail(c)
  /\ index' = [index EXCEPT ![c] = tail + 1]

\* try_pop: with TOTAL_ORDER, the compare_exchange of tail; without it, a
\* fetch_add whose result is not used.
TryPopClaim(c) ==
  /\ pc[c] = "pop_claim"
  /\ \/ /\ TotalOrder => tail = index[c]
        /\ ClaimTail(c)
        /\ UNCHANGED index
     \/ /\ TotalOrder /\ tail # index[c]
        /\ RefusePop(c)

\* pop: fetch_add on tail.
Pop(c) ==
  /\ "pop" \in Calls
  /\ pc[c] = "idle"
  /\ index' = [index EXCEPT ![c] = tail]
  /\ ClaimTail(c)

\* A weakening of the wait: the slot's state is set without being looked at.
AwaitAnything(c) ==
  /\ pc[c] = "wait"
  /\ states' = IF SPSC THEN states ELSE [states EXCEPT ![Slot(index[c])] = "EMPTY"]
  /\ Goto(c, "read")
  /\ UNCHANGED <<head, tail, elements, index, element, unsent, sent, received, dropped>>

\* A weakening of the wait: a plain load in place of the compare_exchange.
AwaitFullByLoad(c) ==
  /\ pc[c] = "wait"
  /\ states[Slot(index[c])] = "FULL"
  /\ Goto(c, "read")
  /\ UNCHANGED <<head, tail, states, elements, index, element,
                 unsent, sent, received, dropped>>

\* do_pop_any: the load (SPSC) or compare_exchange that ends the wait for a
\* full slot.  The compare_exchange marks the slot empty at once.
AwaitFull(c) ==
  /\ pc[c] = "wait"
  /\ states[Slot(index[c])] = "FULL"
  /\ states' = IF SPSC THEN states ELSE [states EXCEPT ![Slot(index[c])] = "EMPTY"]
  /\ Goto(c, "read")
  /\ UNCHANGED <<head, tail, elements, index, element, unsent, sent, received, dropped>>

\* do_pop_any: ptr::read, and without SPSC the return.  A read during a write
\* may see a mixture.
Read(c) ==
  /\ pc[c] = "read"
  /\ \E v \in {elements[Slot(index[c])]} \cup (IF Contended(c) THEN {Torn} ELSE {}) :
       IF SPSC
       THEN /\ Goto(c, "release")
            /\ element' = [element EXCEPT ![c] = v]
            /\ UNCHANGED <<index, received>>
       ELSE Leave(c, "idle") /\ received' = Append(received, v)
  /\ UNCHANGED <<head, tail, states, elements, unsent, sent, dropped>>

\* A weakening of the release: the slot stays full.
ReleaseNothing(c) ==
  /\ pc[c] = "release"
  /\ received' = Append(received, element[c])
  /\ Leave(c, "idle")
  /\ UNCHANGED <<head, tail, states, elements, unsent, sent, dropped>>

\* do_pop_any with SPSC: the store of EMPTY, and the return.
Release(c) ==
  /\ pc[c] = "release"
  /\ states' = [states EXCEPT ![Slot(index[c])] = "EMPTY"]
  /\ received' = Append(received, element[c])
  /\ Leave(c, "idle")
  /\ UNCHANGED <<head, tail, elements, unsent, sent, dropped>>

(***************************************************************************)
(* The end of the queue, and the specification                             *)
(***************************************************************************)

\* drop destroys what the full slots hold.  It needs exclusive access, so no
\* call is in progress and none starts afterwards.
Drop ==
  /\ \A t \in Threads : pc[t] \in {"idle", "panicked"}
  /\ dropped' = {elements[s] : s \in {x \in DOMAIN states : states[x] = "FULL"}}
  /\ pc' = [t \in Threads |-> "gone"]
  /\ UNCHANGED <<head, tail, states, elements, index, element, unsent, sent, received>>

PushCall(p) == CallTryPush(p) \/ Push(p)
PushStep(p) ==
  TryPushCheck(p) \/ TryPushClaim(p) \/ AwaitEmpty(p) \/ Write(p) \/ Publish(p)
PopCall(c) == CallTryPop(c) \/ Pop(c)
PopStep(c) ==
  TryPopCheck(c) \/ TryPopClaim(c) \/ AwaitFull(c) \/ Read(c) \/ Release(c)

Next ==
  \/ \E p \in Producers : PushCall(p) \/ PushStep(p)
  \/ \E c \in Consumers : PopCall(c) \/ PopStep(c)
  \/ Drop

Spec == Init /\ [][Next]_vars

\* A call in progress goes on: the scheduler runs every thread that can take a
\* step.  Nothing makes a thread start a call.
Fairness ==
  /\ \A p \in Producers : WF_vars(PushStep(p))
  /\ \A c \in Consumers : WF_vars(PopStep(c))

FairSpec == Spec /\ Fairness
=============================================================================
