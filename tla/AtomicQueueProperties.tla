------------------------ MODULE AtomicQueueProperties ------------------------
(***************************************************************************)
(* What AtomicQueue promises its callers, stated over the state and the    *)
(* history variables of AtomicQueue.                                       *)
(*                                                                         *)
(* Two indices that share a slot may be in use at once: nothing in the     *)
(* code stops a push from storing, or a pop from loading, in a slot that   *)
(* an earlier pop has not cleared.  That event is recorded in lapped.  The *)
(* properties whose name ends in UntilLapped hold up to the first such     *)
(* event, for every mix of calls; the others do not depend on it.          *)
(***************************************************************************)
EXTENDS AtomicQueue

Labels == {"idle", "push_check", "push_cas", "store",
           "pop_check", "pop_cas", "wait", "clear", "panicked"}

\* Index i has been claimed by a push and its store is done.
Stored(i) ==
  /\ i \in DOMAIN claimed
  /\ \A p \in Threads : pc[p] = "store" => index[p] # i

\* Thread t is between its claim of index[t] and the end of its call.
PushClaims(t) == pc[t] = "store"
PopClaims(t) == pc[t] \in {"wait", "clear"}

\* The ranges of the variables: the slots hold words, every index below head
\* has one pushed element, and no pop returns for an index it never claimed.
TypeOK ==
  /\ head \in Nat
  /\ tail \in Nat
  /\ elements \in [0 .. (Capacity - 1) -> Elements \cup {Zero}]
  /\ pc \in [Threads -> Labels]
  /\ index \in [Threads -> Nat]
  /\ element \in [Threads -> Elements \cup {Zero}]
  /\ \A t \in Threads : pc[t] \in {"push_check", "push_cas"} => element[t] \in Elements
  /\ unsent \subseteq Elements
  /\ claimed \in [0 .. (head - 1) -> Elements \cup {Zero}]
  /\ DOMAIN delivered \subseteq 0 .. (tail - 1)
  /\ delivered \in [DOMAIN delivered -> Elements \cup {Zero}]
  /\ lapped \in BOOLEAN

(***************************************************************************)
(* Safety                                                                  *)
(***************************************************************************)

\* No two pushes in progress hold the same index, no two pops do, and no pop
\* holds an index another pop has already returned for, although try_push and
\* try_pop decide on counters they read several steps before they claim.
SoleClaim ==
  /\ \A p, q \in Threads :
       PushClaims(p) /\ PushClaims(q) /\ index[p] = index[q] => p = q
  /\ \A c, d \in Threads :
       PopClaims(c) /\ PopClaims(d) /\ index[c] = index[d] => c = d
  /\ \A c \in Threads : PopClaims(c) => index[c] \notin DOMAIN delivered

\* First in, first out across all threads: the pop that claims index i returns
\* the element whose push claimed index i, and no other.
InOrder ==
  \A i \in DOMAIN delivered : i \in DOMAIN claimed /\ delivered[i] = claimed[i]

\* Order holds for every mix of calls until a slot is used by two indices.
InOrderUntilLapped == ~lapped => InOrder

\* An element whose push has returned is in its slot until its own pop returns.
KeptUntilLapped ==
  ~lapped => \A i \in DOMAIN claimed :
    Stored(i) /\ i \notin DOMAIN delivered => elements[Slot(i)] = claimed[i]

\* A queue at least as large as its whole traffic keeps the order: as long as
\* neither counter has passed the capacity, slots are not shared at all.
InOrderWithinCapacity == head <= Capacity /\ tail <= Capacity => InOrder

\* The pending claims of threads that use only try_push and try_pop never
\* overfill or overdraw the queue, though each compares two counters it read
\* at different moments and claims at a third.
SizeWithinCapacity ==
  Calls \subseteq {"try_push", "try_pop"} => tail <= head /\ head - tail <= Capacity

(***************************************************************************)
(* Action properties                                                       *)
(***************************************************************************)

\* Thread t returns from a try_push (a try_pop) it has not claimed an index for.
PushRefused(p) == pc[p] \in {"push_check", "push_cas"} /\ pc'[p] = "idle"
PopRefused(c) == pc[c] \in {"pop_check", "pop_cas"} /\ pc'[c] = "idle"

\* "Returns true if the element was successfully pushed, false if the queue
\* was full" (common.rs:108): when try_push returns false the counters are
\* Capacity apart, or another push has moved head since the call read it, or
\* waiting pops have run tail past head and the difference wraps.
RefusedPushMeansFull ==
  [][\A p \in Producers : PushRefused(p) =>
       head - tail >= Capacity \/ index[p] < head \/ head < tail]_vars

\* "None if the queue was empty" (common.rs:113): when try_pop returns None no
\* claimed index is left, or another pop has moved tail since the call read it.
RefusedPopMeansEmpty ==
  [][\A c \in Consumers : PopRefused(c) => head <= tail \/ index[c] < tail]_vars

\* There is one producer thread (one consumer thread).
OneProducer == \A p, q \in Producers : p = q
OneConsumer == \A c, d \in Consumers : c = d

\* For a sole producer, and no blocking pop, false means full and nothing else.
SoleRefusedPushMeansFull ==
  [][OneProducer /\ "pop" \notin Calls =>
       \A p \in Producers : PushRefused(p) => head - tail >= Capacity]_vars

\* For a sole consumer None means empty and nothing else.
SoleRefusedPopMeansEmpty ==
  [][OneConsumer => \A c \in Consumers : PopRefused(c) => head <= tail]_vars

(***************************************************************************)
(* Refinement                                                              *)
(***************************************************************************)

\* The values of f from i up to j - 1, in order
Span(f, i, j) == [n \in 1 .. (j - i) |-> f[i + n - 1]]

\* Threads that use only try_push and try_pop agree on one first-in first-out
\* queue of at most Capacity elements, whatever they read before: an element
\* enters it in the step in which its try_push moves head, and leaves it in the
\* step in which a try_pop moves tail.  (What that try_pop then finds in the slot
\* is the element up to the first lap, which InOrderUntilLapped says.)
Claims == INSTANCE BoundedFifo
            WITH Values <- Elements, Bound <- Capacity,
                 queue <- Span(claimed, tail, head), output <- Span(claimed, 0, tail)

ClaimsImplementFifo == Claims!Spec

(***************************************************************************)
(* Liveness                                                                *)
(***************************************************************************)

\* Thread t holds index i: its push has yet to store, or its pop to clear.
Holds(t, i) == (PushClaims(t) \/ PopClaims(t)) /\ index[t] = i

\* When the threads in Suspended may stop anywhere, for ever: once a push and a
\* pop have both claimed index i, the pop returns, unless a suspended thread
\* holds that very index, or its element is the word that marks a vacant slot,
\* or a slot has been shared.  So a producer that stops between its claim and
\* its store, or whose store panics, blocks the pop of its own index and no
\* other.  Indices at or above Horizon are not looked at.
ServedUntilLapped(Horizon, Suspended) ==
  \A i \in 0 .. (Horizon - 1) :
    (i < head /\ i < tail /\ claimed[i] # Zero)
      ~> (i \in DOMAIN delivered \/ lapped \/ \E t \in Suspended : Holds(t, i))

(***************************************************************************)
(* What the documentation says and the code does not do                    *)
(***************************************************************************)

\* An element whose push has returned is in a slot, in the hands of a pop that
\* has loaded it, or returned.
NoElementLost ==
  \A i \in DOMAIN claimed : Stored(i) /\ claimed[i] # Zero =>
    \/ \E s \in DOMAIN elements : elements[s] = claimed[i]
    \/ \E c \in Consumers : pc[c] = "clear" /\ element[c] = claimed[i]
    \/ \E j \in DOMAIN delivered : delivered[j] = claimed[i]
=============================================================================
