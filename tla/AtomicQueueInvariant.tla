------------------------ MODULE AtomicQueueInvariant -------------------------
(***************************************************************************)
(* The inductive invariants behind the safety properties of AtomicQueue.   *)
(* TLC checks them on small instances and AtomicQueueProofs proves them.   *)
(***************************************************************************)
EXTENDS AtomicQueueProperties

\* A push in progress stores the element it claimed its index for, and a pop in
\* progress holds an index below tail.
ClaimsRecorded ==
  /\ \A p \in Threads : PushClaims(p) =>
       index[p] \in DOMAIN claimed /\ element[p] = claimed[index[p]]
  /\ \A c \in Threads : PopClaims(c) => index[c] \in 0 .. (tail - 1)

\* The slots while no slot has been shared: (1) a pop returned what was stored
\* for its index; (2) once index i is stored, every earlier index of its slot is
\* done with; (3) a stored element stays in its slot until its pop returns;
\* (4) a nonzero slot holds such an element; (5) a pop about to clear its slot
\* has loaded the element stored for its index.
SlotsFaithful ==
  /\ \A i \in DOMAIN delivered : Stored(i) /\ delivered[i] = claimed[i]
  /\ \A i \in DOMAIN claimed : Stored(i) => ~Laps(i)
  /\ \A i \in DOMAIN claimed :
       Stored(i) /\ i \notin DOMAIN delivered => elements[Slot(i)] = claimed[i]
  /\ \A s \in DOMAIN elements : elements[s] # Zero =>
       \E i \in DOMAIN claimed :
         Stored(i) /\ i \notin DOMAIN delivered /\ Slot(i) = s
  /\ \A c \in Threads : pc[c] = "clear" =>
       Stored(index[c]) /\ element[c] = claimed[index[c]]

\* The inductive invariant: the slots are faithful as long as no slot has been
\* used by two indices at once, whatever calls the threads make.
IInv ==
  /\ TypeOK
  /\ SoleClaim
  /\ ClaimsRecorded
  /\ ~lapped => SlotsFaithful

\* Sharing a slot takes an index of at least Capacity.
LapNeedsFullTurn == lapped => head > Capacity \/ tail > Capacity

\* A counter that a call has read is never ahead of the counter.
LocalsBehind ==
  \A t \in Threads :
    /\ pc[t] \in {"push_check", "push_cas"} => index[t] <= head
    /\ pc[t] \in {"pop_check", "pop_cas"} => index[t] <= tail

\* A sole producer's head, and a sole consumer's tail, is never stale; and tail
\* stays behind head as long as nobody calls pop.
LocalsFresh ==
  /\ OneProducer =>
       \A p \in Producers : pc[p] \in {"push_check", "push_cas"} => index[p] = head
  /\ OneConsumer =>
       \A c \in Consumers : pc[c] \in {"pop_check", "pop_cas"} => index[c] = tail
  /\ "pop" \notin Calls =>
       /\ tail <= head
       /\ \A t \in Threads : pc[t] = "pop_check" => index[t] <= tail
       /\ \A t \in Threads : pc[t] = "pop_cas" => index[t] < head

\* The counters when threads use only try_push and try_pop: what each local
\* index still says of the counters between the loads and the claim.
CountersFaithful ==
  Calls \subseteq {"try_push", "try_pop"} =>
    /\ tail <= head
    /\ head - tail <= Capacity
    /\ \A t \in Threads :
         /\ pc[t] = "push_check" => index[t] <= head
         /\ pc[t] = "push_cas" => index[t] - tail < Capacity
         /\ pc[t] = "pop_check" => index[t] <= tail
         /\ pc[t] = "pop_cas" => index[t] < head
=============================================================================
