----------------------- MODULE RelaxedCountersProofs ------------------------
(***************************************************************************)
(* Proofs, for every number of threads and every capacity, of what is left *)
(* of the promises of try_push and try_pop when their loads may be stale.  *)
(***************************************************************************)
EXTENDS RelaxedCounters, AtomicQueueProofs, FiniteSetTheorems

(***************************************************************************)
(* The claims and the slots                                                *)
(***************************************************************************)

\* What a thread has seen of a counter is behind it.
ViewsBehind ==
  /\ view \in [Threads -> [head : Nat, tail : Nat]]
  /\ \A t \in Threads : view[t].head <= head /\ view[t].tail <= tail

LEMMA RelaxedIsLoose == TypeOK /\ ViewsBehind /\ [RelaxedNext]_allVars => [LooseNext]_vars
<1>. SUFFICES ASSUME TypeOK, ViewsBehind, [RelaxedNext]_allVars PROVE [LooseNext]_vars
  OBVIOUS
<1>0. \A t \in Threads : HeadLoads(t) \subseteq Nat /\ TailLoads(t) \subseteq Nat
  BY DEF TypeOK, ViewsBehind, HeadLoads, TailLoads
<1>1. ASSUME NEW p \in Producers,
             LoadHeadToPush(p) \/ LoadTailToPush(p) \/ ClaimToPush(p)
      PROVE  LooseNext
  BY <1>0, <1>1
     DEF LoadHeadToPush, LoadTailToPush, ClaimToPush, LooseNext, Threads
<1>2. ASSUME NEW c \in Consumers, LoadTailToPop(c) \/ LoadHeadToPop(c) \/ ClaimToPop(c)
      PROVE  LooseNext
  BY <1>0, <1>2 DEF LoadTailToPop, LoadHeadToPop, ClaimToPop, LooseNext, Threads
<1>3. CASE SlotStep
  BY <1>3 DEF SlotStep, LooseNext
<1>. QED
  BY <1>1, <1>2, <1>3 DEF RelaxedNext, allVars

\* The effect of each step on the counters and the views
LEMMA StepViewsBehind == TypeOK /\ ViewsBehind /\ [RelaxedNext]_allVars => ViewsBehind'
<1>. SUFFICES ASSUME TypeOK, ViewsBehind, [RelaxedNext]_allVars PROVE ViewsBehind'
  OBVIOUS
<1>0. head \in Nat /\ tail \in Nat
  BY DEF TypeOK
<1>. USE DEF ViewsBehind, HeadLoads, TailLoads, SeesHead, SeesTail, Threads
<1>1. ASSUME NEW p \in Producers, LoadHeadToPush(p) PROVE ViewsBehind'
  BY <1>0, <1>1 DEF LoadHeadToPush, CallTryPushAt
<1>2. ASSUME NEW p \in Producers, LoadTailToPush(p) PROVE ViewsBehind'
  BY <1>0, <1>2 DEF LoadTailToPush, TryPushCheckAt, RefusePush
<1>3. ASSUME NEW p \in Producers, ClaimToPush(p) PROVE ViewsBehind'
  BY <1>0, <1>3 DEF ClaimToPush, TryPushClaim, ClaimHead, RefusePush
<1>4. ASSUME NEW c \in Consumers, LoadTailToPop(c) PROVE ViewsBehind'
  BY <1>0, <1>4 DEF LoadTailToPop, CallTryPopAt
<1>5. ASSUME NEW c \in Consumers, LoadHeadToPop(c) PROVE ViewsBehind'
  BY <1>0, <1>5 DEF LoadHeadToPop, TryPopCheckAt, RefusePop
<1>6. ASSUME NEW c \in Consumers, ClaimToPop(c) PROVE ViewsBehind'
  BY <1>0, <1>6 DEF ClaimToPop, TryPopClaim, ClaimTail, RefusePop, relaxed
<1>7. CASE SlotStep
  BY <1>7 DEF SlotStep, Store, Take, Clear, relaxed
<1>8. CASE UNCHANGED allVars
  BY <1>8 DEF allVars, vars, relaxed
<1>. QED
  BY <1>1, <1>2, <1>3, <1>4, <1>5, <1>6, <1>7, <1>8 DEF RelaxedNext

\* The inductive invariant of AtomicQueue holds however stale the loads are: no
\* index has two owners, and order and retention hold until a slot is shared.
THEOREM RelaxedInvariance == RelaxedSpec => [](IInv /\ ViewsBehind)
<1>1. RelaxedInit => IInv /\ ViewsBehind
  BY InitTypeOK, InitClaimInv DEF RelaxedInit, IInv, ClaimInv, ViewsBehind, Init
<1>2. IInv /\ ViewsBehind /\ [RelaxedNext]_allVars => IInv' /\ ViewsBehind'
  BY RelaxedIsLoose, StepViewsBehind, LooseStep DEF IInv
<1>. QED
  BY <1>1, <1>2, PTL DEF RelaxedSpec

\* First in, first out until a slot is shared, however stale the counters that
\* try_push and try_pop have read.
THEOREM RelaxedFirstInFirstOut == RelaxedSpec => []InOrderUntilLapped
<1>1. IInv => InOrderUntilLapped
  BY DEF IInv, SlotsFaithful, InOrderUntilLapped, InOrder, Stored
<1>. QED
  BY <1>1, RelaxedInvariance, PTL

(***************************************************************************)
(* The counters                                                            *)
(***************************************************************************)

\* A push that has passed the test still has room when it claims.
RoomLeft ==
  /\ NeverOverfull
  /\ \A t \in Threads : pc[t] = "push_cas" => index[t] - tail < Capacity

LEMMA StepRoomLeft ==
  TypeOK /\ ViewsBehind /\ RoomLeft /\ [RelaxedNext]_allVars => RoomLeft'
<1>. SUFFICES ASSUME TypeOK, ViewsBehind, RoomLeft, [RelaxedNext]_allVars
              PROVE  RoomLeft'
  OBVIOUS
<1>0. /\ head \in Nat /\ tail \in Nat /\ Capacity \in Nat /\ index \in [Threads -> Nat]
      /\ pc \in [Threads -> Labels]
      /\ \A t \in Threads : view[t].tail \in Nat /\ view[t].tail <= tail
  BY QueueAssumption DEF TypeOK, ViewsBehind
<1>. USE DEF RoomLeft, NeverOverfull, Goto, Leave, Threads
<1>1. ASSUME NEW p \in Producers, LoadHeadToPush(p) PROVE RoomLeft'
  BY <1>0, <1>1 DEF LoadHeadToPush, CallTryPushAt
<1>2. ASSUME NEW p \in Producers, LoadTailToPush(p) PROVE RoomLeft'
  BY <1>0, <1>2 DEF LoadTailToPush, TryPushCheckAt, RefusePush, LooksFull, TailLoads
<1>3. ASSUME NEW p \in Producers, ClaimToPush(p) PROVE RoomLeft'
  BY <1>0, <1>3 DEF ClaimToPush, TryPushClaim, ClaimHead, RefusePush
<1>4. ASSUME NEW c \in Consumers, LoadTailToPop(c) PROVE RoomLeft'
  BY <1>0, <1>4 DEF LoadTailToPop, CallTryPopAt
<1>5. ASSUME NEW c \in Consumers, LoadHeadToPop(c) PROVE RoomLeft'
  BY <1>0, <1>5 DEF LoadHeadToPop, TryPopCheckAt, RefusePop
<1>6. ASSUME NEW c \in Consumers, ClaimToPop(c) PROVE RoomLeft'
  BY <1>0, <1>6 DEF ClaimToPop, TryPopClaim, ClaimTail, RefusePop
<1>7. CASE SlotStep
  BY <1>0, <1>7 DEF SlotStep, Store, Take, Clear
<1>8. CASE UNCHANGED allVars
  BY <1>8 DEF allVars, vars
<1>. QED
  BY <1>1, <1>2, <1>3, <1>4, <1>5, <1>6, <1>7, <1>8 DEF RelaxedNext

\* The queue is never overfull: try_push claims no index more than Capacity
\* ahead of tail, for any number of threads and however stale its loads.
THEOREM RelaxedNeverOverfull == RelaxedSpec => []NeverOverfull
<1>1. RelaxedInit => RoomLeft
  BY QueueAssumption DEF RelaxedInit, Init, RoomLeft, NeverOverfull
<1>2. RoomLeft => NeverOverfull
  BY DEF RoomLeft
<1>3. IInv => TypeOK
  BY DEF IInv
<1>. QED
  BY <1>1, <1>2, <1>3, RelaxedInvariance, StepRoomLeft, PTL DEF RelaxedSpec

\* The sole popper's view of tail is exact, and its view of head never behind it.
SoleView ==
  /\ poppers \subseteq Consumers
  /\ poppers = {} => tail = 0
  /\ \A c \in Consumers : poppers \subseteq {c} =>
       /\ view[c].tail = tail
       /\ tail <= view[c].head
       /\ pc[c] = "pop_check" => index[c] = tail
       /\ pc[c] = "pop_cas" => tail < view[c].head

LEMMA StepSoleView ==
  TypeOK /\ ViewsBehind /\ SoleView
    /\ [RelaxedNext]_allVars => SoleView'
<1>. SUFFICES ASSUME TypeOK, ViewsBehind, SoleView, [RelaxedNext]_allVars
              PROVE  SoleView'
  OBVIOUS
<1>0. /\ head \in Nat /\ tail \in Nat /\ index \in [Threads -> Nat]
      /\ pc \in [Threads -> Labels]
      /\ view \in [Threads -> [head : Nat, tail : Nat]]
      /\ \A t \in Threads : view[t].head <= head /\ view[t].tail <= tail
  BY DEF TypeOK, ViewsBehind
<1>. USE DEF SoleView, Goto, Leave, Threads, HeadLoads, TailLoads, SeesHead, SeesTail
<1>1. ASSUME NEW p \in Producers, LoadHeadToPush(p) PROVE SoleView'
  BY <1>0, <1>1 DEF LoadHeadToPush, CallTryPushAt
<1>2. ASSUME NEW p \in Producers, LoadTailToPush(p) PROVE SoleView'
  BY <1>0, <1>2 DEF LoadTailToPush, TryPushCheckAt, RefusePush
<1>3. ASSUME NEW p \in Producers, ClaimToPush(p) PROVE SoleView'
  BY <1>0, <1>3 DEF ClaimToPush, TryPushClaim, ClaimHead, RefusePush
<1>4. ASSUME NEW c \in Consumers, LoadTailToPop(c) PROVE SoleView'
  BY <1>0, <1>4 DEF LoadTailToPop, CallTryPopAt
<1>5. ASSUME NEW c \in Consumers, LoadHeadToPop(c) PROVE SoleView'
  BY <1>0, <1>5 DEF LoadHeadToPop, TryPopCheckAt, RefusePop
<1>6. ASSUME NEW c \in Consumers, ClaimToPop(c) PROVE SoleView'
  <2>1. CASE RefusePop(c)
    BY <1>0, <1>6, <2>1 DEF ClaimToPop, RefusePop, relaxed
  <2>2. CASE ~RefusePop(c)
    <3>1. /\ tail' = tail + 1 /\ index' = index /\ tail = index[c]
          /\ pc[c] = "pop_cas" /\ pc' = [pc EXCEPT ![c] = "wait"]
      BY <1>6, <2>2 DEF ClaimToPop, TryPopClaim, ClaimTail
    <3>2. /\ view' = [view EXCEPT ![c].tail = tail + 1]
          /\ poppers' = poppers \cup {c}
      BY <1>0, <1>6, <3>1 DEF ClaimToPop
    <3>3. /\ view'[c].tail = tail' /\ view'[c].head = view[c].head
          /\ view[c].head \in Nat /\ pc'[c] = "wait"
      BY <1>0, <3>1, <3>2
    <3>4. \A d \in Consumers : poppers' \subseteq {d} => d = c /\ poppers \subseteq {c}
      BY <3>2
    <3>. QED
      BY <1>0, <3>1, <3>2, <3>3, <3>4
  <2>. QED
    BY <2>1, <2>2
<1>7. CASE SlotStep
  BY <1>0, <1>7 DEF SlotStep, Store, Take, Clear, relaxed
<1>8. CASE UNCHANGED allVars
  BY <1>8 DEF allVars, vars, relaxed
<1>. QED
  BY <1>1, <1>2, <1>3, <1>4, <1>5, <1>6, <1>7, <1>8 DEF RelaxedNext

\* As long as one consumer only has claimed, no pop claims an index that no push
\* has, however stale the loads.
THEOREM RelaxedSolePopper == RelaxedSpec => []SolePopperNeverOverdraws
<1>1. RelaxedInit => SoleView
  BY DEF RelaxedInit, Init, SoleView, Threads
<1>2. TypeOK /\ ViewsBehind /\ SoleView => SolePopperNeverOverdraws
  <2>. SUFFICES ASSUME TypeOK, ViewsBehind, SoleView,
                       \A c, d \in poppers : c = d
                PROVE  tail <= head
    BY DEF SolePopperNeverOverdraws
  <2>0. head \in Nat /\ tail \in Nat
    BY DEF TypeOK
  <2>1. CASE poppers = {}
    BY <2>0, <2>1 DEF SoleView
  <2>2. ASSUME NEW c \in poppers PROVE tail <= head
    <3>1. c \in Consumers /\ poppers \subseteq {c}
      BY DEF SoleView
    <3>. QED
      BY <2>0, <3>1 DEF SoleView, ViewsBehind, Threads
  <2>. QED
    BY <2>1, <2>2
<1>3. IInv => TypeOK
  BY DEF IInv
<1>. QED
  BY <1>1, <1>2, <1>3, RelaxedInvariance, StepSoleView, PTL DEF RelaxedSpec

(***************************************************************************)
(* Overdrafts                                                              *)
(***************************************************************************)

\* Each index below tail is in the hands of a pop, or its pop has returned.
TailAccounted ==
  \A i \in 0 .. (tail - 1) :
    i \in DOMAIN delivered \/ \E c \in Consumers : PopClaims(c) /\ index[c] = i

LEMMA StepTailAccounted ==
  IInv /\ TailAccounted /\ [RelaxedNext]_allVars => TailAccounted'
<1>. SUFFICES ASSUME TypeOK, ClaimsRecorded, TailAccounted, [RelaxedNext]_allVars
              PROVE  TailAccounted'
  BY DEF IInv
<1>0. /\ tail \in Nat /\ index \in [Threads -> Nat] /\ pc \in [Threads -> Labels]
      /\ DOMAIN delivered \subseteq Nat
  BY DEF TypeOK
<1>. USE DEF TailAccounted, PopClaims, Goto, Leave, Threads
<1>1. ASSUME NEW p \in Producers, LoadHeadToPush(p) PROVE TailAccounted'
  BY <1>0, <1>1 DEF LoadHeadToPush, CallTryPushAt
<1>2. ASSUME NEW p \in Producers, LoadTailToPush(p) PROVE TailAccounted'
  BY <1>0, <1>2 DEF LoadTailToPush, TryPushCheckAt, RefusePush
<1>3. ASSUME NEW p \in Producers, ClaimToPush(p) PROVE TailAccounted'
  BY <1>0, <1>3 DEF ClaimToPush, TryPushClaim, ClaimHead, RefusePush
<1>4. ASSUME NEW c \in Consumers, LoadTailToPop(c) PROVE TailAccounted'
  BY <1>0, <1>4 DEF LoadTailToPop, CallTryPopAt
<1>5. ASSUME NEW c \in Consumers, LoadHeadToPop(c) PROVE TailAccounted'
  BY <1>0, <1>5 DEF LoadHeadToPop, TryPopCheckAt, RefusePop
<1>6. ASSUME NEW c \in Consumers, ClaimToPop(c) PROVE TailAccounted'
  BY <1>0, <1>6 DEF ClaimToPop, TryPopClaim, ClaimTail, RefusePop
<1>7. ASSUME NEW p \in Producers, Store(p) PROVE TailAccounted'
  BY <1>0, <1>7 DEF Store
<1>8. ASSUME NEW c \in Consumers, Take(c) PROVE TailAccounted'
  BY <1>0, <1>8 DEF Take
<1>9. ASSUME NEW c \in Consumers, Clear(c) PROVE TailAccounted'
  BY <1>0, <1>9 DEF Clear, Extend
<1>10. CASE UNCHANGED allVars
  BY <1>10 DEF allVars, vars
<1>. QED
  BY <1>1, <1>2, <1>3, <1>4, <1>5, <1>6, <1>7, <1>8, <1>9, <1>10
     DEF RelaxedNext, SlotStep

\* As long as no slot is shared, whoever holds an index that no push has claimed
\* is waiting: its pop cannot have loaded or returned anything.
LEMMA OverdraftHeld ==
  ASSUME IInv, TailAccounted, ~lapped, NEW i \in head .. (tail - 1)
  PROVE  \E c \in Consumers : pc[c] = "wait" /\ index[c] = i
<1>1. head \in Nat /\ tail \in Nat /\ DOMAIN claimed = 0 .. (head - 1)
  BY DEF IInv, TypeOK
<1>2. i \notin DOMAIN claimed /\ i \in 0 .. (tail - 1)
  BY <1>1
<1>3. ~Stored(i)
  BY <1>2 DEF Stored
<1>4. i \notin DOMAIN delivered
  BY <1>3 DEF IInv, SlotsFaithful
<1>5. PICK c \in Consumers : PopClaims(c) /\ index[c] = i
  BY <1>2, <1>4 DEF TailAccounted
<1>6. pc[c] # "clear"
  BY <1>3, <1>5 DEF IInv, SlotsFaithful, Threads
<1>. QED
  BY <1>5, <1>6 DEF PopClaims

\* Distinct overdrawn indices hold up distinct consumers, so there are no more of
\* the former than of the latter.
LEMMA OverdraftBounded ==
  ASSUME IInv, TailAccounted, ~lapped
  PROVE  tail - head <= Cardinality(Consumers)
<1>. DEFINE Over == head .. (tail - 1)
            Holder == [i \in Over |-> CHOOSE c \in Consumers : pc[c] = "wait" /\ index[c] = i]
<1>1. head \in Nat /\ tail \in Nat
  BY DEF IInv, TypeOK
<1>2. \A i \in Over : Holder[i] \in Consumers /\ index[Holder[i]] = i
  <2>. SUFFICES ASSUME NEW i \in Over PROVE Holder[i] \in Consumers /\ index[Holder[i]] = i
    OBVIOUS
  <2>. QED
    BY OverdraftHeld
<1>3. Holder \in Injection(Over, Consumers)
  BY <1>2 DEF Injection, IsInjective
<1>4. Cardinality(Over) <= Cardinality(Consumers)
  BY <1>3, ThreadsAssumption, FS_Injection
<1>5. CASE head <= tail - 1
  <2>. HIDE DEF Holder
  <2>1. Cardinality(Over) = (tail - 1) - head + 1
    BY <1>1, <1>5, FS_Interval
  <2>. QED
    BY <1>1, <1>4, <2>1
<1>6. CASE tail <= head
  BY <1>1, <1>6, ThreadsAssumption, FS_CardinalityType
<1>. QED
  BY <1>1, <1>5, <1>6

\* A tail that stale loads have run past head is held there by waiting consumers,
\* one for each index, until a slot is shared.
THEOREM RelaxedOverdraft == RelaxedSpec => []OverdraftHeldUntilLapped
<1>1. RelaxedInit => TailAccounted
  BY DEF RelaxedInit, Init, TailAccounted
<1>2. IInv /\ TailAccounted => OverdraftHeldUntilLapped
  BY OverdraftHeld, OverdraftBounded DEF OverdraftHeldUntilLapped
<1>. QED
  BY <1>1, <1>2, RelaxedInvariance, StepTailAccounted, PTL DEF RelaxedSpec
=============================================================================
