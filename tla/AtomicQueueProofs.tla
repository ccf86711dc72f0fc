-------------------------- MODULE AtomicQueueProofs --------------------------
(***************************************************************************)
(* Proofs, for every set of threads, every set of elements, every capacity *)
(* and every mix of calls, of the safety properties of AtomicQueue.        *)
(***************************************************************************)
EXTENDS AtomicQueueInvariant, SequenceTheorems, TLAPS

\* What get_element's mask yields: a slot of the array, and for the first turn
\* through the array the index itself.
LEMMA SlotRange ==
  ASSUME NEW i \in Nat
  PROVE  Slot(i) \in 0 .. (Capacity - 1) /\ (i < Capacity => Slot(i) = i)
BY QueueAssumption DEF Slot

\* Every thread but t keeps its place in the code and its locals.
OthersKept(t) ==
  \A u \in Threads : u # t =>
    pc'[u] = pc[u] /\ index'[u] = index[u] /\ element'[u] = element[u]

\* The thread t stays outside the code between a claim and the end of a call,
\* and nothing that the threads share changes.
Private(t) ==
  /\ t \in Threads
  /\ UNCHANGED <<head, tail, elements, claimed, delivered, lapped>>
  /\ pc \in [Threads -> Labels] /\ pc' \in [Threads -> Labels]
  /\ ~PushClaims(t) /\ ~PopClaims(t)
  /\ ~PushClaims(t)' /\ ~PopClaims(t)'
  /\ OthersKept(t)

\* The parts of the inductive invariant other than the types
ClaimInv == SoleClaim /\ ClaimsRecorded /\ (~lapped => SlotsFaithful)

LEMMA PrivateStep ==
  ASSUME NEW t, Private(t), ClaimInv PROVE ClaimInv'
<1>. USE DEF Private, OthersKept, PushClaims, PopClaims
<1>1. SoleClaim'
  BY DEF ClaimInv, SoleClaim
<1>2. ClaimsRecorded'
  BY DEF ClaimInv, ClaimsRecorded
<1>3. \A i : Stored(i)' <=> Stored(i)
  BY DEF Stored
<1>4. ASSUME ~lapped' PROVE SlotsFaithful'
  <2>. SlotsFaithful
    BY <1>4 DEF ClaimInv
  <2>1. \A c \in Threads : pc'[c] = "clear" =>
          pc[c] = "clear" /\ index'[c] = index[c] /\ element'[c] = element[c]
    OBVIOUS
  <2>. QED
    BY <1>3, <2>1 DEF SlotsFaithful, Laps, Slot
<1>. QED
  BY <1>1, <1>2, <1>4 DEF ClaimInv

(***************************************************************************)
(* Loose steps                                                             *)
(***************************************************************************)

\* A step of the queue whose loads of the counters return any numbers at all and
\* whose push is of any word.  The claims and the slots do not depend on either.
LooseNext ==
  \/ \E p \in Producers :
       \/ \E n \in Nat : CallTryPushAt(p, n) \/ TryPushCheckAt(p, n)
       \/ TryPushClaim(p)
       \/ \E v \in Elements \cup {Zero} : PushOf(p, v) /\ unsent' \subseteq Elements
       \/ Store(p)
  \/ \E c \in Consumers :
       \/ \E n \in Nat : CallTryPopAt(c, n) \/ TryPopCheckAt(c, n)
       \/ TryPopClaim(c) \/ Pop(c) \/ Take(c) \/ Clear(c)

LEMMA NextIsLoose == TypeOK /\ [Next]_vars => [LooseNext]_vars
<1>. SUFFICES ASSUME TypeOK, [Next]_vars PROVE [LooseNext]_vars
  OBVIOUS
<1>0. head \in Nat /\ tail \in Nat /\ unsent \subseteq Elements
  BY DEF TypeOK
<1>1. ASSUME NEW p \in Producers, PushCall(p) \/ PushStep(p) PROVE LooseNext
  <2>1. ASSUME Push(p) PROVE LooseNext
    <3>1. PICK v \in unsent : unsent' = unsent \ {v} /\ PushOf(p, v)
      BY <2>1 DEF Push
    <3>. QED
      BY <1>0, <3>1 DEF LooseNext
  <2>. QED
    BY <1>0, <1>1, <2>1
       DEF PushCall, PushStep, CallTryPush, TryPushCheck, LooseNext
<1>2. ASSUME NEW c \in Consumers, PopCall(c) \/ PopStep(c) PROVE LooseNext
  BY <1>0, <1>2 DEF PopCall, PopStep, CallTryPop, TryPopCheck, LooseNext
<1>. QED
  BY <1>1, <1>2 DEF Next

(***************************************************************************)
(* Types                                                                   *)
(***************************************************************************)

LEMMA InitTypeOK == Init => TypeOK
BY QueueAssumption DEF Init, TypeOK, EmptyMap, Labels

LEMMA ExtendClaimed ==
  ASSUME TypeOK, NEW v \in Elements \cup {Zero}
  PROVE  Extend(claimed, head, v) \in [0 .. head -> Elements \cup {Zero}]
BY DEF TypeOK, Extend

LEMMA ExtendDelivered ==
  ASSUME TypeOK, NEW i \in 0 .. (tail - 1), NEW v \in Elements \cup {Zero}
  PROVE  LET d == Extend(delivered, i, v) IN
           /\ DOMAIN d \subseteq 0 .. (tail - 1)
           /\ d \in [DOMAIN d -> Elements \cup {Zero}]
BY DEF TypeOK, Extend

\* What a thread's own variables become
LEMMA GotoType ==
  ASSUME TypeOK, NEW t, NEW l \in Labels, Goto(t, l)
  PROVE  pc' \in [Threads -> Labels]
BY DEF TypeOK, Goto

Offered ==
  \A t \in Threads : pc[t] \in {"push_check", "push_cas"} => element[t] \in Elements

LEMMA OfferedKept ==
  ASSUME TypeOK, NEW t, NEW l, Goto(t, l),
         l \in {"push_check", "push_cas"} => l = "push_cas" /\ pc[t] = "push_check"
                                              /\ element'[t] = element[t],
         \A u \in Threads : u # t => element'[u] = element[u]
  PROVE  Offered'
BY DEF TypeOK, Goto, Offered

LEMMA LeaveType ==
  ASSUME TypeOK, NEW t, NEW l \in {"idle", "panicked"}, Leave(t, l)
  PROVE  /\ pc' \in [Threads -> Labels]
         /\ index' \in [Threads -> Nat]
         /\ element' \in [Threads -> Elements \cup {Zero}]
         /\ Offered'
BY DEF TypeOK, Leave, Goto, Labels, Offered

LEMMA RefuseType ==
  ASSUME TypeOK, NEW t \in Threads,
         \/ RefusePush(t) /\ pc[t] \in {"push_check", "push_cas"}
         \/ RefusePop(t)
  PROVE  TypeOK'
<1>1. Leave(t, "idle") /\ unsent' \subseteq Elements
  BY DEF TypeOK, RefusePush, RefusePop
<1>. QED
  BY <1>1, LeaveType DEF TypeOK, RefusePush, RefusePop, Offered

LEMMA ClaimHeadType ==
  ASSUME TypeOK, NEW p \in Producers, NEW v \in Elements \cup {Zero}, ClaimHead(p, v),
         index' \in [Threads -> Nat], element' \in [Threads -> Elements \cup {Zero}],
         unsent' \subseteq Elements,
         \A t \in Threads : t # p => element'[t] = element[t]
  PROVE  TypeOK'
<1>1. pc' \in [Threads -> Labels]
  BY GotoType DEF ClaimHead, Labels
<1>2. head' \in Nat /\ head' - 1 = head
  BY DEF ClaimHead, TypeOK
<1>3. claimed' \in [0 .. (head' - 1) -> Elements \cup {Zero}]
  BY <1>2, ExtendClaimed DEF ClaimHead
<1>4. Offered'
  BY OfferedKept DEF ClaimHead
<1>. QED
  BY <1>1, <1>2, <1>3, <1>4 DEF ClaimHead, TypeOK, Offered

LEMMA ClaimTailType ==
  ASSUME TypeOK, NEW c \in Consumers, ClaimTail(c), index' \in [Threads -> Nat]
  PROVE  TypeOK'
<1>1. pc' \in [Threads -> Labels]
  BY GotoType DEF ClaimTail, Labels
<1>2. Offered'
  BY OfferedKept DEF ClaimTail
<1>. QED
  BY <1>1, <1>2 DEF ClaimTail, TypeOK, Offered

\* Types are preserved; that a returned index was claimed is used for Clear.
LEMMA StepTypeOK == TypeOK /\ ClaimsRecorded /\ [LooseNext]_vars => TypeOK'
<1>. SUFFICES ASSUME TypeOK, ClaimsRecorded, [LooseNext]_vars PROVE TypeOK'
  OBVIOUS
<1>1. ASSUME NEW p \in Producers, NEW n \in Nat, CallTryPushAt(p, n)
      PROVE  TypeOK'
  BY <1>1 DEF CallTryPushAt, TypeOK, Threads, Goto, Labels
<1>2. ASSUME NEW p \in Producers, NEW n \in Nat, TryPushCheckAt(p, n)
      PROVE  TypeOK'
  <2>1. CASE RefusePush(p)
    BY <1>2, <2>1, RefuseType DEF Threads, TryPushCheckAt
  <2>2. CASE Leave(p, "panicked")
              /\ UNCHANGED <<head, tail, elements, unsent, claimed, delivered, lapped>>
    BY <2>2, LeaveType DEF TypeOK, Offered
  <2>3. CASE Goto(p, "push_cas")
              /\ UNCHANGED <<head, tail, elements, index, element,
                             unsent, claimed, delivered, lapped>>
    <3>1. pc' \in [Threads -> Labels]
      BY <2>3, GotoType DEF Labels
    <3>2. Offered'
      BY <1>2, <2>3, OfferedKept DEF TryPushCheckAt
    <3>. QED
      BY <2>3, <3>1, <3>2 DEF TypeOK, Offered
  <2>. QED
    BY <1>2, <2>1, <2>2, <2>3 DEF TryPushCheckAt
<1>3. ASSUME NEW p \in Producers, TryPushClaim(p) PROVE TypeOK'
  <2>1. p \in Threads /\ element[p] \in Elements \cup {Zero}
    BY DEF TypeOK, Threads
  <2>2. CASE RefusePush(p)
    BY <1>3, <2>1, <2>2, RefuseType DEF TryPushClaim
  <2>3. CASE ClaimHead(p, element[p]) /\ UNCHANGED <<index, element, unsent>>
    BY <2>1, <2>3, ClaimHeadType DEF TypeOK
  <2>. QED
    BY <1>3, <2>2, <2>3 DEF TryPushClaim
<1>4. ASSUME NEW p \in Producers, NEW v \in Elements \cup {Zero}, PushOf(p, v),
             unsent' \subseteq Elements
      PROVE  TypeOK'
  <2>1. /\ index' \in [Threads -> Nat]
        /\ element' \in [Threads -> Elements \cup {Zero}]
    BY <1>4 DEF PushOf, TypeOK
  <2>2. \A t \in Threads : t # p => element'[t] = element[t]
    BY <1>4 DEF PushOf, TypeOK
  <2>. QED
    BY <1>4, <2>1, <2>2, ClaimHeadType DEF PushOf
<1>5. ASSUME NEW p \in Producers, Store(p) PROVE TypeOK'
  BY <1>5, SlotRange DEF Store, TypeOK, Threads, Leave, Goto, Labels
<1>6. ASSUME NEW c \in Consumers, NEW n \in Nat, CallTryPopAt(c, n)
      PROVE  TypeOK'
  BY <1>6 DEF CallTryPopAt, TypeOK, Threads, Goto, Labels
<1>7. ASSUME NEW c \in Consumers, NEW n \in Nat, TryPopCheckAt(c, n)
      PROVE  TypeOK'
  <2>1. CASE RefusePop(c)
    BY <2>1, RefuseType DEF Threads
  <2>2. CASE Goto(c, "pop_cas")
              /\ UNCHANGED <<head, tail, elements, index, element,
                             unsent, claimed, delivered, lapped>>
    <3>1. pc' \in [Threads -> Labels]
      BY <2>2, GotoType DEF Labels
    <3>2. Offered'
      BY <2>2, OfferedKept
    <3>. QED
      BY <2>2, <3>1, <3>2 DEF TypeOK, Offered
  <2>. QED
    BY <1>7, <2>1, <2>2 DEF TryPopCheckAt
<1>8. ASSUME NEW c \in Consumers, TryPopClaim(c) PROVE TypeOK'
  <2>1. CASE RefusePop(c)
    BY <2>1, RefuseType DEF Threads
  <2>2. CASE ClaimTail(c) /\ UNCHANGED index
    BY <2>2, ClaimTailType DEF TypeOK
  <2>. QED
    BY <1>8, <2>1, <2>2 DEF TryPopClaim
<1>9. ASSUME NEW c \in Consumers, Pop(c) PROVE TypeOK'
  <2>1. index' \in [Threads -> Nat]
    BY <1>9 DEF Pop, TypeOK
  <2>. QED
    BY <1>9, <2>1, ClaimTailType DEF Pop
<1>10. ASSUME NEW c \in Consumers, Take(c) PROVE TypeOK'
  BY <1>10, SlotRange DEF Take, TypeOK, Threads, Goto, Labels
<1>11. ASSUME NEW c \in Consumers, Clear(c) PROVE TypeOK'
  BY <1>11, SlotRange, ExtendDelivered
     DEF Clear, TypeOK, Threads, Leave, Goto, Labels, ClaimsRecorded, PopClaims
<1>12. CASE UNCHANGED vars
  BY <1>12 DEF vars, TypeOK
<1>. QED
  BY <1>1, <1>2, <1>3, <1>4, <1>5, <1>6, <1>7, <1>8, <1>9, <1>10, <1>11, <1>12
     DEF LooseNext

(***************************************************************************)
(* The claims and the slots                                                *)
(***************************************************************************)

LEMMA LeaveKeeps ==
  ASSUME TypeOK, NEW t \in Threads, NEW l, Leave(t, l)
  PROVE  OthersKept(t) /\ pc'[t] = l
BY DEF TypeOK, Leave, Goto, OthersKept

LEMMA GotoKeeps ==
  ASSUME TypeOK, NEW t \in Threads, NEW l, Goto(t, l),
         \A u \in Threads : u # t => index'[u] = index[u] /\ element'[u] = element[u]
  PROVE  OthersKept(t) /\ pc'[t] = l
BY DEF TypeOK, Goto, OthersKept

\* A push that takes index head disturbs no other claim: every index claimed
\* before is below head.
LEMMA ClaimHeadStep ==
  ASSUME TypeOK, ClaimInv, NEW p \in Threads, NEW v, ClaimHead(p, v),
         pc[p] \in {"idle", "push_cas"}, OthersKept(p),
         pc'[p] = "store", index'[p] = head, element'[p] = v
  PROVE  ClaimInv'
<1>. USE DEF PushClaims, PopClaims
<1>1. /\ DOMAIN claimed = 0 .. (head - 1) /\ head \in Nat
      /\ DOMAIN claimed' = DOMAIN claimed \cup {head} /\ claimed'[head] = v
      /\ \A i \in DOMAIN claimed : claimed'[i] = claimed[i]
      /\ head \notin DOMAIN claimed
  <2>1. DOMAIN claimed = 0 .. (head - 1) /\ head \in Nat
    BY DEF TypeOK
  <2>2. claimed' = Extend(claimed, head, v)
    BY DEF ClaimHead
  <2>3. head \notin DOMAIN claimed
    BY <2>1
  <2>4. /\ DOMAIN claimed' = DOMAIN claimed \cup {head} /\ claimed'[head] = v
        /\ \A i \in DOMAIN claimed : i # head => claimed'[i] = claimed[i]
    BY <2>2 DEF Extend
  <2>. QED
    BY <2>1, <2>3, <2>4
<1>2. UNCHANGED <<tail, elements, delivered, lapped>>
  BY DEF ClaimHead
<1>3. SoleClaim'
  BY <1>1, <1>2 DEF ClaimInv, SoleClaim, ClaimsRecorded, OthersKept
<1>4. ClaimsRecorded'
  BY <1>1, <1>2 DEF ClaimInv, ClaimsRecorded, OthersKept
<1>5. \A i : Stored(i)' <=> Stored(i)
  BY <1>1 DEF Stored, OthersKept
<1>6. ASSUME ~lapped' PROVE SlotsFaithful'
  <2>1. SlotsFaithful
    BY <1>2, <1>6 DEF ClaimInv
  <2>2. \A i : Laps(i)' <=> Laps(i)
    BY <1>2 DEF Laps, Slot
  <2>3. \A i : Slot(i)' = Slot(i)
    BY DEF Slot
  <2>4. \A i : Stored(i) => i \in DOMAIN claimed
    BY DEF Stored
  <2>5. \A c \in Threads : pc'[c] = "clear" =>
          pc[c] = "clear" /\ index'[c] = index[c] /\ element'[c] = element[c]
    BY DEF OthersKept
  <2>. QED
    BY <1>1, <1>2, <1>5, <2>1, <2>2, <2>3, <2>4, <2>5 DEF SlotsFaithful
<1>. QED
  BY <1>3, <1>4, <1>6 DEF ClaimInv

\* A pop that takes index tail disturbs no other claim either, and no pop has
\* returned for tail.
LEMMA ClaimTailStep ==
  ASSUME TypeOK, ClaimInv, NEW c \in Threads, ClaimTail(c),
         pc[c] \in {"idle", "pop_cas"}, OthersKept(c),
         pc'[c] = "wait", index'[c] = tail
  PROVE  ClaimInv'
<1>. USE DEF PushClaims, PopClaims
<1>1. /\ tail \in Nat /\ tail' = tail + 1 /\ tail \notin DOMAIN delivered
      /\ UNCHANGED <<head, elements, element, unsent, claimed, delivered, lapped>>
  BY DEF TypeOK, ClaimTail
<1>2. SoleClaim'
  BY <1>1 DEF ClaimInv, SoleClaim, ClaimsRecorded, OthersKept
<1>3. ClaimsRecorded'
  BY <1>1 DEF ClaimInv, ClaimsRecorded, OthersKept
<1>4. \A i : Stored(i)' <=> Stored(i)
  BY <1>1 DEF Stored, OthersKept
<1>5. ASSUME ~lapped' PROVE SlotsFaithful'
  <2>1. SlotsFaithful
    BY <1>1, <1>5 DEF ClaimInv
  <2>2. \A i : Laps(i)' <=> Laps(i)
    BY <1>1 DEF Laps, Slot
  <2>3. \A d \in Threads : pc'[d] = "clear" => pc[d] = "clear" /\ index'[d] = index[d]
    BY DEF OthersKept
  <2>. QED
    BY <1>1, <1>4, <2>1, <2>2, <2>3 DEF SlotsFaithful, Slot
<1>. QED
  BY <1>2, <1>3, <1>5 DEF ClaimInv

\* In faithful slots, an index that is stored and awaits its pop is the only
\* one of its slot.
LEMMA SoleUser ==
  ASSUME TypeOK, SlotsFaithful,
         NEW i, NEW k, Stored(i), ~Laps(i), Stored(k),
         i \notin DOMAIN delivered, k \notin DOMAIN delivered, Slot(i) = Slot(k)
  PROVE  i = k
<1>1. i \in 0 .. (head - 1) /\ k \in 0 .. (head - 1) /\ head \in Nat
  BY DEF Stored, TypeOK
<1>2. ~(k < i)
  BY <1>1 DEF Laps
<1>3. ~Laps(k)
  BY <1>1 DEF SlotsFaithful, Stored
<1>4. ~(i < k)
  BY <1>1, <1>3 DEF Laps
<1>. QED
  BY <1>1, <1>2, <1>4

\* The store of a push: the slot it overwrites serves no other index.
LEMMA StoreStep ==
  ASSUME TypeOK, ClaimInv, NEW p \in Threads, Store(p)
  PROVE  ClaimInv'
<1>. DEFINE i == index[p]
<1>. USE DEF PushClaims, PopClaims
<1>1. /\ OthersKept(p) /\ pc[p] = "store" /\ pc'[p] = "idle"
      /\ UNCHANGED <<head, tail, claimed, delivered>>
  BY LeaveKeeps DEF Store
<1>2. SoleClaim'
  BY <1>1 DEF ClaimInv, SoleClaim, OthersKept
<1>3. ClaimsRecorded'
  BY <1>1 DEF ClaimInv, ClaimsRecorded, OthersKept
<1>4. i \in DOMAIN claimed /\ element[p] = claimed[i] /\ ~Stored(i)
  BY <1>1 DEF ClaimInv, ClaimsRecorded, Stored
<1>5. \A k : Stored(k)' <=> Stored(k) \/ k = i
  BY <1>1, <1>4 DEF Stored, OthersKept, ClaimInv, SoleClaim
<1>6. ASSUME ~lapped' PROVE SlotsFaithful'
  <2>1. SlotsFaithful /\ ~Laps(i)
    BY <1>6 DEF ClaimInv, Store, TypeOK
  <2>2. \A k : (Laps(k)' <=> Laps(k)) /\ Slot(k)' = Slot(k)
    BY <1>1 DEF Laps, Slot
  <2>3. i \in Nat /\ i \notin DOMAIN delivered
    BY <1>4, <2>1 DEF SlotsFaithful, TypeOK
  <2>4. ASSUME NEW k \in DOMAIN claimed, Stored(k), k \notin DOMAIN delivered
        PROVE  Slot(k) # Slot(i)
    <3>1. k \in Nat /\ k # i /\ ~Laps(k)
      BY <1>4, <2>1, <2>4 DEF SlotsFaithful, TypeOK
    <3>. QED
      BY <2>1, <2>3, <2>4, <3>1 DEF Laps
  <2>5. /\ DOMAIN elements' = DOMAIN elements
        /\ elements'[Slot(i)] = claimed[i]
        /\ \A s \in DOMAIN elements : s # Slot(i) => elements'[s] = elements[s]
    BY <1>4, <2>3, SlotRange DEF Store, TypeOK
  <2>6. \A k \in DOMAIN claimed : Slot(k) \in DOMAIN elements
    BY SlotRange DEF TypeOK
  <2>7. \A k \in DOMAIN claimed : Stored(k)' /\ k \notin DOMAIN delivered
          => elements'[Slot(k)] = claimed[k]
    BY <1>5, <2>1, <2>4, <2>5, <2>6 DEF SlotsFaithful
  <2>8. \A s \in DOMAIN elements : elements'[s] # Zero => \E k \in DOMAIN claimed :
          Stored(k)' /\ k \notin DOMAIN delivered /\ Slot(k) = s
    BY <1>4, <1>5, <2>1, <2>3, <2>5 DEF SlotsFaithful
  <2>9. \A c \in Threads : pc'[c] = "clear" =>
          pc[c] = "clear" /\ index'[c] = index[c] /\ element'[c] = element[c]
    BY <1>1 DEF OthersKept
  <2>. QED
    BY <1>1, <1>5, <2>1, <2>2, <2>5, <2>7, <2>8, <2>9 DEF SlotsFaithful
<1>. QED
  BY <1>2, <1>3, <1>6 DEF ClaimInv

\* The load that ends a pop's wait: what it finds is what was stored for the
\* pop's own index.
LEMMA TakeStep ==
  ASSUME TypeOK, ClaimInv, NEW c \in Threads, Take(c)
  PROVE  ClaimInv'
<1>. DEFINE i == index[c]
<1>. USE DEF PushClaims, PopClaims
<1>1. /\ pc[c] = "wait" /\ pc'[c] = "clear" /\ index' = index
      /\ \A d \in Threads : d # c => pc'[d] = pc[d] /\ element'[d] = element[d]
      /\ element'[c] = elements[Slot(i)]
      /\ UNCHANGED <<head, tail, elements, claimed, delivered>>
  BY DEF Take, Goto, TypeOK
<1>2. SoleClaim'
  BY <1>1 DEF ClaimInv, SoleClaim
<1>3. ClaimsRecorded'
  BY <1>1 DEF ClaimInv, ClaimsRecorded
<1>4. \A k : Stored(k)' <=> Stored(k)
  BY <1>1 DEF Stored
<1>5. ASSUME ~lapped' PROVE SlotsFaithful'
  <2>1. SlotsFaithful /\ ~Laps(i) /\ elements[Slot(i)] # Zero
    BY <1>5 DEF ClaimInv, Take, TypeOK
  <2>2. i \in Nat /\ i \notin DOMAIN delivered
    BY <1>1 DEF TypeOK, ClaimInv, SoleClaim
  <2>3. Slot(i) \in DOMAIN elements
    BY <2>2, SlotRange DEF TypeOK
  <2>4. PICK k \in DOMAIN claimed :
          Stored(k) /\ k \notin DOMAIN delivered /\ Slot(k) = Slot(i)
    BY <2>1, <2>3 DEF SlotsFaithful
  <2>5. k \in Nat /\ ~Laps(k)
    BY <2>1, <2>4 DEF SlotsFaithful, TypeOK
  <2>6. k = i
    BY <2>1, <2>2, <2>4, <2>5 DEF Laps
  <2>7. Stored(i) /\ element'[c] = claimed[i]
    BY <1>1, <2>1, <2>4, <2>6 DEF SlotsFaithful
  <2>8. \A j : (Laps(j)' <=> Laps(j)) /\ Slot(j)' = Slot(j)
    BY <1>1 DEF Laps, Slot
  <2>. QED
    BY <1>1, <1>4, <2>1, <2>7, <2>8 DEF SlotsFaithful
<1>. QED
  BY <1>2, <1>3, <1>5 DEF ClaimInv

\* The store that ends a pop: the slot it vacates held the pop's own element.
LEMMA ClearStep ==
  ASSUME TypeOK, ClaimInv, NEW c \in Threads, Clear(c)
  PROVE  ClaimInv'
<1>. DEFINE i == index[c]
<1>. USE DEF PushClaims, PopClaims
<1>1. /\ OthersKept(c) /\ pc[c] = "clear" /\ pc'[c] = "idle"
      /\ UNCHANGED <<head, tail, claimed, lapped>>
      /\ delivered' = Extend(delivered, i, element[c])
  BY LeaveKeeps DEF Clear
<1>2. /\ DOMAIN delivered' = DOMAIN delivered \cup {i}
      /\ delivered'[i] = element[c]
      /\ \A j \in DOMAIN delivered : j # i => delivered'[j] = delivered[j]
      /\ i \notin DOMAIN delivered
  BY <1>1 DEF ClaimInv, SoleClaim, Extend
<1>3. SoleClaim'
  BY <1>1, <1>2 DEF ClaimInv, SoleClaim, OthersKept
<1>4. ClaimsRecorded'
  BY <1>1 DEF ClaimInv, ClaimsRecorded, OthersKept
<1>5. \A k : Stored(k)' <=> Stored(k)
  BY <1>1 DEF Stored, OthersKept
<1>6. ASSUME ~lapped' PROVE SlotsFaithful'
  <2>1. SlotsFaithful
    BY <1>1, <1>6 DEF ClaimInv
  <2>2. Stored(i) /\ element[c] = claimed[i]
    BY <1>1, <2>1 DEF SlotsFaithful
  <2>3. i \in Nat /\ i \in DOMAIN claimed /\ ~Laps(i)
    BY <2>1, <2>2 DEF SlotsFaithful, Stored, TypeOK
  <2>4. \A k : Slot(k)' = Slot(k) /\ (Laps(k)' => Laps(k))
    BY <1>2 DEF Laps, Slot
  <2>5. ASSUME NEW k \in DOMAIN claimed, Stored(k), k \notin DOMAIN delivered, k # i
        PROVE  Slot(k) # Slot(i)
    BY <1>2, <2>1, <2>2, <2>3, <2>5, SoleUser
  <2>6. /\ DOMAIN elements' = DOMAIN elements
        /\ elements'[Slot(i)] = Zero
        /\ \A s \in DOMAIN elements : s # Slot(i) => elements'[s] = elements[s]
    BY <2>3, SlotRange DEF Clear, TypeOK
  <2>7. \A k \in DOMAIN claimed : Slot(k) \in DOMAIN elements
    BY SlotRange DEF TypeOK
  <2>8. \A k \in DOMAIN claimed : Stored(k) /\ k \notin DOMAIN delivered'
          => elements'[Slot(k)] = claimed[k]
    BY <1>2, <2>1, <2>5, <2>6, <2>7 DEF SlotsFaithful
  <2>9. ASSUME NEW s \in DOMAIN elements, elements'[s] # Zero
        PROVE  \E k \in DOMAIN claimed :
                 Stored(k) /\ k \notin DOMAIN delivered' /\ Slot(k) = s
    <3>1. s # Slot(i) /\ elements[s] # Zero
      BY <2>6, <2>9
    <3>2. PICK k \in DOMAIN claimed :
            Stored(k) /\ k \notin DOMAIN delivered /\ Slot(k) = s
      BY <2>1, <3>1 DEF SlotsFaithful
    <3>. QED
      BY <1>2, <3>1, <3>2
  <2>10. \A d \in Threads : pc'[d] = "clear" =>
           pc[d] = "clear" /\ index'[d] = index[d] /\ element'[d] = element[d]
    BY <1>1 DEF OthersKept
  <2>11. \A j \in DOMAIN delivered' : Stored(j) /\ delivered'[j] = claimed[j]
    BY <1>2, <2>1, <2>2 DEF SlotsFaithful
  <2>. QED
    BY <1>1, <1>5, <2>1, <2>4, <2>6, <2>8, <2>9, <2>10, <2>11 DEF SlotsFaithful
<1>. QED
  BY <1>3, <1>4, <1>6 DEF ClaimInv

LEMMA StepClaimInv == TypeOK /\ TypeOK' /\ ClaimInv /\ [LooseNext]_vars => ClaimInv'
<1>. SUFFICES ASSUME TypeOK, TypeOK', ClaimInv, [LooseNext]_vars PROVE ClaimInv'
  OBVIOUS
<1>0. pc \in [Threads -> Labels] /\ pc' \in [Threads -> Labels]
  BY DEF TypeOK
<1>1. ASSUME NEW p \in Producers, NEW n \in Nat, CallTryPushAt(p, n)
      PROVE  ClaimInv'
  <2>1. \A u \in Threads : u # p => index'[u] = index[u] /\ element'[u] = element[u]
    BY <1>1 DEF CallTryPushAt, TypeOK
  <2>2. OthersKept(p) /\ pc'[p] = "push_check"
    BY <1>1, <2>1, GotoKeeps DEF CallTryPushAt, Threads
  <2>. Private(p)
    BY <1>0, <1>1, <2>2
       DEF CallTryPushAt, Private, Threads, PushClaims, PopClaims
  <2>. QED
    BY PrivateStep
<1>2. ASSUME NEW p \in Producers, RefusePush(p), pc[p] \in {"push_check", "push_cas"}
      PROVE  ClaimInv'
  <2>. Private(p)
    BY <1>0, <1>2, LeaveKeeps DEF RefusePush, Private, Threads, PushClaims, PopClaims
  <2>. QED
    BY PrivateStep
<1>3. ASSUME NEW p \in Producers, NEW n \in Nat, TryPushCheckAt(p, n)
      PROVE  ClaimInv'
  <2>1. CASE RefusePush(p)
    BY <1>2, <1>3, <2>1 DEF TryPushCheckAt
  <2>2. CASE ~RefusePush(p)
    <3>1. OthersKept(p) /\ pc'[p] \in {"push_cas", "panicked"}
      BY <1>3, <2>2, LeaveKeeps, GotoKeeps DEF TryPushCheckAt, Threads
    <3>. Private(p)
      BY <1>0, <1>3, <2>2, <3>1
         DEF TryPushCheckAt, Private, Threads, PushClaims, PopClaims
    <3>. QED
      BY PrivateStep
  <2>. QED
    BY <2>1, <2>2
<1>4. ASSUME NEW p \in Producers, TryPushClaim(p) PROVE ClaimInv'
  <2>1. CASE RefusePush(p)
    BY <1>2, <1>4, <2>1 DEF TryPushClaim
  <2>2. CASE ~RefusePush(p)
    <3>1. /\ head = index[p] /\ pc[p] = "push_cas" /\ ClaimHead(p, element[p])
          /\ UNCHANGED <<index, element>>
      BY <1>4, <2>2 DEF TryPushClaim
    <3>2. OthersKept(p) /\ pc'[p] = "store"
      BY <3>1, GotoKeeps DEF ClaimHead, Threads
    <3>. QED
      BY <3>1, <3>2, ClaimHeadStep DEF Threads
  <2>. QED
    BY <2>1, <2>2
<1>5. ASSUME NEW p \in Producers, NEW v \in Elements \cup {Zero}, PushOf(p, v)
      PROVE  ClaimInv'
  <2>1. /\ pc[p] = "idle" /\ ClaimHead(p, v)
        /\ element' = [element EXCEPT ![p] = v] /\ index' = [index EXCEPT ![p] = head]
    BY <1>5 DEF PushOf
  <2>2. index'[p] = head /\ element'[p] = v
    BY <2>1 DEF TypeOK, Threads
  <2>3. OthersKept(p) /\ pc'[p] = "store"
    BY <2>1, GotoKeeps DEF ClaimHead, Threads, TypeOK
  <2>. QED
    BY <2>1, <2>2, <2>3, ClaimHeadStep DEF Threads
<1>6. ASSUME NEW p \in Producers, Store(p) PROVE ClaimInv'
  BY <1>6, StoreStep DEF Threads
<1>7. ASSUME NEW c \in Consumers, NEW n \in Nat, CallTryPopAt(c, n)
      PROVE  ClaimInv'
  <2>1. OthersKept(c) /\ pc'[c] = "pop_check"
    BY <1>7, GotoKeeps DEF CallTryPopAt, Threads, TypeOK
  <2>. Private(c)
    BY <1>0, <1>7, <2>1
       DEF CallTryPopAt, Private, Threads, PushClaims, PopClaims
  <2>. QED
    BY PrivateStep
<1>8. ASSUME NEW c \in Consumers, RefusePop(c), pc[c] \in {"pop_check", "pop_cas"}
      PROVE  ClaimInv'
  <2>. Private(c)
    BY <1>0, <1>8, LeaveKeeps DEF RefusePop, Private, Threads, PushClaims, PopClaims
  <2>. QED
    BY PrivateStep
<1>9. ASSUME NEW c \in Consumers, NEW n \in Nat, TryPopCheckAt(c, n)
      PROVE  ClaimInv'
  <2>1. CASE RefusePop(c)
    BY <1>8, <1>9, <2>1 DEF TryPopCheckAt
  <2>2. CASE ~RefusePop(c)
    <3>1. OthersKept(c) /\ pc'[c] = "pop_cas"
      BY <1>9, <2>2, GotoKeeps DEF TryPopCheckAt, Threads
    <3>. Private(c)
      BY <1>0, <1>9, <2>2, <3>1
         DEF TryPopCheckAt, Private, Threads, PushClaims, PopClaims
    <3>. QED
      BY PrivateStep
  <2>. QED
    BY <2>1, <2>2
<1>10. ASSUME NEW c \in Consumers, TryPopClaim(c) PROVE ClaimInv'
  <2>1. CASE RefusePop(c)
    BY <1>8, <1>10, <2>1 DEF TryPopClaim
  <2>2. CASE ~RefusePop(c)
    <3>1. tail = index[c] /\ pc[c] = "pop_cas" /\ ClaimTail(c) /\ UNCHANGED index
      BY <1>10, <2>2 DEF TryPopClaim
    <3>2. OthersKept(c) /\ pc'[c] = "wait"
      BY <3>1, GotoKeeps DEF ClaimTail, Threads
    <3>. QED
      BY <3>1, <3>2, ClaimTailStep DEF Threads
  <2>. QED
    BY <2>1, <2>2
<1>11. ASSUME NEW c \in Consumers, Pop(c) PROVE ClaimInv'
  <2>1. /\ pc[c] = "idle" /\ ClaimTail(c)
        /\ index' = [index EXCEPT ![c] = tail]
    BY <1>11 DEF Pop
  <2>2. index'[c] = tail
    BY <2>1 DEF TypeOK, Threads
  <2>3. OthersKept(c) /\ pc'[c] = "wait"
    BY <2>1, GotoKeeps DEF ClaimTail, Threads, TypeOK
  <2>. QED
    BY <2>1, <2>2, <2>3, ClaimTailStep DEF Threads
<1>12. ASSUME NEW c \in Consumers, Take(c) PROVE ClaimInv'
  BY <1>12, TakeStep DEF Threads
<1>13. ASSUME NEW c \in Consumers, Clear(c) PROVE ClaimInv'
  BY <1>13, ClearStep DEF Threads
<1>14. CASE UNCHANGED vars
  BY <1>14 DEF vars, ClaimInv, SoleClaim, ClaimsRecorded, SlotsFaithful, Stored, Laps,
               Slot, PushClaims, PopClaims
<1>. QED
  BY <1>1, <1>3, <1>4, <1>5, <1>6, <1>7, <1>9, <1>10, <1>11, <1>12, <1>13, <1>14
     DEF LooseNext

LEMMA InitClaimInv == Init => ClaimInv
<1>. SUFFICES ASSUME Init PROVE ClaimInv
  OBVIOUS
<1>1. DOMAIN claimed = {} /\ DOMAIN delivered = {}
  BY DEF Init, EmptyMap
<1>2. \A t \in Threads : pc[t] = "idle"
  BY DEF Init
<1>3. SoleClaim /\ ClaimsRecorded
  BY <1>2 DEF SoleClaim, ClaimsRecorded, PushClaims, PopClaims
<1>4. SlotsFaithful
  BY <1>1, <1>2 DEF SlotsFaithful, Init
<1>. QED
  BY <1>3, <1>4 DEF ClaimInv

(***************************************************************************)
(* The theorems                                                            *)
(***************************************************************************)

\* The inductive invariant survives any step, whatever its loads return.
LEMMA LooseStep == IInv /\ [LooseNext]_vars => IInv'
<1>. SUFFICES ASSUME IInv, [LooseNext]_vars PROVE IInv'
  OBVIOUS
<1>1. TypeOK'
  BY StepTypeOK DEF IInv
<1>2. ClaimInv'
  BY <1>1, StepClaimInv DEF IInv, ClaimInv
<1>. QED
  BY <1>1, <1>2 DEF IInv, ClaimInv

\* IInv holds in every reachable state: it holds at first and every step of
\* every call keeps it.
THEOREM Invariance == Spec => []IInv
<1>1. Init => IInv
  BY InitTypeOK, InitClaimInv DEF IInv, ClaimInv
<1>2. IInv /\ [Next]_vars => IInv'
  BY NextIsLoose, LooseStep DEF IInv
<1>. QED
  BY <1>1, <1>2, PTL DEF Spec

\* The variables of the queue and of its threads keep their types.
THEOREM TypeCorrect == Spec => []TypeOK
<1>1. IInv => TypeOK
  BY DEF IInv
<1>. QED
  BY <1>1, Invariance, PTL

\* No index is ever in the hands of two pushes or of two pops: the
\* compare_exchange and the fetch_add make every claim exclusive, for any number
\* of threads and any mix of the four calls.
THEOREM ExclusiveClaims == Spec => []SoleClaim
<1>1. IInv => SoleClaim
  BY DEF IInv
<1>. QED
  BY <1>1, Invariance, PTL

\* Until a slot is used by two indices at once, every pop returns the element
\* of its own index: the queue is first in, first out.
THEOREM FirstInFirstOut == Spec => []InOrderUntilLapped
<1>1. IInv => InOrderUntilLapped
  BY DEF IInv, SlotsFaithful, InOrderUntilLapped, InOrder, Stored
<1>. QED
  BY <1>1, Invariance, PTL

\* Until then, no element whose push has returned is lost or overwritten.
THEOREM NothingLost == Spec => []KeptUntilLapped
<1>1. IInv => KeptUntilLapped
  BY DEF IInv, SlotsFaithful, KeptUntilLapped
<1>. QED
  BY <1>1, Invariance, PTL

(***************************************************************************)
(* Counting                                                                *)
(***************************************************************************)

\* An index in use that shares its slot with a smaller one is at least Capacity.
LEMMA LapIsFar ==
  ASSUME NEW i \in Nat, Laps(i) PROVE i >= Capacity
<1>1. PICK j \in 0 .. (i - 1) : Slot(j) = Slot(i)
  BY DEF Laps
<1>2. Capacity \in Nat /\ j \in Nat /\ j < i
  BY QueueAssumption
<1>. QED
  BY <1>1, <1>2, SlotRange

LEMMA StepLapNeedsFullTurn ==
  IInv /\ LapNeedsFullTurn /\ [Next]_vars => LapNeedsFullTurn'
<1>. SUFFICES ASSUME IInv, LapNeedsFullTurn, [Next]_vars PROVE LapNeedsFullTurn'
  OBVIOUS
<1>0. head \in Nat /\ tail \in Nat /\ Capacity \in Nat
  BY QueueAssumption DEF IInv, TypeOK
<1>1. ASSUME NEW p \in Producers, Store(p) PROVE LapNeedsFullTurn'
  <2>1. index[p] \in 0 .. (head - 1)
    BY <1>1 DEF IInv, TypeOK, ClaimsRecorded, PushClaims, Store, Threads
  <2>2. Laps(index[p]) => head > Capacity
    BY <1>0, <2>1, LapIsFar
  <2>. QED
    BY <1>1, <2>2 DEF Store, LapNeedsFullTurn
<1>2. ASSUME NEW c \in Consumers, Take(c) PROVE LapNeedsFullTurn'
  <2>1. index[c] \in 0 .. (tail - 1)
    BY <1>2 DEF IInv, ClaimsRecorded, PopClaims, Take, Threads
  <2>2. Laps(index[c]) => tail > Capacity
    BY <1>0, <2>1, LapIsFar
  <2>. QED
    BY <1>2, <2>2 DEF Take, LapNeedsFullTurn
<1>3. ASSUME ~\E p \in Producers : Store(p), ~\E c \in Consumers : Take(c)
      PROVE  LapNeedsFullTurn'
  <2>1. lapped' = lapped /\ head' \in {head, head + 1} /\ tail' \in {tail, tail + 1}
    BY <1>3
       DEF Next, vars, PushCall, PushStep, PopCall, PopStep, CallTryPush,
           CallTryPushAt, Push, PushOf, TryPushCheck, TryPushCheckAt, TryPushClaim,
           RefusePush, ClaimHead, CallTryPop, CallTryPopAt, Pop, TryPopCheck,
           TryPopCheckAt, TryPopClaim, RefusePop, ClaimTail, Clear
  <2>. QED
    BY <1>0, <2>1 DEF LapNeedsFullTurn
<1>. QED
  BY <1>1, <1>2, <1>3

\* Before either counter has passed the capacity no slot is shared, so a queue
\* that is never filled beyond its capacity in all its life is first in, first
\* out whatever calls are made of it.
THEOREM FirstTurnInOrder == Spec => []InOrderWithinCapacity
<1>1. Init => LapNeedsFullTurn
  BY DEF Init, LapNeedsFullTurn
<1>2. IInv /\ LapNeedsFullTurn => InOrderWithinCapacity
  <2>. SUFFICES ASSUME IInv, LapNeedsFullTurn, head <= Capacity, tail <= Capacity
       PROVE InOrder
    BY DEF InOrderWithinCapacity
  <2>1. ~lapped
    BY QueueAssumption DEF IInv, TypeOK, LapNeedsFullTurn
  <2>. QED
    BY <2>1 DEF IInv, SlotsFaithful, InOrder, Stored
<1>. QED
  BY <1>1, <1>2, Invariance, StepLapNeedsFullTurn, PTL DEF Spec

LEMMA StepCountersFaithful ==
  TypeOK /\ CountersFaithful /\ [Next]_vars => CountersFaithful'
<1>. SUFFICES ASSUME Calls \subseteq {"try_push", "try_pop"},
                     TypeOK, CountersFaithful, [Next]_vars
              PROVE  CountersFaithful'
  BY DEF CountersFaithful
<1>. USE DEF CountersFaithful
<1>0. /\ head \in Nat /\ tail \in Nat /\ Capacity \in Nat /\ index \in [Threads -> Nat]
      /\ pc \in [Threads -> Labels]
  BY QueueAssumption DEF TypeOK
<1>1. ASSUME NEW p \in Producers, CallTryPush(p) PROVE CountersFaithful'
  BY <1>0, <1>1 DEF CallTryPush, CallTryPushAt, Goto
<1>2. ASSUME NEW p \in Producers, TryPushCheck(p) PROVE CountersFaithful'
  BY <1>0, <1>2
     DEF TryPushCheck, TryPushCheckAt, LooksFull, RefusePush, Leave, Goto, Threads
<1>3. ASSUME NEW p \in Producers, TryPushClaim(p) PROVE CountersFaithful'
  BY <1>0, <1>3 DEF TryPushClaim, ClaimHead, RefusePush, Leave, Goto, Threads
<1>4. ASSUME NEW p \in Producers, Store(p) PROVE CountersFaithful'
  BY <1>0, <1>4 DEF Store, Leave, Goto
<1>5. ASSUME NEW c \in Consumers, CallTryPop(c) PROVE CountersFaithful'
  BY <1>0, <1>5 DEF CallTryPop, CallTryPopAt, Goto
<1>6. ASSUME NEW c \in Consumers, TryPopCheck(c) PROVE CountersFaithful'
  BY <1>0, <1>6 DEF TryPopCheck, TryPopCheckAt, RefusePop, Leave, Goto, Threads
<1>7. ASSUME NEW c \in Consumers, TryPopClaim(c) PROVE CountersFaithful'
  BY <1>0, <1>7 DEF TryPopClaim, ClaimTail, RefusePop, Leave, Goto, Threads
<1>8. ASSUME NEW c \in Consumers, Take(c) \/ Clear(c) PROVE CountersFaithful'
  BY <1>0, <1>8 DEF Take, Clear, Leave, Goto
<1>9. CASE UNCHANGED vars
  BY <1>9 DEF vars
<1>10. \A t \in Threads : ~Push(t) /\ ~Pop(t)
  BY DEF Push, PushOf, Pop
<1>. QED
  BY <1>1, <1>2, <1>3, <1>4, <1>5, <1>6, <1>7, <1>8, <1>9, <1>10
     DEF Next, PushCall, PushStep, PopCall, PopStep, Threads

\* Where only try_push and try_pop are used, tail never passes head and head
\* never passes tail by more than Capacity, for any number of threads.
THEOREM CountersBounded == Spec => []SizeWithinCapacity
<1>1. Init => CountersFaithful
  BY QueueAssumption DEF Init, CountersFaithful
<1>2. CountersFaithful => SizeWithinCapacity
  BY DEF CountersFaithful, SizeWithinCapacity
<1>. QED
  BY <1>1, <1>2, TypeCorrect, StepCountersFaithful, PTL DEF Spec

(***************************************************************************)
(* Refusals                                                                *)
(***************************************************************************)

LEMMA StepLocalsFresh == TypeOK /\ LocalsFresh /\ [Next]_vars => LocalsFresh'
<1>. SUFFICES ASSUME TypeOK, LocalsFresh, [Next]_vars PROVE LocalsFresh'
  OBVIOUS
<1>. USE DEF LocalsFresh, OneProducer, OneConsumer
<1>0. /\ head \in Nat /\ tail \in Nat /\ index \in [Threads -> Nat]
      /\ pc \in [Threads -> Labels]
  BY DEF TypeOK
<1>1. ASSUME NEW p \in Producers, CallTryPush(p) PROVE LocalsFresh'
  BY <1>0, <1>1 DEF CallTryPush, CallTryPushAt, Goto, Threads
<1>2. ASSUME NEW p \in Producers, TryPushCheck(p) PROVE LocalsFresh'
  BY <1>0, <1>2 DEF TryPushCheck, TryPushCheckAt, RefusePush, Leave, Goto, Threads
<1>3. ASSUME NEW p \in Producers, TryPushClaim(p) PROVE LocalsFresh'
  BY <1>0, <1>3 DEF TryPushClaim, ClaimHead, RefusePush, Leave, Goto, Threads
<1>4. ASSUME NEW p \in Producers, Push(p) PROVE LocalsFresh'
  BY <1>0, <1>4 DEF Push, PushOf, ClaimHead, Goto, Threads
<1>5. ASSUME NEW p \in Producers, Store(p) PROVE LocalsFresh'
  BY <1>0, <1>5 DEF Store, Leave, Goto, Threads
<1>6. ASSUME NEW c \in Consumers, CallTryPop(c) PROVE LocalsFresh'
  BY <1>0, <1>6 DEF CallTryPop, CallTryPopAt, Goto, Threads
<1>7. ASSUME NEW c \in Consumers, TryPopCheck(c) PROVE LocalsFresh'
  BY <1>0, <1>7 DEF TryPopCheck, TryPopCheckAt, RefusePop, Leave, Goto, Threads
<1>8. ASSUME NEW c \in Consumers, TryPopClaim(c) PROVE LocalsFresh'
  BY <1>0, <1>8 DEF TryPopClaim, ClaimTail, RefusePop, Leave, Goto, Threads
<1>9. ASSUME NEW c \in Consumers, Pop(c) PROVE LocalsFresh'
  BY <1>0, <1>9 DEF Pop, ClaimTail, Goto, Threads
<1>10. ASSUME NEW c \in Consumers, Take(c) \/ Clear(c) PROVE LocalsFresh'
  BY <1>0, <1>10 DEF Take, Clear, Leave, Goto, Threads
<1>11. CASE UNCHANGED vars
  BY <1>11 DEF vars
<1>. QED
  BY <1>1, <1>2, <1>3, <1>4, <1>5, <1>6, <1>7, <1>8, <1>9, <1>10, <1>11
     DEF Next, PushCall, PushStep, PopCall, PopStep

LEMMA AlwaysLocalsFresh == Spec => []LocalsFresh
<1>1. Init => LocalsFresh
  BY DEF Init, LocalsFresh, Threads
<1>. QED
  BY <1>1, TypeCorrect, StepLocalsFresh, PTL DEF Spec

LEMMA StepLocalsBehind == TypeOK /\ LocalsBehind /\ [Next]_vars => LocalsBehind'
<1>. SUFFICES ASSUME TypeOK, LocalsBehind, [Next]_vars PROVE LocalsBehind'
  OBVIOUS
<1>. USE DEF LocalsBehind
<1>0. /\ head \in Nat /\ tail \in Nat /\ index \in [Threads -> Nat]
      /\ pc \in [Threads -> Labels]
  BY DEF TypeOK
<1>1. ASSUME NEW p \in Producers, CallTryPush(p) PROVE LocalsBehind'
  BY <1>0, <1>1 DEF CallTryPush, CallTryPushAt, Goto, Threads
<1>2. ASSUME NEW p \in Producers, TryPushCheck(p) PROVE LocalsBehind'
  BY <1>0, <1>2 DEF TryPushCheck, TryPushCheckAt, RefusePush, Leave, Goto, Threads
<1>3. ASSUME NEW p \in Producers, TryPushClaim(p) PROVE LocalsBehind'
  BY <1>0, <1>3 DEF TryPushClaim, ClaimHead, RefusePush, Leave, Goto, Threads
<1>4. ASSUME NEW p \in Producers, Push(p) PROVE LocalsBehind'
  BY <1>0, <1>4 DEF Push, PushOf, ClaimHead, Goto, Threads
<1>5. ASSUME NEW p \in Producers, Store(p) PROVE LocalsBehind'
  BY <1>0, <1>5 DEF Store, Leave, Goto, Threads
<1>6. ASSUME NEW c \in Consumers, CallTryPop(c) PROVE LocalsBehind'
  BY <1>0, <1>6 DEF CallTryPop, CallTryPopAt, Goto, Threads
<1>7. ASSUME NEW c \in Consumers, TryPopCheck(c) PROVE LocalsBehind'
  BY <1>0, <1>7 DEF TryPopCheck, TryPopCheckAt, RefusePop, Leave, Goto, Threads
<1>8. ASSUME NEW c \in Consumers, TryPopClaim(c) PROVE LocalsBehind'
  BY <1>0, <1>8 DEF TryPopClaim, ClaimTail, RefusePop, Leave, Goto, Threads
<1>9. ASSUME NEW c \in Consumers, Pop(c) PROVE LocalsBehind'
  BY <1>0, <1>9 DEF Pop, ClaimTail, Goto, Threads
<1>10. ASSUME NEW c \in Consumers, Take(c) \/ Clear(c) PROVE LocalsBehind'
  BY <1>0, <1>10 DEF Take, Clear, Leave, Goto, Threads
<1>11. CASE UNCHANGED vars
  BY <1>11 DEF vars
<1>. QED
  BY <1>1, <1>2, <1>3, <1>4, <1>5, <1>6, <1>7, <1>8, <1>9, <1>10, <1>11
     DEF Next, PushCall, PushStep, PopCall, PopStep

LEMMA AlwaysLocalsBehind == Spec => []LocalsBehind
<1>1. Init => LocalsBehind
  BY DEF Init, LocalsBehind, Threads
<1>. QED
  BY <1>1, TypeCorrect, StepLocalsBehind, PTL DEF Spec

\* A step that returns from a try_push before its claim is its refusal.
LEMMA PushRefusal ==
  ASSUME TypeOK, [Next]_vars, NEW p \in Producers,
         pc[p] \in {"push_check", "push_cas"}, pc'[p] = "idle"
  PROVE  /\ UNCHANGED <<head, tail>>
         /\ \/ pc[p] = "push_check" /\ LooksFull(index[p], tail)
            \/ pc[p] = "push_cas" /\ head # index[p]
<1>. USE DEF TypeOK, Goto, Leave, Threads
<1>1. ~UNCHANGED vars
  BY DEF vars
<1>2. TryPushCheck(p) \/ TryPushClaim(p)
  <2>1. ASSUME NEW q \in Producers, PushCall(q) \/ Store(q) PROVE FALSE
    BY <2>1 DEF PushCall, CallTryPush, CallTryPushAt, Push, PushOf, ClaimHead, Store
  <2>2. ASSUME NEW q \in Producers, q # p, TryPushCheck(q) \/ TryPushClaim(q) PROVE FALSE
    BY <2>2 DEF TryPushCheck, TryPushCheckAt, TryPushClaim, ClaimHead, RefusePush
  <2>3. ASSUME NEW c \in Consumers, PopCall(c) \/ PopStep(c) PROVE FALSE
    BY <2>3
       DEF PopCall, PopStep, CallTryPop, CallTryPopAt, Pop, ClaimTail, TryPopCheck,
           TryPopCheckAt, TryPopClaim, RefusePop, Take, Clear
  <2>. QED
    BY <1>1, <2>1, <2>2, <2>3 DEF Next, PushStep
<1>. QED
  BY <1>2 DEF TryPushCheck, TryPushCheckAt, TryPushClaim, ClaimHead, RefusePush

\* A step that returns from a try_pop before its claim is its refusal.
LEMMA PopRefusal ==
  ASSUME TypeOK, [Next]_vars, NEW c \in Consumers,
         pc[c] \in {"pop_check", "pop_cas"}, pc'[c] = "idle"
  PROVE  \/ pc[c] = "pop_check" /\ index[c] = head
         \/ pc[c] = "pop_cas" /\ tail # index[c]
<1>. USE DEF TypeOK, Goto, Leave, Threads
<1>1. ~UNCHANGED vars
  BY DEF vars
<1>2. TryPopCheck(c) \/ TryPopClaim(c)
  <2>1. ASSUME NEW d \in Consumers, PopCall(d) \/ Take(d) \/ Clear(d) PROVE FALSE
    BY <2>1 DEF PopCall, CallTryPop, CallTryPopAt, Pop, ClaimTail, Take, Clear
  <2>2. ASSUME NEW d \in Consumers, d # c, TryPopCheck(d) \/ TryPopClaim(d) PROVE FALSE
    BY <2>2 DEF TryPopCheck, TryPopCheckAt, TryPopClaim, ClaimTail, RefusePop
  <2>3. ASSUME NEW p \in Producers, PushCall(p) \/ PushStep(p) PROVE FALSE
    BY <2>3
       DEF PushCall, PushStep, CallTryPush, CallTryPushAt, Push, PushOf, ClaimHead,
           TryPushCheck, TryPushCheckAt, TryPushClaim, RefusePush, Store
  <2>. QED
    BY <1>1, <2>1, <2>2, <2>3 DEF Next, PopStep
<1>. QED
  BY <1>2 DEF TryPopCheck, TryPopCheckAt, TryPopClaim, ClaimTail

\* Whatever calls any number of threads make, a refused try_push has met a full
\* queue, or another push has claimed an index since the call began, or pops
\* wait for more elements than the queue holds.
THEOREM RefusedOnlyWhenFull == Spec => RefusedPushMeansFull
<1>1. TypeOK /\ LocalsBehind /\ [Next]_vars =>
        [\A p \in Producers : PushRefused(p) =>
           head - tail >= Capacity \/ index[p] < head \/ head < tail]_vars
  <2>. SUFFICES ASSUME TypeOK, LocalsBehind, [Next]_vars,
                       NEW p \in Producers, PushRefused(p)
                PROVE  head - tail >= Capacity \/ index[p] < head \/ head < tail
    OBVIOUS
  <2>1. index[p] <= head /\ index[p] \in Nat /\ head \in Nat /\ tail \in Nat
    BY DEF LocalsBehind, TypeOK, PushRefused, Threads
  <2>2. LooksFull(index[p], tail) \/ head # index[p]
    BY PushRefusal DEF PushRefused
  <2>. QED
    BY <2>1, <2>2 DEF LooksFull
<1>. QED
  BY <1>1, TypeCorrect, AlwaysLocalsBehind, PTL DEF Spec, RefusedPushMeansFull

\* A refused try_pop has met an empty queue, or another pop has claimed an index
\* since the call began.
THEOREM RefusedOnlyWhenEmpty == Spec => RefusedPopMeansEmpty
<1>1. TypeOK /\ LocalsBehind /\ [Next]_vars =>
        [\A c \in Consumers : PopRefused(c) => head <= tail \/ index[c] < tail]_vars
  <2>. SUFFICES ASSUME TypeOK, LocalsBehind, [Next]_vars,
                       NEW c \in Consumers, PopRefused(c)
                PROVE  head <= tail \/ index[c] < tail
    OBVIOUS
  <2>1. index[c] <= tail /\ index[c] \in Nat /\ head \in Nat /\ tail \in Nat
    BY DEF LocalsBehind, TypeOK, PopRefused, Threads
  <2>2. index[c] = head \/ tail # index[c]
    BY PopRefusal DEF PopRefused
  <2>. QED
    BY <2>1, <2>2
<1>. QED
  BY <1>1, TypeCorrect, AlwaysLocalsBehind, PTL DEF Spec, RefusedPopMeansEmpty

\* The sole producer of a queue nobody calls pop of is refused only when the
\* counters are Capacity apart, whatever the consumers do during its call.
THEOREM SoleRefusedOnlyWhenFull == Spec => SoleRefusedPushMeansFull
<1>1. TypeOK /\ LocalsFresh /\ [Next]_vars =>
        [OneProducer /\ "pop" \notin Calls =>
           \A p \in Producers : PushRefused(p) => head - tail >= Capacity]_vars
  <2>. SUFFICES ASSUME TypeOK, LocalsFresh, [Next]_vars,
                       OneProducer, "pop" \notin Calls,
                       NEW p \in Producers, PushRefused(p)
                PROVE  head - tail >= Capacity
    OBVIOUS
  <2>1. index[p] = head /\ tail <= head /\ head \in Nat /\ tail \in Nat
    BY DEF LocalsFresh, TypeOK, PushRefused
  <2>2. LooksFull(index[p], tail)
    BY <2>1, PushRefusal DEF PushRefused
  <2>. QED
    BY <2>1, <2>2 DEF LooksFull
<1>. QED
  BY <1>1, TypeCorrect, AlwaysLocalsFresh, PTL DEF Spec, SoleRefusedPushMeansFull

\* The sole consumer of a queue is told it is empty only when every index that
\* a push has claimed has been claimed by a pop, whatever the producers do.
THEOREM SoleRefusedOnlyWhenEmpty == Spec => SoleRefusedPopMeansEmpty
<1>1. TypeOK /\ LocalsFresh /\ [Next]_vars =>
        [OneConsumer =>
           \A c \in Consumers : PopRefused(c) => head <= tail]_vars
  <2>. SUFFICES ASSUME TypeOK, LocalsFresh, [Next]_vars, OneConsumer,
                       NEW c \in Consumers, PopRefused(c)
                PROVE  head <= tail
    OBVIOUS
  <2>1. index[c] = tail /\ head \in Nat /\ tail \in Nat
    BY DEF LocalsFresh, TypeOK, PopRefused
  <2>. QED
    BY <2>1, PopRefusal DEF PopRefused
<1>. QED
  BY <1>1, TypeCorrect, AlwaysLocalsFresh, PTL DEF Spec, SoleRefusedPopMeansEmpty

(***************************************************************************)
(* The refinement                                                          *)
(***************************************************************************)

\* A try_push that claims puts an element, a try_pop that claims gets one, and
\* every other step leaves the counters and what was claimed alone.
ClaimPuts(v) ==
  /\ head' = head + 1 /\ tail' = tail /\ claimed' = Extend(claimed, head, v)
  /\ head - tail < Capacity

ClaimGets ==
  /\ tail' = tail + 1 /\ UNCHANGED <<head, claimed>>
  /\ tail < head

LEMMA ClaimEffect ==
  ASSUME Calls \subseteq {"try_push", "try_pop"}, TypeOK, CountersFaithful, [Next]_vars
  PROVE  UNCHANGED <<head, tail, claimed>> \/ ClaimGets \/ \E v \in Elements : ClaimPuts(v)
<1>. DEFINE Quiet == UNCHANGED <<head, tail, claimed>>
<1>0. /\ head \in Nat /\ tail \in Nat /\ index \in [Threads -> Nat]
      /\ Producers \subseteq Threads /\ Consumers \subseteq Threads
  BY DEF TypeOK, Threads
<1>1. ASSUME NEW p \in Producers, TryPushClaim(p)
      PROVE  Quiet \/ \E v \in Elements : ClaimPuts(v)
  <2>1. CASE head = index[p] /\ ClaimHead(p, element[p]) /\ pc[p] = "push_cas"
    <3>1. element[p] \in Elements
      BY <1>0, <2>1 DEF TypeOK
    <3>2. head - tail < Capacity
      BY <1>0, <2>1 DEF CountersFaithful
    <3>. QED
      BY <2>1, <3>1, <3>2 DEF ClaimHead, ClaimPuts
  <2>2. CASE RefusePush(p)
    BY <2>2 DEF RefusePush
  <2>. QED
    BY <1>1, <2>1, <2>2 DEF TryPushClaim
<1>2. ASSUME NEW c \in Consumers, TryPopClaim(c) PROVE Quiet \/ ClaimGets
  <2>1. CASE tail = index[c] /\ ClaimTail(c) /\ pc[c] = "pop_cas"
    <3>1. tail < head
      BY <1>0, <2>1 DEF CountersFaithful
    <3>. QED
      BY <2>1, <3>1 DEF ClaimTail, ClaimGets
  <2>2. CASE RefusePop(c)
    BY <2>2 DEF RefusePop
  <2>. QED
    BY <1>2, <2>1, <2>2 DEF TryPopClaim
<1>3. ASSUME NEW p \in Producers, CallTryPush(p) \/ TryPushCheck(p) \/ Store(p) PROVE Quiet
  BY <1>3
     DEF CallTryPush, CallTryPushAt, TryPushCheck, TryPushCheckAt, RefusePush, Store
<1>4. ASSUME NEW c \in Consumers, CallTryPop(c) \/ TryPopCheck(c) \/ Take(c) \/ Clear(c)
      PROVE  Quiet
  BY <1>4
     DEF CallTryPop, CallTryPopAt, TryPopCheck, TryPopCheckAt, RefusePop, Take,
         Clear
<1>5. \A t \in Threads : ~Push(t) /\ ~Pop(t)
  BY DEF Push, PushOf, Pop
<1>. QED
  BY <1>0, <1>1, <1>2, <1>3, <1>4, <1>5
     DEF Next, PushCall, PushStep, PopCall, PopStep, vars

\* What a claim may be for
Contents == Elements \cup {Zero}

\* The stretches of a function on the first numbers
LEMMA SpanType ==
  ASSUME NEW f, NEW i \in Nat, NEW j \in Nat, i <= j,
         \A n \in i .. (j - 1) : f[n] \in Contents
  PROVE  /\ Span(f, i, j) \in Seq(Contents) /\ Len(Span(f, i, j)) = j - i
         /\ \A n \in 1 .. (j - i) : Span(f, i, j)[n] = f[i + n - 1]
<1>1. \A n \in 1 .. (j - i) : i + n - 1 \in i .. (j - 1)
  OBVIOUS
<1>2. Span(f, i, j) \in [1 .. (j - i) -> Contents] /\ j - i \in Nat
  BY <1>1 DEF Span
<1>3. Span(f, i, j) \in Seq(Contents)
  BY <1>2, SeqDef
<1>. QED
  BY <1>2, <1>3, LenProperties DEF Span

\* A sequence with one element more than another is that one with an Append.
LEMMA AppendOne ==
  ASSUME NEW S, NEW s \in Seq(S), NEW t \in Seq(S), Len(t) = Len(s) + 1,
         \A n \in 1 .. Len(s) : t[n] = s[n]
  PROVE  t = Append(s, t[Len(s) + 1])
<1>1. Len(s) \in Nat /\ t[Len(s) + 1] \in S
  BY LenProperties, ElementOfSeq
<1>2. /\ Append(s, t[Len(s) + 1]) \in Seq(S)
      /\ Len(Append(s, t[Len(s) + 1])) = Len(s) + 1
      /\ \A n \in 1 .. Len(s) : Append(s, t[Len(s) + 1])[n] = s[n]
      /\ Append(s, t[Len(s) + 1])[Len(s) + 1] = t[Len(s) + 1]
  BY <1>1, AppendProperties
<1>3. \A n \in 1 .. (Len(s) + 1) : t[n] = Append(s, t[Len(s) + 1])[n]
  <2>1. \A n \in 1 .. (Len(s) + 1) : n \in 1 .. Len(s) \/ n = Len(s) + 1
    BY <1>1
  <2>. QED
    BY <1>2, <2>1
<1>. QED
  BY <1>2, <1>3, SeqEqual

\* One number more, and the same stretch of a function that agrees
LEMMA SpanGrows ==
  ASSUME NEW f, NEW g, NEW i \in Nat, NEW j \in Nat, i <= j,
         \A n \in i .. (j - 1) : f[n] \in Contents /\ g[n] = f[n]
  PROVE  /\ Span(g, i, j) = Span(f, i, j)
         /\ g[j] \in Contents => Span(g, i, j + 1) = Append(Span(f, i, j), g[j])
<1>1. /\ Span(f, i, j) \in Seq(Contents) /\ Len(Span(f, i, j)) = j - i
      /\ \A n \in 1 .. (j - i) : Span(f, i, j)[n] = f[i + n - 1]
  BY SpanType
<1>2. /\ Span(g, i, j) \in Seq(Contents) /\ Len(Span(g, i, j)) = j - i
      /\ \A n \in 1 .. (j - i) : Span(g, i, j)[n] = g[i + n - 1]
  BY SpanType
<1>3. \A n \in 1 .. (j - i) : g[i + n - 1] = f[i + n - 1]
  OBVIOUS
<1>4. Span(g, i, j) = Span(f, i, j)
  BY <1>1, <1>2, <1>3, SeqEqual
<1>5. ASSUME g[j] \in Contents PROVE Span(g, i, j + 1) = Append(Span(f, i, j), g[j])
  <2>0. \A n \in i .. (j + 1 - 1) : g[n] \in Contents
    <3>1. \A n \in i .. (j + 1 - 1) : n \in i .. (j - 1) \/ n = j
      OBVIOUS
    <3>. QED
      BY <1>5, <3>1
  <2>1. /\ Span(g, i, j + 1) \in Seq(Contents) /\ Len(Span(g, i, j + 1)) = j + 1 - i
        /\ \A n \in 1 .. (j + 1 - i) : Span(g, i, j + 1)[n] = g[i + n - 1]
    <3>1. PICK k \in Nat : k = j + 1
      OBVIOUS
    <3>2. i <= k /\ k - i = j + 1 - i /\ \A n \in i .. (k - 1) : g[n] \in Contents
      BY <2>0, <3>1
    <3>. QED
      BY <3>1, <3>2, SpanType
  <2>2. Span(g, i, j + 1)[j - i + 1] = g[j]
    BY <2>1
  <2>3. \A n \in 1 .. (j - i) : Span(g, i, j + 1)[n] = Span(f, i, j)[n]
    BY <1>1, <1>3, <2>1
  <2>. QED
    BY <1>1, <2>1, <2>2, <2>3, AppendOne
<1>. QED
  BY <1>4, <1>5

\* The first of a stretch, and the stretch that is left without it
LEMMA SpanShrinks ==
  ASSUME NEW f, NEW i \in Nat, NEW j \in Nat, i < j,
         \A n \in i .. (j - 1) : f[n] \in Contents
  PROVE  /\ Span(f, i, j) # <<>> /\ Head(Span(f, i, j)) = f[i]
         /\ Tail(Span(f, i, j)) = Span(f, i + 1, j)
<1>1. /\ Span(f, i, j) \in Seq(Contents) /\ Len(Span(f, i, j)) = j - i
      /\ \A n \in 1 .. (j - i) : Span(f, i, j)[n] = f[i + n - 1]
  <2>1. i <= j
    OBVIOUS
  <2>. QED
    BY <2>1, SpanType
<1>2. /\ Span(f, i + 1, j) \in Seq(Contents) /\ Len(Span(f, i + 1, j)) = j - i - 1
      /\ \A n \in 1 .. (j - i - 1) : Span(f, i + 1, j)[n] = f[i + n]
  <2>1. i + 1 \in Nat /\ i + 1 <= j /\ \A n \in (i + 1) .. (j - 1) : f[n] \in Contents
    OBVIOUS
  <2>2. j - (i + 1) = j - i - 1 /\ \A n \in 1 .. (j - i - 1) : (i + 1) + n - 1 = i + n
    OBVIOUS
  <2>. QED
    BY <2>1, <2>2, SpanType
<1>3. Span(f, i, j) # <<>>
  BY <1>1, EmptySeq
<1>4. Head(Span(f, i, j)) = f[i]
  BY <1>1, <1>3
<1>5. /\ Tail(Span(f, i, j)) \in Seq(Contents) /\ Len(Tail(Span(f, i, j))) = j - i - 1
      /\ \A n \in 1 .. (j - i - 1) : Tail(Span(f, i, j))[n] = Span(f, i, j)[n + 1]
  BY <1>1, <1>3, HeadTailProperties
<1>6. \A n \in 1 .. (j - i - 1) : Tail(Span(f, i, j))[n] = Span(f, i + 1, j)[n]
  BY <1>1, <1>2, <1>5
<1>. QED
  BY <1>2, <1>3, <1>4, <1>5, <1>6, SeqEqual

\* A step of the queue is a step of the abstract one, or none: the call takes
\* effect at its compare_exchange.
LEMMA StepClaims ==
  ASSUME Calls \subseteq {"try_push", "try_pop"}, TypeOK, TypeOK', CountersFaithful,
         [Next]_vars
  PROVE  [Claims!Next]_<<Span(claimed, tail, head), Span(claimed, 0, tail)>>
<1>0. /\ head \in Nat /\ tail \in Nat /\ tail <= head
      /\ \A n \in 0 .. (head - 1) : claimed[n] \in Contents
      /\ head' \in Nat /\ tail' \in Nat
  BY DEF TypeOK, CountersFaithful, Contents
<1>1. CASE UNCHANGED <<head, tail, claimed>>
  BY <1>1
<1>2. ASSUME NEW v \in Elements, ClaimPuts(v) PROVE Claims!Put(v)
  <2>1. claimed'[head] = v /\ \A n \in 0 .. (head - 1) : claimed'[n] = claimed[n]
    <3>1. DOMAIN claimed = 0 .. (head - 1)
      BY DEF TypeOK
    <3>. QED
      BY <1>0, <1>2, <3>1 DEF ClaimPuts, Extend
  <2>0. v \in Contents
    BY DEF Contents
  <2>2. Len(Span(claimed, tail, head)) < Capacity
    <3>1. \A n \in tail .. (head - 1) : claimed[n] \in Contents
      BY <1>0
    <3>2. Len(Span(claimed, tail, head)) = head - tail
      BY <1>0, <3>1, SpanType
    <3>. QED
      BY <1>2, <3>2 DEF ClaimPuts
  <2>3. Span(claimed', tail, head + 1) = Append(Span(claimed, tail, head), v)
    <3>1. \A n \in tail .. (head - 1) : claimed[n] \in Contents /\ claimed'[n] = claimed[n]
      BY <1>0, <2>1
    <3>. QED
      BY <1>0, <2>0, <2>1, <3>1, SpanGrows
  <2>4. Span(claimed', 0, tail) = Span(claimed, 0, tail)
    BY <1>0, <1>2, <2>1, SpanGrows DEF ClaimPuts
  <2>. QED
    BY <1>2, <2>2, <2>3, <2>4 DEF ClaimPuts, Claims!Put
<1>3. ASSUME ClaimGets PROVE Claims!Get
  <2>1. tail < head /\ tail' = tail + 1 /\ head' = head /\ claimed' = claimed
    BY <1>3 DEF ClaimGets
  <2>2. /\ Span(claimed, tail, head) # <<>>
        /\ Head(Span(claimed, tail, head)) = claimed[tail]
        /\ Tail(Span(claimed, tail, head)) = Span(claimed, tail + 1, head)
    BY <1>0, <2>1, SpanShrinks
  <2>3. Span(claimed, 0, tail + 1) = Append(Span(claimed, 0, tail), claimed[tail])
    BY <1>0, <2>1, SpanGrows
  <2>. QED
    BY <2>1, <2>2, <2>3 DEF Claims!Get
<1>. QED
  BY <1>1, <1>2, <1>3, ClaimEffect DEF Claims!Next

\* With try_push and try_pop alone, whatever the counters were when a call read them,
\* the claims make a bounded first-in first-out queue, for any number of threads and
\* every capacity.
THEOREM ClaimsRefineFifo ==
  ASSUME Calls \subseteq {"try_push", "try_pop"} PROVE Spec => ClaimsImplementFifo
<1>1. Init => Claims!Init
  <2>. SUFFICES ASSUME Init PROVE Claims!Init
    OBVIOUS
  <2>1. head = 0 /\ tail = 0
    BY DEF Init
  <2>2. Span(claimed, 0, 0) = <<>>
    <3>1. Span(claimed, 0, 0) \in Seq(Contents) /\ Len(Span(claimed, 0, 0)) = 0
      BY <2>1, SpanType
    <3>. QED
      BY <3>1, EmptySeq
  <2>. QED
    BY <2>1, <2>2 DEF Claims!Init
<1>2. Init => CountersFaithful
  BY QueueAssumption DEF Init, CountersFaithful
<1>3. /\ TypeOK /\ TypeOK' /\ CountersFaithful /\ [Next]_vars
      => [Claims!Next]_<<Span(claimed, tail, head), Span(claimed, 0, tail)>>
  BY StepClaims
<1>. QED
  BY <1>1, <1>2, <1>3, TypeCorrect, StepCountersFaithful, PTL
     DEF Spec, ClaimsImplementFifo, Claims!Spec
=============================================================================
