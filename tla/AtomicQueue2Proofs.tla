------------------------- MODULE AtomicQueue2Proofs -------------------------
(***************************************************************************)
(* Proofs, for every capacity, every set of elements and every mix of      *)
(* calls, of the safety of a queue built with SPSC, and that in one built  *)
(* with TOTAL_ORDER for any number of threads the pushes and pops are      *)
(* matched slot by slot, so that a balanced queue is never stuck, and no   *)
(* two own one index.                                                      *)
(***************************************************************************)
EXTENDS AtomicQueue2Invariant, TLAPS, FiniteSetTheorems

(***************************************************************************)
(* Slots                                                                   *)
(***************************************************************************)

LEMMA SlotRange == ASSUME NEW i \in Nat PROVE Slot(i) \in 0 .. (Capacity - 1)
BY Queue2Assumption DEF Slot

LEMMA Quotient ==
  ASSUME NEW i \in Nat, NEW C \in Nat \ {0}
  PROVE  \E q \in Int : i = C * q + (i % C)
BY i = C * (i \div C) + (i % C) /\ i \div C \in Int

\* No multiple of C lies strictly between 0 and C.
LEMMA NoMultipleBetween ==
  ASSUME NEW d \in Int, NEW C \in Nat \ {0}, 0 < C * d, C * d < C
  PROVE  FALSE
<1>1. CASE d <= 0
  BY <1>1
<1>2. CASE d >= 1
  <2>1. C * d = C + C * (d - 1)
    OBVIOUS
  <2>2. C * (d - 1) >= 0
    BY <1>2
  <2>. QED
    BY <2>1, <2>2
<1>. QED
  BY <1>1, <1>2

LEMMA SameRemainder ==
  ASSUME NEW a \in Int, NEW b \in Int, NEW C \in Nat \ {0},
         NEW r \in 0 .. (C - 1), NEW s \in 0 .. (C - 1), C * a + r = C * b + s
  PROVE  r = s
<1>1. /\ C * (b - a) = r - s /\ C * (a - b) = s - r
      /\ a - b \in Int /\ b - a \in Int
  OBVIOUS
<1>2. CASE r > s
  <2>1. 0 < C * (b - a) /\ C * (b - a) < C
    BY <1>1, <1>2
  <2>. QED
    BY <1>1, <2>1, NoMultipleBetween
<1>3. CASE r < s
  <2>1. 0 < C * (a - b) /\ C * (a - b) < C
    BY <1>1, <1>3
  <2>. QED
    BY <1>1, <2>1, NoMultipleBetween
<1>. QED
  BY <1>2, <1>3

\* Indices less than Capacity apart have slots of their own.
LEMMA SlotsApart ==
  ASSUME NEW i \in Nat, NEW j \in Nat, i < j, j - i < Capacity
  PROVE  Slot(i) # Slot(j)
<1>. SUFFICES ASSUME Slot(i) = Slot(j) PROVE FALSE
  OBVIOUS
<1>0. Capacity \in Nat \ {0}
  BY Queue2Assumption
<1>1. PICK a \in Int : i = Capacity * a + Slot(i)
  BY <1>0, Quotient DEF Slot
<1>2. PICK b \in Int : j = Capacity * b + Slot(j)
  BY <1>0, Quotient DEF Slot
<1>3. Slot(i) \in Int
  BY <1>0 DEF Slot
<1>4. j - i = Capacity * (b - a) /\ b - a \in Int
  BY <1>0, <1>1, <1>2, <1>3
<1>5. 0 < Capacity * (b - a) /\ Capacity * (b - a) < Capacity
  BY <1>4
<1>. QED
  BY <1>0, <1>4, <1>5, NoMultipleBetween

\* Indices Capacity apart share a slot.
LEMMA SlotAgain ==
  ASSUME NEW i \in Nat, NEW j \in Nat, j = i + Capacity PROVE Slot(j) = Slot(i)
<1>0. Capacity \in Nat \ {0}
  BY Queue2Assumption
<1>1. PICK a \in Int : i = Capacity * a + Slot(i)
  BY <1>0, Quotient DEF Slot
<1>2. PICK b \in Int : j = Capacity * b + Slot(j)
  BY <1>0, Quotient DEF Slot
<1>3. PICK r \in 0 .. (Capacity - 1) : r = Slot(i)
  BY SlotRange
<1>4. PICK s \in 0 .. (Capacity - 1) : s = Slot(j)
  BY SlotRange
<1>5. i = Capacity * a + r /\ j = Capacity * b + s
  BY <1>1, <1>2, <1>3, <1>4
<1>6. Capacity * (a + 1) = Capacity * a + Capacity
  BY <1>0
<1>7. Capacity * (a + 1) + r = Capacity * b + s
  <2>. Capacity * a \in Int /\ Capacity * b \in Int
    BY <1>0
  <2>. QED
    BY <1>0, <1>5, <1>6
<1>8. r = s
  BY <1>0, <1>7, SameRemainder, a + 1 \in Int
<1>. QED
  BY <1>3, <1>4, <1>8

(***************************************************************************)
(* Types                                                                   *)
(***************************************************************************)

LEMMA InitTypeOK == Init => TypeOK
BY Queue2Assumption DEF Init, TypeOK, Labels, Contents

LEMMA LeaveType ==
  ASSUME TypeOK, NEW t, NEW l \in Labels, Leave(t, l)
  PROVE  /\ pc' \in [Threads -> Labels]
         /\ index' \in [Threads -> Nat]
         /\ element' \in [Threads -> Contents]
BY DEF TypeOK, Leave, Goto, Contents

LEMMA GotoType ==
  ASSUME TypeOK, NEW t, NEW l \in Labels, Goto(t, l)
  PROVE  pc' \in [Threads -> Labels]
BY DEF TypeOK, Goto

LEMMA StepTypeOK == SPSC /\ SpscInv /\ [Next]_vars => TypeOK'
<1>. SUFFICES ASSUME SPSC, SpscInv, [Next]_vars PROVE TypeOK'
  OBVIOUS
<1>0. TypeOK /\ Elements \subseteq Contents /\ head \in Nat
  BY DEF SpscInv, TypeOK, Contents
<1>1. ASSUME NEW p \in Producers, CallTryPush(p) PROVE TypeOK'
  <2>1. PICK v \in Elements : unsent' \subseteq Elements /\ element' = [element EXCEPT ![p] = v]
    BY <1>0, <1>1 DEF CallTryPush, Draw, TypeOK
  <2>2. pc' \in [Threads -> Labels] /\ index' \in [Threads -> Nat]
    BY <1>0, <1>1, GotoType DEF CallTryPush, TypeOK, Labels
  <2>. QED
    BY <1>0, <1>1, <2>1, <2>2 DEF CallTryPush, TypeOK
<1>2. ASSUME NEW p \in Producers, RefusePush(p), pc[p] \in {"push_check", "push_claim"}
      PROVE  TypeOK'
  <2>1. element[p] \in Elements
    BY <1>2 DEF SpscInv, ProducerOK
  <2>. QED
    BY <1>0, <1>2, <2>1, LeaveType DEF RefusePush, TypeOK, Labels
<1>3. ASSUME NEW p \in Producers, TryPushCheck(p) PROVE TypeOK'
  <2>1. CASE RefusePush(p)
    BY <1>2, <1>3, <2>1 DEF TryPushCheck
  <2>2. CASE ~RefusePush(p)
    BY <1>0, <1>3, <2>2, LeaveType, GotoType DEF TryPushCheck, TypeOK, Labels
  <2>. QED
    BY <2>1, <2>2
<1>4. ASSUME NEW p \in Producers, NEW v \in Elements, ClaimHead(p, v),
             index' \in [Threads -> Nat], element' \in [Threads -> Contents],
             unsent' \subseteq Elements
      PROVE  TypeOK'
  <2>1. pc' \in [Threads -> Labels]
    BY <1>0, <1>4, GotoType DEF ClaimHead, Labels
  <2>. QED
    BY <1>0, <1>4, <2>1 DEF ClaimHead, TypeOK
<1>5. ASSUME NEW p \in Producers, TryPushClaim(p) PROVE TypeOK'
  <2>1. element[p] \in Elements
    BY <1>5 DEF SpscInv, ProducerOK, TryPushClaim
  <2>2. CASE RefusePush(p)
    BY <1>2, <1>5, <2>2 DEF TryPushClaim
  <2>3. CASE ClaimHead(p, element[p]) /\ UNCHANGED <<index, element, unsent>>
    BY <1>0, <1>4, <2>1, <2>3 DEF TypeOK
  <2>. QED
    BY <1>5, <2>2, <2>3 DEF TryPushClaim
<1>6. ASSUME NEW p \in Producers, Push(p) PROVE TypeOK'
  <2>1. PICK v \in unsent : Draw(v) /\ PushOf(p, v)
    BY <1>6 DEF Push
  <2>2. v \in Elements /\ unsent' \subseteq Elements
    BY <1>0, <2>1 DEF Draw, TypeOK
  <2>3. index' \in [Threads -> Nat] /\ element' \in [Threads -> Contents]
    BY <1>0, <2>1, <2>2 DEF PushOf, TypeOK
  <2>. QED
    BY <1>4, <2>1, <2>2, <2>3 DEF PushOf
<1>7. ASSUME NEW p \in Producers, AwaitEmpty(p) PROVE TypeOK'
  BY <1>0, <1>7, GotoType DEF AwaitEmpty, TypeOK, Labels
<1>8. ASSUME NEW p \in Producers, Write(p) PROVE TypeOK'
  <2>1. PICK v \in Contents : elements' = [elements EXCEPT ![Slot(index[p])] = v]
    BY <1>0, <1>8 DEF Write, TypeOK, Threads, Contents
  <2>2. pc' \in [Threads -> Labels]
    BY <1>0, <1>8, GotoType DEF Write, Labels
  <2>. QED
    BY <1>0, <1>8, <2>1, <2>2 DEF Write, TypeOK
<1>9. ASSUME NEW p \in Producers, Publish(p) PROVE TypeOK'
  BY <1>0, <1>9, LeaveType DEF Publish, TypeOK, Labels
<1>10. ASSUME NEW c \in Consumers, CallTryPop(c) PROVE TypeOK'
  BY <1>0, <1>10 DEF CallTryPop, Goto, TypeOK, Labels
<1>11. ASSUME NEW c \in Consumers, TryPopCheck(c) PROVE TypeOK'
  BY <1>0, <1>11, LeaveType, GotoType DEF TryPopCheck, RefusePop, TypeOK, Labels
<1>12. ASSUME NEW c \in Consumers, ClaimTail(c), index' \in [Threads -> Nat]
       PROVE  TypeOK'
  BY <1>0, <1>12, GotoType DEF ClaimTail, TypeOK, Labels
<1>13. ASSUME NEW c \in Consumers, TryPopClaim(c) PROVE TypeOK'
  <2>1. CASE RefusePop(c)
    BY <1>0, <2>1, LeaveType DEF RefusePop, TypeOK, Labels
  <2>2. CASE ClaimTail(c) /\ UNCHANGED index
    BY <1>0, <1>12, <2>2 DEF TypeOK
  <2>. QED
    BY <1>13, <2>1, <2>2 DEF TryPopClaim
<1>14. ASSUME NEW c \in Consumers, Pop(c) PROVE TypeOK'
  <2>1. index' \in [Threads -> Nat]
    BY <1>0, <1>14 DEF Pop, TypeOK
  <2>. QED
    BY <1>12, <1>14, <2>1 DEF Pop
<1>15. ASSUME NEW c \in Consumers, AwaitFull(c) PROVE TypeOK'
  BY <1>0, <1>15, GotoType DEF AwaitFull, TypeOK, Labels
<1>16. ASSUME NEW c \in Consumers, Read(c) PROVE TypeOK'
  <2>1. PICK v \in Contents : element' = [element EXCEPT ![c] = v]
    BY <1>0, <1>16, SlotRange DEF Read, TypeOK, Threads, Contents
  <2>2. pc' \in [Threads -> Labels]
    BY <1>0, <1>16, GotoType DEF Read, Labels
  <2>. QED
    BY <1>0, <1>16, <2>1, <2>2 DEF Read, TypeOK
<1>17. ASSUME NEW c \in Consumers, Release(c) PROVE TypeOK'
  <2>1. element[c] \in Contents /\ Len(received) + 1 = tail
    BY <1>0, <1>17 DEF SpscInv, TypeOK, Threads, Release, Popping, Returned
  <2>2. received' \in Seq(Contents) /\ Len(received') = Len(received) + 1
    BY <1>0, <1>17, <2>1 DEF Release, TypeOK
  <2>3. states' \in [0 .. (Capacity - 1) -> {"EMPTY", "FULL"}]
    BY <1>0, <1>17 DEF Release, TypeOK
  <2>4. Leave(c, "idle") /\ UNCHANGED <<head, tail, elements, unsent, sent, dropped>>
    BY <1>17 DEF Release
  <2>5. /\ pc' \in [Threads -> Labels]
        /\ index' \in [Threads -> Nat]
        /\ element' \in [Threads -> Contents]
    BY <1>0, <2>4, LeaveType DEF Labels
  <2>. QED
    BY <1>0, <2>1, <2>2, <2>3, <2>4, <2>5 DEF TypeOK
<1>18. CASE Drop
  BY <1>0, <1>18 DEF Drop, TypeOK, Labels
<1>19. CASE UNCHANGED vars
  BY <1>0, <1>19 DEF vars, TypeOK
<1>. QED
  BY <1>1, <1>3, <1>5, <1>6, <1>7, <1>8, <1>9, <1>10, <1>11, <1>13, <1>14, <1>15,
     <1>16, <1>17, <1>18, <1>19
     DEF Next, PushCall, PushStep, PopCall, PopStep

(***************************************************************************)
(* The two threads                                                         *)
(***************************************************************************)

Claimed == {"offer", "write", "publish"}
Waiting == {"wait", "read", "release"}

\* What a step of the producer does to the labels
LEMMA ProducerMoves ==
  ASSUME SPSC, TypeOK, NEW p \in Producers, NEW l, Goto(p, l)
  PROVE  /\ pc'[p] = l /\ \A q \in Producers : q = p
         /\ \A c \in Consumers : c # p /\ pc'[c] = pc[c]
         /\ Pushing <=> pc[p] \in Claimed
         /\ Pushing' <=> l \in Claimed
         /\ Popping' <=> Popping
<1>1. pc'[p] = l /\ \A t \in Threads : t # p => pc'[t] = pc[t]
  BY DEF TypeOK, Goto, Threads
<1>2. (\A q \in Producers : q = p) /\ (\A c \in Consumers : c # p)
  BY SingleAssumption
<1>. QED
  BY <1>1, <1>2 DEF Pushing, Popping, Claimed, Threads

\* What a step of the consumer does
LEMMA ConsumerMoves ==
  ASSUME SPSC, TypeOK, NEW c \in Consumers, NEW l, Goto(c, l)
  PROVE  /\ pc'[c] = l /\ \A d \in Consumers : d = c
         /\ \A p \in Producers : p # c /\ pc'[p] = pc[p]
         /\ Popping <=> pc[c] \in Waiting
         /\ Popping' <=> l \in Waiting
         /\ Pushing' <=> Pushing
<1>1. pc'[c] = l /\ \A t \in Threads : t # c => pc'[t] = pc[t]
  BY DEF TypeOK, Goto, Threads
<1>2. (\A d \in Consumers : d = c) /\ (\A p \in Producers : p # c)
  BY SingleAssumption
<1>. QED
  BY <1>1, <1>2 DEF Pushing, Popping, Waiting, Threads

\* The counts are numbers, and no more is visible than has been sent.
LEMMA Counts ==
  ASSUME SPSC, SpscInv
  PROVE  /\ head \in Nat /\ tail \in Nat /\ Returned \in Nat /\ Visible \in Nat
         /\ Capacity \in Nat /\ Capacity > 0 /\ Visible <= head /\ head = Len(sent)
         /\ Returned <= Visible /\ Visible - Returned <= Capacity
<1>1. Pushing => head > 0
  BY DEF SpscInv, ProducerOK, Pushing
<1>. QED
  BY <1>1, Queue2Assumption DEF SpscInv, TypeOK, SlotsOK, Returned, Visible

\* A step of the producer that publishes nothing keeps what concerns the
\* consumer; one that publishes adds to it.
LEMMA ProducerFrame ==
  ASSUME SPSC, SpscInv, TypeOK', NEW p \in Producers, NEW l, Goto(p, l),
         \A c \in Consumers : index'[c] = index[c] /\ element'[c] = element[c],
         UNCHANGED <<tail, received>>, Visible' \in Nat, Visible' >= Visible,
         \A i \in 1 .. Len(sent) : sent'[i] = sent[i],
         ProducerOK(p)', SlotsOK'
  PROVE  SpscInv'
<1>0. TypeOK /\ Returned' = Returned
  BY DEF SpscInv, Returned
<1>1. /\ \A q \in Producers : q = p
      /\ \A c \in Consumers : pc'[c] = pc[c]
      /\ Popping' <=> Popping
  BY <1>0, ProducerMoves
<1>2. ASSUME NEW c \in Consumers PROVE ConsumerOK(c)'
  <2>1. ConsumerOK(c) /\ index'[c] = index[c] /\ element'[c] = element[c]
    BY DEF SpscInv
  <2>2. Returned < Visible => sent'[Returned + 1] = sent[Returned + 1]
    BY Counts
  <2>. QED
    BY <1>0, <1>1, <2>1, <2>2, Counts DEF ConsumerOK
<1>3. \A i \in 1 .. Returned : sent'[i] = sent[i]
  BY Counts
<1>. QED
  BY <1>0, <1>1, <1>2, <1>3 DEF SpscInv

\* A step of the consumer keeps what concerns the producer.
LEMMA ConsumerFrame ==
  ASSUME SPSC, SpscInv, TypeOK', NEW c \in Consumers, NEW l, Goto(c, l),
         \A p \in Producers : index'[p] = index[p] /\ element'[p] = element[p],
         UNCHANGED <<head, sent, elements>>,
         Returned' \in Nat, Returned' >= Returned,
         ConsumerOK(c)', SlotsOK',
         tail' = IF l \in Waiting THEN Returned' + 1 ELSE Returned',
         \A i \in 1 .. Returned' : received'[i] = sent[i]
  PROVE  SpscInv'
<1>0. TypeOK
  BY DEF SpscInv
<1>1. /\ \A d \in Consumers : d = c
      /\ \A p \in Producers : pc'[p] = pc[p]
      /\ Popping' <=> l \in Waiting
      /\ Pushing' <=> Pushing
  BY <1>0, ConsumerMoves
<1>2. Visible' = Visible
  BY <1>1 DEF Visible
<1>3. ASSUME NEW p \in Producers PROVE ProducerOK(p)'
  <2>1. ProducerOK(p) /\ index'[p] = index[p] /\ element'[p] = element[p]
    BY DEF SpscInv
  <2>2. Visible - Returned < Capacity => Visible' - Returned' < Capacity
    BY <1>2, Counts
  <2>. QED
    BY <1>1, <2>1, <2>2 DEF ProducerOK, Slot
<1>. QED
  BY <1>1, <1>3 DEF SpscInv

\* A step that publishes nothing, returns nothing and writes no slot
LEMMA QuietSlots ==
  ASSUME SPSC, SpscInv, Visible' = Visible, UNCHANGED <<states, elements, received>>,
         \A i \in 1 .. Len(sent) : sent'[i] = sent[i]
  PROVE  SlotsOK'
<1>1. Returned' = Returned
  BY DEF Returned
<1>2. \A i \in Returned .. (Visible - 1) : sent'[i + 1] = sent[i + 1]
  BY Counts
<1>. QED
  BY <1>1, <1>2 DEF SpscInv, SlotsOK, Slot

(***************************************************************************)
(* The producer's steps                                                    *)
(***************************************************************************)

\* The state of the slot of index Visible: full when the queue is.
LEMMA FullRing ==
  ASSUME SPSC, SpscInv, Visible - Returned = Capacity
  PROVE  states[Slot(Visible)] = "FULL"
<1>0. Visible = Returned + Capacity /\ Visible \in Nat /\ Returned \in Nat
  BY Counts
<1>1. Slot(Visible) = Slot(Returned) /\ Returned \in Returned .. (Visible - 1)
  BY <1>0, Counts, SlotAgain
<1>2. Slot(Visible) \in DOMAIN states
  BY Counts, SlotRange DEF SpscInv, TypeOK
<1>. QED
  BY <1>1, <1>2 DEF SpscInv, SlotsOK

\* A full slot is that of index Returned only if that index is visible.
LEMMA FullAtReturned ==
  ASSUME SPSC, SpscInv, states[Slot(Returned)] = "FULL"
  PROVE  Returned < Visible
<1>1. Slot(Returned) \in DOMAIN states
  BY Counts, SlotRange DEF SpscInv, TypeOK
<1>2. PICK i \in Returned .. (Visible - 1) : Slot(i) = Slot(Returned)
  BY <1>1 DEF SpscInv, SlotsOK
<1>. QED
  BY <1>2, Counts

LEMMA ProducerStep ==
  ASSUME SPSC, SpscInv, TypeOK', NEW p \in Producers, PushCall(p) \/ PushStep(p)
  PROVE  SpscInv'
<1>0. TypeOK /\ ProducerOK(p) /\ p \in Threads
  BY DEF SpscInv, Threads
<1>1. \A c \in Consumers : c # p
  BY SingleAssumption
<1>2. \A l : Goto(p, l) =>
        /\ pc'[p] = l /\ (Pushing <=> pc[p] \in Claimed) /\ (Pushing' <=> l \in Claimed)
  BY <1>0, ProducerMoves
<1>3. CASE CallTryPush(p)
  <2>1. PICK v \in Elements : element' = [element EXCEPT ![p] = v]
    BY <1>0, <1>3 DEF CallTryPush, TypeOK
  <2>2. /\ Goto(p, "push_check") /\ index' = [index EXCEPT ![p] = head]
        /\ pc[p] = "idle" /\ UNCHANGED <<head, tail, states, elements, sent, received>>
    BY <1>3 DEF CallTryPush
  <2>3. pc'[p] = "push_check" /\ Visible' = Visible
    BY <1>2, <2>2 DEF Visible, Claimed
  <2>4. ProducerOK(p)'
    BY <1>0, <2>1, <2>2, <2>3 DEF ProducerOK, TypeOK, PopLabels
  <2>5. \A c \in Consumers : index'[c] = index[c] /\ element'[c] = element[c]
    BY <1>0, <1>1, <2>1, <2>2 DEF TypeOK
  <2>. QED
    BY <2>2, <2>3, <2>4, <2>5, QuietSlots, ProducerFrame, Counts
<1>4. ASSUME NEW l \in {"idle", "panicked"}, Leave(p, l), pc[p] \in {"push_check", "push_claim"},
             UNCHANGED <<head, tail, states, elements, sent, received>>
      PROVE  SpscInv'
  <2>1. Goto(p, l) /\ pc'[p] = l /\ Visible' = Visible
    BY <1>2, <1>4 DEF Leave, Visible, Claimed
  <2>2. ProducerOK(p)'
    BY <1>4, <2>1 DEF ProducerOK, PopLabels
  <2>3. \A c \in Consumers : index'[c] = index[c] /\ element'[c] = element[c]
    BY <1>0, <1>1, <1>4 DEF Leave, TypeOK
  <2>. QED
    BY <1>4, <2>1, <2>2, <2>3, QuietSlots, ProducerFrame, Counts
<1>5. CASE TryPushCheck(p)
  <2>1. CASE RefusePush(p)
    BY <1>4, <1>5, <2>1 DEF TryPushCheck, RefusePush
  <2>2. CASE /\ Leave(p, "panicked")
             /\ UNCHANGED <<head, tail, states, elements, unsent, sent, received, dropped>>
    BY <1>4, <1>5, <2>2 DEF TryPushCheck
  <2>3. CASE /\ Goto(p, "push_claim")
             /\ UNCHANGED <<head, tail, states, elements, index, element,
                            unsent, sent, received, dropped>>
    <3>1. pc[p] = "push_check" /\ pc'[p] = "push_claim" /\ Visible' = Visible
      BY <1>2, <1>5, <2>3 DEF TryPushCheck, Visible, Claimed
    <3>2. ProducerOK(p)'
      BY <1>0, <2>3, <3>1 DEF ProducerOK, PopLabels
    <3>. QED
      BY <2>3, <3>1, <3>2, QuietSlots, ProducerFrame, Counts
  <2>. QED
    BY <1>5, <2>1, <2>2, <2>3 DEF TryPushCheck
<1>6. ASSUME NEW v \in Elements, ClaimHead(p, v), pc[p] \notin Claimed,
             index'[p] = head, element'[p] = v,
             \A c \in Consumers : index'[c] = index[c] /\ element'[c] = element[c]
      PROVE  SpscInv'
  <2>1. /\ Goto(p, "offer") /\ head' = head + 1 /\ sent' = Append(sent, v)
        /\ UNCHANGED <<tail, states, elements, received>>
    BY <1>6 DEF ClaimHead
  <2>2. head = Len(sent) /\ head \in Nat /\ sent \in Seq(Elements)
    BY <1>0, Counts DEF TypeOK
  <2>3. (\A i \in 1 .. Len(sent) : sent'[i] = sent[i]) /\ sent'[head + 1] = v
    BY <2>1, <2>2
  <2>4. pc'[p] = "offer" /\ Visible' = Visible
    BY <1>2, <1>6, <2>1, <2>2 DEF Visible, Claimed
  <2>5. ProducerOK(p)'
    BY <1>6, <2>1, <2>2, <2>3, <2>4 DEF ProducerOK, PopLabels
  <2>. QED
    BY <1>6, <2>1, <2>3, <2>4, <2>5, QuietSlots, ProducerFrame, Counts
<1>7. CASE TryPushClaim(p)
  <2>1. CASE RefusePush(p)
    BY <1>4, <1>7, <2>1 DEF TryPushClaim, RefusePush
  <2>2. CASE ClaimHead(p, element[p]) /\ UNCHANGED <<index, element, unsent>>
    <3>1. pc[p] = "push_claim" /\ index[p] = head /\ element[p] \in Elements
      BY <1>0, <1>7 DEF TryPushClaim, ProducerOK
    <3>. QED
      BY <1>6, <2>2, <3>1 DEF Claimed
  <2>. QED
    BY <1>7, <2>1, <2>2 DEF TryPushClaim
<1>8. CASE Push(p)
  <2>1. PICK v \in unsent : PushOf(p, v)
    BY <1>8 DEF Push
  <2>2. /\ v \in Elements /\ ClaimHead(p, v) /\ pc[p] = "idle"
        /\ index' = [index EXCEPT ![p] = head] /\ element' = [element EXCEPT ![p] = v]
    BY <1>0, <2>1 DEF PushOf, TypeOK
  <2>3. /\ index'[p] = head /\ element'[p] = v
        /\ \A c \in Consumers : index'[c] = index[c] /\ element'[c] = element[c]
    BY <1>0, <1>1, <2>2 DEF TypeOK
  <2>. QED
    BY <1>6, <2>2, <2>3 DEF Claimed
<1>9. CASE AwaitEmpty(p)
  <2>1. /\ pc[p] = "offer" /\ states[Slot(index[p])] = "EMPTY" /\ Goto(p, "write")
        /\ UNCHANGED <<head, tail, states, elements, index, element, sent, received>>
    BY <1>9 DEF AwaitEmpty
  <2>2. pc'[p] = "write" /\ Visible' = Visible /\ Visible = head - 1 /\ index[p] = Visible
    BY <1>0, <1>2, <2>1 DEF Visible, Claimed, ProducerOK
  <2>3. Visible - Returned < Capacity
    BY <2>1, <2>2, FullRing, Counts
  <2>4. ProducerOK(p)'
    BY <1>0, <2>1, <2>2, <2>3 DEF ProducerOK, PopLabels, Returned
  <2>. QED
    BY <2>1, <2>2, <2>4, QuietSlots, ProducerFrame, Counts
<1>10. ASSUME pc[p] \in Claimed
       PROVE  /\ Visible = head - 1 /\ index[p] = Visible /\ Visible \in Nat
              /\ element[p] = sent[head]
  BY <1>0, <1>10, Counts DEF ProducerOK, Visible, Pushing, Claimed
<1>11. CASE Write(p)
  <2>0. ~Contended(p)
    BY SingleAssumption DEF Contended
  <2>1. /\ pc[p] = "write" /\ elements' = [elements EXCEPT ![Slot(index[p])] = element[p]]
        /\ Goto(p, "publish")
        /\ UNCHANGED <<head, tail, states, index, element, sent, received>>
    BY <1>11, <2>0 DEF Write
  <2>2. /\ pc'[p] = "publish" /\ Visible' = Visible /\ Visible = head - 1
        /\ index[p] = Visible /\ Visible - Returned < Capacity
    BY <1>0, <1>2, <1>10, <2>1 DEF Visible, Claimed, ProducerOK
  <2>3. Slot(Visible) \in DOMAIN elements
    BY <1>0, Counts, SlotRange DEF TypeOK
  <2>4. ProducerOK(p)'
    BY <1>0, <2>1, <2>2, <2>3 DEF ProducerOK, PopLabels, Slot, Returned
  <2>5. \A i \in Returned .. (Visible - 1) : Slot(i) # Slot(Visible)
    BY <2>2, Counts, SlotsApart
  <2>6. SlotsOK'
    BY <2>1, <2>2, <2>3, <2>5 DEF SpscInv, SlotsOK, Slot, Returned
  <2>. QED
    BY <2>1, <2>2, <2>4, <2>6, ProducerFrame, Counts
<1>12. CASE Publish(p)
  <2>1. /\ pc[p] = "publish" /\ states' = [states EXCEPT ![Slot(index[p])] = "FULL"]
        /\ Leave(p, "idle") /\ Goto(p, "idle")
        /\ UNCHANGED <<head, tail, elements, sent, received>>
    BY <1>12 DEF Publish, Leave
  <2>2. /\ pc'[p] = "idle" /\ Visible' = Visible + 1 /\ Visible = head - 1
        /\ index[p] = Visible /\ Visible - Returned < Capacity
        /\ elements[Slot(Visible)] = sent[Visible + 1]
    BY <1>0, <1>2, <1>10, <2>1, Counts DEF Visible, Claimed, ProducerOK
  <2>3. Slot(Visible) \in DOMAIN states
    BY <1>0, Counts, SlotRange DEF TypeOK
  <2>4. ProducerOK(p)'
    BY <2>2 DEF ProducerOK, PopLabels
  <2>5. \A c \in Consumers : index'[c] = index[c] /\ element'[c] = element[c]
    BY <1>0, <1>1, <2>1 DEF Leave, TypeOK
  <2>6. Returned .. (Visible' - 1) = (Returned .. (Visible - 1)) \cup {Visible}
    BY <2>2, Counts
  <2>7. SlotsOK'
    <3>1. \A s \in DOMAIN states : states'[s] = "FULL" <=> states[s] = "FULL" \/ s = Slot(Visible)
      BY <2>1, <2>2, <2>3
    <3>2. DOMAIN states' = DOMAIN states /\ Returned' = Returned
      BY <2>1 DEF Returned
    <3>3. Returned' <= Visible' /\ Visible' - Returned' <= Capacity
      BY <2>2, <3>2, Counts
    <3>. QED
      BY <2>1, <2>2, <2>6, <3>1, <3>2, <3>3 DEF SpscInv, SlotsOK, Slot
  <2>. QED
    BY <2>1, <2>2, <2>4, <2>5, <2>7, ProducerFrame, Counts
<1>. QED
  BY <1>3, <1>5, <1>7, <1>8, <1>9, <1>11, <1>12 DEF PushCall, PushStep

(***************************************************************************)
(* The consumer's steps                                                    *)
(***************************************************************************)

LEMMA ConsumerStep ==
  ASSUME SPSC, SpscInv, TypeOK', NEW c \in Consumers, PopCall(c) \/ PopStep(c)
  PROVE  SpscInv'
<1>0. /\ TypeOK /\ ConsumerOK(c) /\ c \in Threads
      /\ \A i \in 1 .. Returned : received[i] = sent[i]
  BY DEF SpscInv, Threads
<1>1. \A p \in Producers : p # c
  BY SingleAssumption
<1>2. /\ \A l : Goto(c, l) => pc'[c] = l /\ (Pushing' <=> Pushing)
      /\ tail = IF pc[c] \in Waiting THEN Returned + 1 ELSE Returned
  <2>1. Goto(c, pc[c]) => (Popping <=> pc[c] \in Waiting)
    BY <1>0, ConsumerMoves
  <2>2. Popping <=> pc[c] \in Waiting
    BY SingleAssumption DEF Popping, Waiting
  <2>. QED
    BY <1>0, <2>2, ConsumerMoves DEF SpscInv
<1>3. ASSUME NEW l, Goto(c, l), UNCHANGED <<head, tail, states, elements, sent, received>>,
             \A p \in Producers : index'[p] = index[p] /\ element'[p] = element[p],
             ConsumerOK(c)', l \in Waiting <=> pc[c] \in Waiting
      PROVE  SpscInv'
  <2>1. Returned' = Returned /\ Visible' = Visible
    BY <1>2, <1>3 DEF Returned, Visible
  <2>. QED
    BY <1>0, <1>2, <1>3, <2>1, QuietSlots, ConsumerFrame, Counts
<1>4. CASE CallTryPop(c)
  <2>1. /\ pc[c] = "idle" /\ Goto(c, "pop_check") /\ index' = [index EXCEPT ![c] = tail]
        /\ UNCHANGED <<head, tail, states, elements, element, sent, received>>
    BY <1>4 DEF CallTryPop
  <2>2. /\ pc'[c] = "pop_check" /\ index'[c] = tail
        /\ \A p \in Producers : index'[p] = index[p]
    BY <1>0, <1>1, <1>2, <2>1 DEF TypeOK
  <2>3. ConsumerOK(c)'
    BY <2>1, <2>2 DEF ConsumerOK, PushLabels
  <2>. QED
    BY <1>3, <2>1, <2>2, <2>3 DEF Waiting
<1>5. ASSUME RefusePop(c), pc[c] \in {"pop_check", "pop_claim"} PROVE SpscInv'
  <2>1. /\ Goto(c, "idle") /\ pc'[c] = "idle"
        /\ UNCHANGED <<head, tail, states, elements, sent, received>>
    BY <1>2, <1>5 DEF RefusePop, Leave
  <2>2. \A p \in Producers : index'[p] = index[p] /\ element'[p] = element[p]
    BY <1>0, <1>1, <1>5 DEF RefusePop, Leave, TypeOK
  <2>3. ConsumerOK(c)'
    BY <2>1 DEF ConsumerOK, PushLabels
  <2>. QED
    BY <1>3, <1>5, <2>1, <2>2, <2>3 DEF Waiting
<1>6. CASE TryPopCheck(c)
  <2>1. CASE RefusePop(c)
    BY <1>5, <1>6, <2>1 DEF TryPopCheck
  <2>2. CASE /\ Goto(c, "pop_claim")
             /\ UNCHANGED <<head, tail, states, elements, index, element,
                            unsent, sent, received, dropped>>
    <3>1. pc[c] = "pop_check" /\ pc'[c] = "pop_claim"
      BY <1>2, <1>6, <2>2 DEF TryPopCheck
    <3>2. ConsumerOK(c)'
      BY <1>0, <2>2, <3>1 DEF ConsumerOK, PushLabels
    <3>. QED
      BY <1>3, <2>2, <3>1, <3>2 DEF Waiting
  <2>. QED
    BY <1>6, <2>1, <2>2 DEF TryPopCheck
<1>7. ASSUME ClaimTail(c), pc[c] \notin Waiting, index'[c] = tail,
             \A p \in Producers : index'[p] = index[p]
      PROVE  SpscInv'
  <2>1. /\ Goto(c, "wait") /\ tail' = tail + 1
        /\ UNCHANGED <<head, states, elements, element, sent, received>>
    BY <1>7 DEF ClaimTail
  <2>2. pc'[c] = "wait" /\ Returned' = Returned /\ Visible' = Visible /\ tail = Returned
    BY <1>2, <1>7, <2>1 DEF Returned, Visible
  <2>3. ConsumerOK(c)'
    BY <1>7, <2>2 DEF ConsumerOK, PushLabels
  <2>4. "wait" \in Waiting
    BY DEF Waiting
  <2>. QED
    BY <1>0, <1>7, <2>1, <2>2, <2>3, <2>4, QuietSlots, ConsumerFrame, Counts
<1>8. CASE TryPopClaim(c)
  <2>1. CASE RefusePop(c)
    BY <1>5, <1>8, <2>1 DEF TryPopClaim
  <2>2. CASE ClaimTail(c) /\ UNCHANGED index
    BY <1>0, <1>7, <1>8, <2>2 DEF TryPopClaim, ConsumerOK, Waiting
  <2>. QED
    BY <1>8, <2>1, <2>2 DEF TryPopClaim
<1>9. CASE Pop(c)
  <2>1. pc[c] = "idle" /\ ClaimTail(c) /\ index' = [index EXCEPT ![c] = tail]
    BY <1>9 DEF Pop
  <2>2. index'[c] = tail /\ \A p \in Producers : index'[p] = index[p]
    BY <1>0, <1>1, <2>1 DEF TypeOK
  <2>. QED
    BY <1>7, <2>1, <2>2 DEF Waiting
<1>10. CASE AwaitFull(c)
  <2>1. /\ pc[c] = "wait" /\ states[Slot(index[c])] = "FULL" /\ Goto(c, "read")
        /\ UNCHANGED <<head, tail, states, elements, index, element, sent, received>>
    BY <1>10 DEF AwaitFull
  <2>2. pc'[c] = "read" /\ index[c] = Returned /\ Returned' = Returned /\ Visible' = Visible
    BY <1>0, <1>2, <2>1 DEF ConsumerOK, Returned, Visible
  <2>3. ConsumerOK(c)'
    BY <2>1, <2>2, FullAtReturned DEF ConsumerOK, PushLabels
  <2>. QED
    BY <1>3, <2>1, <2>3 DEF Waiting
<1>11. CASE Read(c)
  <2>1. /\ pc[c] = "read" /\ index[c] = Returned /\ Returned < Visible
    BY <1>0, <1>11 DEF Read, ConsumerOK
  <2>2. ~Contended(c)
    <3>. SUFFICES ASSUME NEW p \in Producers, pc[p] = "write", Slot(index[p]) = Slot(index[c])
                  PROVE  FALSE
      BY DEF Contended
    <3>1. Visible = head - 1 /\ index[p] = Visible /\ Visible - Returned < Capacity
      BY DEF SpscInv, ProducerOK, Visible, Pushing
    <3>. QED
      BY <2>1, <3>1, Counts, SlotsApart
  <2>3. /\ element' = [element EXCEPT ![c] = elements[Slot(index[c])]] /\ Goto(c, "release")
        /\ UNCHANGED <<head, tail, states, elements, index, sent, received>>
    BY <1>11, <2>2 DEF Read
  <2>4. elements[Slot(Returned)] = sent[Returned + 1]
    <3>1. Returned \in Returned .. (Visible - 1)
      BY <2>1, Counts
    <3>. QED
      BY <3>1 DEF SpscInv, SlotsOK
  <2>5. /\ pc'[c] = "release" /\ element'[c] = sent[Returned + 1]
        /\ Returned' = Returned /\ Visible' = Visible
    BY <1>0, <1>2, <2>1, <2>3, <2>4 DEF TypeOK, Returned, Visible
  <2>6. ConsumerOK(c)' /\ \A p \in Producers : element'[p] = element[p]
    BY <1>0, <1>1, <2>1, <2>3, <2>5 DEF ConsumerOK, PushLabels, TypeOK
  <2>. QED
    BY <1>3, <2>1, <2>3, <2>6 DEF Waiting
<1>12. CASE Release(c)
  <2>1. /\ pc[c] = "release" /\ index[c] = Returned /\ Returned < Visible
        /\ element[c] = sent[Returned + 1] /\ tail = Returned + 1
    BY <1>0, <1>2, <1>12 DEF Release, ConsumerOK, Waiting
  <2>2. /\ states' = [states EXCEPT ![Slot(Returned)] = "EMPTY"]
        /\ received' = Append(received, element[c]) /\ Leave(c, "idle") /\ Goto(c, "idle")
        /\ UNCHANGED <<head, tail, elements, sent>>
    BY <1>12, <2>1 DEF Release, Leave
  <2>3. Returned' = Returned + 1 /\ Visible' = Visible /\ pc'[c] = "idle"
    BY <1>0, <1>2, <2>2 DEF TypeOK, Returned, Visible
  <2>4. \A i \in 1 .. Returned' : received'[i] = sent[i]
    BY <1>0, <2>1, <2>2, <2>3, Counts DEF TypeOK, Returned
  <2>5. \A p \in Producers : index'[p] = index[p] /\ element'[p] = element[p]
    BY <1>0, <1>1, <2>2 DEF Leave, TypeOK
  <2>6. ConsumerOK(c)'
    BY <2>3 DEF ConsumerOK, PushLabels
  <2>7. SlotsOK'
    <3>1. Slot(Returned) \in DOMAIN states
      BY <1>0, Counts, SlotRange DEF TypeOK
    <3>2. /\ DOMAIN states' = DOMAIN states
          /\ \A s \in DOMAIN states :
                  states'[s] = "FULL" <=> states[s] = "FULL" /\ s # Slot(Returned)
      BY <2>2, <3>1
    <3>3. \A i \in (Returned + 1) .. (Visible - 1) : Slot(i) # Slot(Returned)
      BY Counts, SlotsApart
    <3>4. Returned .. (Visible - 1) = {Returned} \cup ((Returned + 1) .. (Visible - 1))
      BY <2>1, Counts
    <3>5. ASSUME NEW s \in DOMAIN states
          PROVE  states'[s] = "FULL" <=> \E i \in (Returned + 1) .. (Visible - 1) : Slot(i) = s
      BY <3>2, <3>3, <3>4 DEF SpscInv, SlotsOK
    <3>6. Returned' <= Visible' /\ Visible' - Returned' <= Capacity
      BY <2>1, <2>3, Counts
    <3>7. \A i \in (Returned + 1) .. (Visible - 1) : elements[Slot(i)] = sent[i + 1]
      BY <3>4 DEF SpscInv, SlotsOK
    <3>. QED
      BY <2>2, <2>3, <3>2, <3>5, <3>6, <3>7 DEF SlotsOK, Slot
  <2>8. Returned' \in Nat /\ Returned' >= Returned /\ "idle" \notin Waiting
    BY <2>3, Counts DEF Waiting
  <2>. QED
    BY <2>1, <2>2, <2>3, <2>4, <2>5, <2>6, <2>7, <2>8, ConsumerFrame
<1>. QED
  BY <1>4, <1>6, <1>8, <1>9, <1>10, <1>11, <1>12 DEF PopCall, PopStep

(***************************************************************************)
(* The theorems                                                            *)
(***************************************************************************)

LEMMA StepSpscInv == SPSC /\ SpscInv /\ [Next]_vars => SpscInv'
<1>. SUFFICES ASSUME SPSC, SpscInv, [Next]_vars PROVE SpscInv'
  OBVIOUS
<1>0. TypeOK' /\ TypeOK
  BY StepTypeOK DEF SpscInv
<1>1. ASSUME Drop \/ UNCHANGED vars PROVE SpscInv'
  <2>1. UNCHANGED <<head, tail, states, elements, index, element, sent, received>>
    BY <1>1 DEF Drop, vars
  <2>2. \A t \in Threads :
          \/ pc'[t] = pc[t]
          \/ pc[t] \in {"idle", "panicked"} /\ pc'[t] = "gone"
    BY <1>1 DEF Drop, vars
  <2>3. (Pushing' <=> Pushing) /\ (Popping' <=> Popping)
    BY <2>2 DEF Pushing, Popping, Threads
  <2>4. Returned' = Returned /\ Visible' = Visible
    BY <2>1, <2>3 DEF Returned, Visible
  <2>5. \A p \in Producers : ProducerOK(p)'
    BY <2>1, <2>2, <2>4 DEF SpscInv, ProducerOK, PopLabels, Slot, Threads
  <2>6. \A c \in Consumers : ConsumerOK(c)'
    BY <2>1, <2>2, <2>4 DEF SpscInv, ConsumerOK, PushLabels, Threads
  <2>7. SlotsOK'
    BY <2>1, <2>4 DEF SpscInv, SlotsOK, Slot
  <2>. QED
    BY <1>0, <2>1, <2>3, <2>4, <2>5, <2>6, <2>7 DEF SpscInv
<1>. QED
  BY <1>0, <1>1, ProducerStep, ConsumerStep DEF Next

LEMMA InitSpscInv == Init => SpscInv
<1>. SUFFICES ASSUME Init PROVE SpscInv
  OBVIOUS
<1>1. \A t \in Threads : pc[t] = "idle"
  BY DEF Init
<1>2. ~Pushing /\ ~Popping /\ Returned = 0 /\ Visible = 0 /\ tail = 0
  BY <1>1 DEF Init, Pushing, Popping, Returned, Visible, Threads
<1>3. \A p \in Producers : ProducerOK(p)
  BY <1>1 DEF ProducerOK, PopLabels, Threads
<1>4. \A c \in Consumers : ConsumerOK(c)
  BY <1>1 DEF ConsumerOK, PushLabels, Threads
<1>5. SlotsOK
  BY <1>2, Queue2Assumption DEF SlotsOK, Init
<1>. QED
  BY <1>2, <1>3, <1>4, <1>5, InitTypeOK DEF SpscInv

\* The inductive invariant of a queue that one producer and one consumer share:
\* the full slots are those of the elements between the two counts.
THEOREM SpscInvariance == ASSUME SPSC PROVE Spec => []SpscInv
<1>1. SpscInv /\ [Next]_vars => SpscInv'
  BY StepSpscInv
<1>. QED
  BY <1>1, InitSpscInv, PTL DEF Spec

\* The variables of an SPSC queue keep their types.
THEOREM SpscTypeCorrect == ASSUME SPSC PROVE Spec => []TypeOK
<1>1. SpscInv => TypeOK
  BY DEF SpscInv
<1>. QED
  BY <1>1, SpscInvariance, PTL

\* The producer never writes a slot that the consumer is copying: the copies are
\* plain memory accesses, and the states keep them apart for every capacity.
THEOREM SpscNoRace == ASSUME SPSC PROVE Spec => []NoRace
<1>1. SpscInv => NoRace
  <2>. SUFFICES ASSUME SpscInv, NEW t \in Threads, NEW u \in Threads, t # u,
                       pc[t] = "write", pc[u] \in {"write", "read"}
                PROVE  Slot(index[t]) # Slot(index[u])
    BY DEF NoRace
  <2>1. t \in Producers /\ u \in Consumers /\ pc[u] = "read"
    BY SingleAssumption
       DEF SpscInv, ProducerOK, ConsumerOK, Threads, PushLabels, PopLabels
  <2>2. index[t] = Visible /\ Visible - Returned < Capacity
    BY <2>1 DEF SpscInv, ProducerOK, Visible, Pushing
  <2>3. index[u] = Returned /\ Returned < Visible
    BY <2>1 DEF SpscInv, ConsumerOK
  <2>. QED
    BY <2>2, <2>3, Counts, SlotsApart
<1>. QED
  BY <1>1, SpscInvariance, PTL

\* The consumer has received exactly the first elements sent, in their order and
\* each whole, whatever mix of the four calls the two threads make.
THEOREM SpscInOrder == ASSUME SPSC PROVE Spec => []InOrder
<1>1. SpscInv => InOrder
  <2>. SUFFICES ASSUME SpscInv PROVE IsPrefix(received, sent)
    BY DEF InOrder
  <2>1. /\ Len(received) <= Len(sent) /\ Len(received) \in Nat
        /\ \A i \in 1 .. Len(received) : received[i] = sent[i]
    BY Counts DEF SpscInv, Returned
  <2>2. SubSeq(received, 1, Len(received)) = SubSeq(sent, 1, Len(received))
    BY <2>1
  <2>. QED
    BY <2>1, <2>2 DEF IsPrefix
<1>. QED
  BY <1>1, SpscInvariance, PTL

(***************************************************************************)
(* A queue for several producers and consumers, with TOTAL_ORDER           *)
(***************************************************************************)

\* The part of TypeOK that the counting needs; the labels of the SPSC branches
\* are never reached.
ShapeOK ==
  /\ head \in Nat /\ tail \in Nat
  /\ states \in [0 .. (Capacity - 1) -> {"EMPTY", "FULL"}]
  /\ pc \in [Threads -> Labels \ {"publish", "release"}]
  /\ index \in [Threads -> Nat]

BalanceInv == ShapeOK /\ SlotsBalanced

\* What one thing adds to a count for slot s: an index, a full state, and a
\* thread at label l with index i to the threads that wait there at label w
On(i, s) == IF Slot(i) = s THEN 1 ELSE 0
Full(s) == IF states[s] = "FULL" THEN 1 ELSE 0
At(l, i, w, s) == IF l = w /\ Slot(i) = s THEN 1 ELSE 0

\* WaitingOn, of given labels and indices
Waiters(labels, indices, w, s) == {t \in Threads : labels[t] = w /\ Slot(indices[t]) = s}

(***************************************************************************)
(* Counting                                                                *)
(***************************************************************************)

\* A set that may have one element more than another
LEMMA Join ==
  ASSUME NEW A, IsFiniteSet(A), NEW x, x \notin A, NEW B, NEW m \in {0, 1},
         B = IF m = 1 THEN A \cup {x} ELSE A
  PROVE  /\ IsFiniteSet(B) /\ Cardinality(A) \in Nat /\ Cardinality(B) \in Nat
         /\ Cardinality(B) = Cardinality(A) + m
<1>1. CASE m = 0
  BY <1>1, FS_CardinalityType
<1>2. CASE m = 1
  BY <1>2, FS_AddElement, FS_CardinalityType
<1>. QED
  BY <1>1, <1>2

\* The laps that a claim adds
LEMMA OneMoreLap ==
  ASSUME NEW n \in Nat, NEW s
  PROVE  /\ Cardinality(LapsOn(s, n)) \in Nat
         /\ Cardinality(LapsOn(s, n + 1)) = Cardinality(LapsOn(s, n)) + On(n, s)
<1>1. IsFiniteSet(LapsOn(s, n))
  <2>1. IsFiniteSet(0 .. (n - 1))
    BY FS_Interval
  <2>2. LapsOn(s, n) \in SUBSET (0 .. (n - 1))
    BY DEF LapsOn
  <2>. QED
    BY <2>1, <2>2, FS_Subset
<1>2. n \notin LapsOn(s, n) /\ On(n, s) \in {0, 1}
  BY DEF LapsOn, On
<1>3. LapsOn(s, n + 1) = IF On(n, s) = 1 THEN LapsOn(s, n) \cup {n} ELSE LapsOn(s, n)
  <2>1. 0 .. ((n + 1) - 1) = (0 .. (n - 1)) \cup {n}
    OBVIOUS
  <2>. QED
    BY <2>1 DEF LapsOn, On
<1>. QED
  BY <1>1, <1>2, <1>3, Join

\* What a step of thread t does to the number of threads that wait for slot s
LEMMA WaitersChange ==
  ASSUME IsFiniteSet(Threads), ShapeOK, NEW t \in Threads, NEW l, Goto(t, l),
         NEW n \in Nat, index' = [index EXCEPT ![t] = n], NEW w, NEW s
  PROVE  /\ Cardinality(Waiters(pc, index, w, s)) \in Nat
         /\ Cardinality(Waiters(pc', index', w, s)) =
              Cardinality(Waiters(pc, index, w, s))
                - At(pc[t], index[t], w, s) + At(l, n, w, s)
<1>. DEFINE Others == {u \in Threads \ {t} : pc[u] = w /\ Slot(index[u]) = s}
<1>1. /\ pc'[t] = l /\ index'[t] = n
      /\ \A u \in Threads \ {t} : pc'[u] = pc[u] /\ index'[u] = index[u]
  BY DEF Goto, ShapeOK
<1>2. IsFiniteSet(Others) /\ t \notin Others
  BY FS_Subset
<1>3. Waiters(pc, index, w, s) =
        IF At(pc[t], index[t], w, s) = 1 THEN Others \cup {t} ELSE Others
  BY DEF Waiters, At
<1>4. Waiters(pc', index', w, s) = IF At(l, n, w, s) = 1 THEN Others \cup {t} ELSE Others
  BY <1>1 DEF Waiters, At
<1>. HIDE DEF Others
<1>5. At(pc[t], index[t], w, s) \in {0, 1} /\ At(l, n, w, s) \in {0, 1}
  BY DEF At
<1>6. /\ Cardinality(Others) \in Nat
      /\ Cardinality(Waiters(pc, index, w, s)) \in Nat
      /\ Cardinality(Waiters(pc, index, w, s)) =
           Cardinality(Others) + At(pc[t], index[t], w, s)
  BY <1>2, <1>3, <1>5, Join
<1>7. Cardinality(Waiters(pc', index', w, s)) = Cardinality(Others) + At(l, n, w, s)
  BY <1>2, <1>4, <1>5, Join
<1>. QED
  BY <1>5, <1>6, <1>7

\* What a step of thread t adds to the counters, by h and k, it adds for slot s
\* to the slot's state or to the waiting threads.
Exchanged(t, l, n, h, k, s) ==
  h * On(head, s) - k * On(tail, s) =
    Full(s)' - Full(s)
      - At(pc[t], index[t], "offer", s) + At(l, n, "offer", s)
      + At(pc[t], index[t], "wait", s) - At(l, n, "wait", s)

\* Such a step keeps the balance.
LEMMA KeepsBalance ==
  ASSUME IsFiniteSet(Threads), BalanceInv, ShapeOK', NEW t \in Threads, NEW l, Goto(t, l),
         NEW n \in Nat, index' = [index EXCEPT ![t] = n],
         NEW h \in {0, 1}, head' = head + h, NEW k \in {0, 1}, tail' = tail + k,
         \A s \in DOMAIN states : Exchanged(t, l, n, h, k, s)
  PROVE  BalanceInv'
<1>0. ShapeOK /\ DOMAIN states' = DOMAIN states /\ head \in Nat /\ tail \in Nat
  BY DEF BalanceInv, ShapeOK
<1>1. \A w, s :
        /\ Cardinality(Waiters(pc, index, w, s)) \in Nat
        /\ Cardinality(Waiters(pc', index', w, s)) =
             Cardinality(Waiters(pc, index, w, s)) - At(pc[t], index[t], w, s) + At(l, n, w, s)
  BY <1>0, WaitersChange
<1>2. ASSUME NEW s \in DOMAIN states
      PROVE  Cardinality(LapsOn(s, head')) - Cardinality(LapsOn(s, tail')) =
               Full(s)' + Cardinality(Waiters(pc', index', "offer", s))
                 - Cardinality(Waiters(pc', index', "wait", s))
  <2>1. Cardinality(LapsOn(s, head)) - Cardinality(LapsOn(s, tail)) =
          Full(s) + Cardinality(Waiters(pc, index, "offer", s))
            - Cardinality(Waiters(pc, index, "wait", s))
    BY <1>2 DEF BalanceInv, SlotsBalanced, Full, WaitingOn, Waiters
  <2>2. On(head, s) \in {0, 1} /\ On(tail, s) \in {0, 1}
    BY DEF On
  <2>3. /\ Cardinality(LapsOn(s, head)) \in Nat
        /\ Cardinality(LapsOn(s, head')) = Cardinality(LapsOn(s, head)) + h * On(head, s)
    <3>1. CASE h = 0
      <4>1. head' = head /\ h * On(head, s) = 0
        BY <1>0, <2>2, <3>1
      <4>2. Cardinality(LapsOn(s, head)) \in Nat
        BY <1>0, OneMoreLap
      <4>. QED
        BY <4>1, <4>2
    <3>2. CASE h = 1
      BY <1>0, <2>2, <3>2, OneMoreLap, head' = head + 1
    <3>. QED
      BY <3>1, <3>2
  <2>4. /\ Cardinality(LapsOn(s, tail)) \in Nat
        /\ Cardinality(LapsOn(s, tail')) = Cardinality(LapsOn(s, tail)) + k * On(tail, s)
    <3>1. CASE k = 0
      <4>1. tail' = tail /\ k * On(tail, s) = 0
        BY <1>0, <2>2, <3>1
      <4>2. Cardinality(LapsOn(s, tail)) \in Nat
        BY <1>0, OneMoreLap
      <4>. QED
        BY <4>1, <4>2
    <3>2. CASE k = 1
      BY <1>0, <2>2, <3>2, OneMoreLap, tail' = tail + 1
    <3>. QED
      BY <3>1, <3>2
  <2>5. /\ Cardinality(Waiters(pc, index, "offer", s)) \in Nat
        /\ Cardinality(Waiters(pc', index', "offer", s)) =
             Cardinality(Waiters(pc, index, "offer", s))
               - At(pc[t], index[t], "offer", s) + At(l, n, "offer", s)
    BY <1>1
  <2>6. /\ Cardinality(Waiters(pc, index, "wait", s)) \in Nat
        /\ Cardinality(Waiters(pc', index', "wait", s)) =
             Cardinality(Waiters(pc, index, "wait", s))
               - At(pc[t], index[t], "wait", s) + At(l, n, "wait", s)
    BY <1>1
  <2>7. /\ Full(s) \in {0, 1} /\ Full(s)' \in {0, 1}
        /\ \A i, w, m : At(m, i, w, s) \in {0, 1}
    BY DEF Full, At
  <2>8. h * On(head, s) \in {0, 1} /\ k * On(tail, s) \in {0, 1}
    BY <2>2
  <2>9. Exchanged(t, l, n, h, k, s)
    BY <1>2
  <2>. QED
    BY <2>1, <2>3, <2>4, <2>5, <2>6, <2>7, <2>8, <2>9 DEF Exchanged
<1>3. SlotsBalanced'
  BY <1>0, <1>2 DEF SlotsBalanced, Full, LapsOn, Slot, WaitingOn, Waiters
<1>. QED
  BY <1>3 DEF BalanceInv

\* A step that touches neither the counters nor the states, of a thread that
\* neither is nor will be waiting
LEMMA QuietBalance ==
  ASSUME IsFiniteSet(Threads), BalanceInv, NEW t \in Threads, NEW l \in Labels, Goto(t, l),
         l \notin {"offer", "wait", "publish", "release"}, pc[t] \notin {"offer", "wait"},
         NEW n \in Nat, index' = [index EXCEPT ![t] = n], UNCHANGED <<head, tail, states>>
  PROVE  BalanceInv'
<1>1. ShapeOK'
  BY DEF BalanceInv, ShapeOK, Goto
<1>2. /\ head' = head + 0 /\ tail' = tail + 0
      /\ \A s : Full(s)' = Full(s) /\ Full(s) \in {0, 1}
  BY DEF BalanceInv, ShapeOK, Full
<1>3. \A s \in DOMAIN states : Exchanged(t, l, n, 0, 0, s)
  BY <1>2 DEF Exchanged, On, At
<1>. QED
  BY <1>1, <1>2, <1>3, KeepsBalance

(***************************************************************************)
(* The steps                                                               *)
(***************************************************************************)

LEMMA ClaimHeadBalance ==
  ASSUME IsFiniteSet(Threads), BalanceInv, NEW p \in Producers, NEW v, ClaimHead(p, v),
         pc[p] \notin {"offer", "wait"}, index' = [index EXCEPT ![p] = head]
  PROVE  BalanceInv'
<1>0. p \in Threads /\ head \in Nat /\ tail \in Nat
  BY DEF Threads, BalanceInv, ShapeOK
<1>1. Goto(p, "offer") /\ head' = head + 1 /\ tail' = tail + 0 /\ states' = states
  BY <1>0 DEF ClaimHead
<1>2. ShapeOK'
  BY <1>0, <1>1 DEF BalanceInv, ShapeOK, Goto, Labels
<1>3. \A s : Full(s)' = Full(s) /\ Full(s) \in {0, 1}
  BY <1>1 DEF Full
<1>4. \A s \in DOMAIN states : Exchanged(p, "offer", head, 1, 0, s)
  BY <1>3 DEF Exchanged, On, At
<1>. QED
  BY <1>0, <1>1, <1>2, <1>4, KeepsBalance

LEMMA ClaimTailBalance ==
  ASSUME IsFiniteSet(Threads), BalanceInv, NEW c \in Consumers, ClaimTail(c),
         pc[c] \notin {"offer", "wait"}, index' = [index EXCEPT ![c] = tail]
  PROVE  BalanceInv'
<1>0. c \in Threads /\ head \in Nat /\ tail \in Nat
  BY DEF Threads, BalanceInv, ShapeOK
<1>1. Goto(c, "wait") /\ head' = head + 0 /\ tail' = tail + 1 /\ states' = states
  BY <1>0 DEF ClaimTail
<1>2. ShapeOK'
  BY <1>0, <1>1 DEF BalanceInv, ShapeOK, Goto, Labels
<1>3. \A s : Full(s)' = Full(s) /\ Full(s) \in {0, 1}
  BY <1>1 DEF Full
<1>4. \A s \in DOMAIN states : Exchanged(c, "wait", tail, 0, 1, s)
  BY <1>3 DEF Exchanged, On, At
<1>. QED
  BY <1>0, <1>1, <1>2, <1>4, KeepsBalance

\* The compare_exchange of a state takes the slot from one state to the other.
LEMMA AwaitBalance ==
  ASSUME IsFiniteSet(Threads), BalanceInv, NEW t \in Threads,
         NEW l \in {"write", "read"}, Goto(t, l),
         pc[t] = (IF l = "write" THEN "offer" ELSE "wait"),
         states[Slot(index[t])] = (IF l = "write" THEN "EMPTY" ELSE "FULL"),
         states' = [states EXCEPT ![Slot(index[t])] = IF l = "write" THEN "FULL" ELSE "EMPTY"],
         UNCHANGED <<head, tail, index>>
  PROVE  BalanceInv'
<1>0. index[t] \in Nat /\ index' = [index EXCEPT ![t] = index[t]]
  BY DEF BalanceInv, ShapeOK
<1>1. head' = head + 0 /\ tail' = tail + 0
  BY DEF BalanceInv, ShapeOK
<1>2. ShapeOK'
  BY DEF BalanceInv, ShapeOK, Goto, Labels
<1>3. \A s \in DOMAIN states :
        Full(s)' - Full(s) = IF s = Slot(index[t]) THEN (IF l = "write" THEN 1 ELSE -1) ELSE 0
  BY DEF Full
<1>4. \A s : Full(s) \in {0, 1} /\ Full(s)' \in {0, 1}
  BY DEF Full
<1>5. \A s \in DOMAIN states : Exchanged(t, l, index[t], 0, 0, s)
  BY <1>3, <1>4 DEF Exchanged, On, At
<1>. QED
  BY <1>0, <1>1, <1>2, <1>5, KeepsBalance

LEMMA PushBalance ==
  ASSUME ~SPSC, TotalOrder, IsFiniteSet(Threads), BalanceInv,
         NEW p \in Producers, PushCall(p) \/ PushStep(p)
  PROVE  BalanceInv'
<1>0. p \in Threads /\ ShapeOK /\ index[p] \in Nat /\ head \in Nat /\ 0 \in Nat
  BY DEF Threads, BalanceInv, ShapeOK
<1>1. CASE CallTryPush(p)
  BY <1>0, <1>1, QuietBalance DEF CallTryPush, Labels
<1>2. ASSUME NEW l \in {"idle", "panicked"}, Leave(p, l), pc[p] \notin {"offer", "wait"},
             UNCHANGED <<head, tail, states>>
      PROVE  BalanceInv'
  BY <1>0, <1>2, QuietBalance DEF Leave, Labels
<1>3. CASE TryPushCheck(p)
  <2>1. CASE Goto(p, "push_claim") /\ UNCHANGED <<head, tail, states, index>>
    <3>1. index' = [index EXCEPT ![p] = index[p]] /\ pc[p] = "push_check"
      BY <1>0, <1>3, <2>1 DEF TryPushCheck, ShapeOK
    <3>. QED
      BY <1>0, <2>1, <3>1, QuietBalance DEF Labels
  <2>2. CASE RefusePush(p)
    BY <1>2, <1>3, <2>2 DEF TryPushCheck, RefusePush
  <2>3. CASE Leave(p, "panicked") /\ UNCHANGED <<head, tail, states>>
    BY <1>2, <1>3, <2>3 DEF TryPushCheck
  <2>. QED
    BY <1>3, <2>1, <2>2, <2>3 DEF TryPushCheck
<1>4. CASE TryPushClaim(p)
  <2>1. CASE RefusePush(p)
    BY <1>2, <1>4, <2>1 DEF TryPushClaim, RefusePush
  <2>2. CASE head = index[p] /\ ClaimHead(p, element[p]) /\ UNCHANGED index
    <3>1. index' = [index EXCEPT ![p] = head] /\ pc[p] = "push_claim"
      BY <1>0, <1>4, <2>2 DEF TryPushClaim, ShapeOK
    <3>. QED
      BY <2>2, <3>1, ClaimHeadBalance
  <2>. QED
    BY <1>4, <2>1, <2>2 DEF TryPushClaim
<1>5. CASE Push(p)
  <2>1. PICK v \in unsent : PushOf(p, v)
    BY <1>5 DEF Push
  <2>. QED
    BY <2>1, ClaimHeadBalance DEF PushOf
<1>6. CASE AwaitEmpty(p)
  BY <1>0, <1>6, AwaitBalance DEF AwaitEmpty
<1>7. CASE Write(p)
  <2>1. Leave(p, "idle") /\ pc[p] = "write" /\ UNCHANGED <<head, tail, states>>
    BY <1>7 DEF Write
  <2>. QED
    BY <1>2, <2>1
<1>8. ~Publish(p)
  BY <1>0 DEF Publish, ShapeOK
<1>. QED
  BY <1>1, <1>3, <1>4, <1>5, <1>6, <1>7, <1>8 DEF PushCall, PushStep

LEMMA PopBalance ==
  ASSUME ~SPSC, TotalOrder, IsFiniteSet(Threads), BalanceInv,
         NEW c \in Consumers, PopCall(c) \/ PopStep(c)
  PROVE  BalanceInv'
<1>0. c \in Threads /\ ShapeOK /\ index[c] \in Nat /\ tail \in Nat /\ 0 \in Nat
  BY DEF Threads, BalanceInv, ShapeOK
<1>1. CASE CallTryPop(c)
  BY <1>0, <1>1, QuietBalance DEF CallTryPop, Labels
<1>2. ASSUME Leave(c, "idle"), pc[c] \notin {"offer", "wait"}, UNCHANGED <<head, tail, states>>
      PROVE  BalanceInv'
  BY <1>0, <1>2, QuietBalance DEF Leave, Labels
<1>3. CASE TryPopCheck(c)
  <2>1. CASE Goto(c, "pop_claim") /\ UNCHANGED <<head, tail, states, index>>
    <3>1. index' = [index EXCEPT ![c] = index[c]] /\ pc[c] = "pop_check"
      BY <1>0, <1>3, <2>1 DEF TryPopCheck, ShapeOK
    <3>. QED
      BY <1>0, <2>1, <3>1, QuietBalance DEF Labels
  <2>2. CASE RefusePop(c)
    BY <1>2, <1>3, <2>2 DEF TryPopCheck, RefusePop
  <2>. QED
    BY <1>3, <2>1, <2>2 DEF TryPopCheck
<1>4. CASE TryPopClaim(c)
  <2>1. CASE RefusePop(c)
    BY <1>2, <1>4, <2>1 DEF TryPopClaim, RefusePop
  <2>2. CASE tail = index[c] /\ ClaimTail(c) /\ UNCHANGED index
    <3>1. index' = [index EXCEPT ![c] = tail] /\ pc[c] = "pop_claim"
      BY <1>0, <1>4, <2>2 DEF TryPopClaim, ShapeOK
    <3>. QED
      BY <2>2, <3>1, ClaimTailBalance
  <2>. QED
    BY <1>4, <2>1, <2>2 DEF TryPopClaim
<1>5. CASE Pop(c)
  BY <1>5, ClaimTailBalance DEF Pop
<1>6. CASE AwaitFull(c)
  BY <1>0, <1>6, AwaitBalance DEF AwaitFull
<1>7. CASE Read(c)
  <2>1. Leave(c, "idle") /\ pc[c] = "read" /\ UNCHANGED <<head, tail, states>>
    BY <1>7 DEF Read
  <2>. QED
    BY <1>2, <2>1
<1>8. ~Release(c)
  BY <1>0 DEF Release, ShapeOK
<1>. QED
  BY <1>1, <1>3, <1>4, <1>5, <1>6, <1>7, <1>8 DEF PopCall, PopStep

(***************************************************************************)
(* The theorem                                                             *)
(***************************************************************************)

LEMMA StepBalanceInv ==
  ~SPSC /\ TotalOrder /\ IsFiniteSet(Threads) /\ BalanceInv /\ [Next]_vars => BalanceInv'
<1>. SUFFICES ASSUME ~SPSC, TotalOrder, IsFiniteSet(Threads), BalanceInv, [Next]_vars
              PROVE  BalanceInv'
  OBVIOUS
<1>1. ASSUME Drop \/ UNCHANGED vars PROVE BalanceInv'
  <2>1. /\ UNCHANGED <<head, tail, states, index>>
        /\ pc' = pc \/ pc' = [t \in Threads |-> "gone"]
        /\ \A t \in Threads : pc'[t] = pc[t] \/ pc[t] \in {"idle", "panicked"}
    BY <1>1 DEF Drop, vars
  <2>2. ShapeOK'
    BY <2>1 DEF BalanceInv, ShapeOK, Labels
  <2>3. \A t \in Threads, w \in {"offer", "wait"} : pc'[t] = w <=> pc[t] = w
    BY <2>1
  <2>4. \A s : /\ WaitingOn(s, "offer")' = WaitingOn(s, "offer")
               /\ WaitingOn(s, "wait")' = WaitingOn(s, "wait")
    BY <2>1, <2>3 DEF WaitingOn, Slot
  <2>5. SlotsBalanced'
    BY <2>1, <2>4 DEF BalanceInv, SlotsBalanced, LapsOn, Slot
  <2>. QED
    BY <2>2, <2>5 DEF BalanceInv
<1>. QED
  BY <1>1, PushBalance, PopBalance DEF Next

LEMMA InitBalanceInv == Init => BalanceInv
<1>. SUFFICES ASSUME Init PROVE BalanceInv
  OBVIOUS
<1>1. ShapeOK
  BY DEF Init, ShapeOK, Labels
<1>2. ASSUME NEW s \in DOMAIN states
      PROVE  /\ LapsOn(s, head) = {} /\ LapsOn(s, tail) = {} /\ states[s] = "EMPTY"
             /\ WaitingOn(s, "offer") = {} /\ WaitingOn(s, "wait") = {}
  BY DEF Init, LapsOn, WaitingOn
<1>3. SlotsBalanced
  BY <1>2, FS_EmptySet DEF SlotsBalanced
<1>. QED
  BY <1>1, <1>3 DEF BalanceInv

\* In a queue for several producers and consumers, any number of them, with
\* TOTAL_ORDER: on each slot, the surplus of claimed pushes over claimed pops is
\* its element and its waiting pushes, less its waiting pops.  No claim of
\* try_push or try_pop goes to one slot while its counter moves past another.
THEOREM EverySlotBalanced ==
  ASSUME ~SPSC, TotalOrder, IsFiniteSet(Threads)
  PROVE  Spec => []SlotsBalanced
<1>1. BalanceInv /\ [Next]_vars => BalanceInv'
  BY StepBalanceInv
<1>2. BalanceInv => SlotsBalanced
  BY DEF BalanceInv
<1>. QED
  BY <1>1, <1>2, InitBalanceInv, PTL DEF Spec

\* The slots whose waiting threads all wait for the state they do not have
LEMMA StuckSlot ==
  ASSUME ~SPSC, IsFiniteSet(Threads), BalanceInv, NEW s \in DOMAIN states,
         Cardinality(LapsOn(s, head)) = Cardinality(LapsOn(s, tail)), ~Served(s)
  PROVE  Stopped(s) = {}
<1>1. /\ IsFiniteSet(WaitingOn(s, "offer")) /\ Cardinality(WaitingOn(s, "offer")) \in Nat
      /\ IsFiniteSet(WaitingOn(s, "wait")) /\ Cardinality(WaitingOn(s, "wait")) \in Nat
  BY FS_Subset, FS_CardinalityType DEF WaitingOn
<1>2. /\ Cardinality(LapsOn(s, head)) \in Nat /\ Cardinality(LapsOn(s, tail)) \in Nat
      /\ states[s] \in {"EMPTY", "FULL"}
  BY OneMoreLap DEF BalanceInv, ShapeOK
<1>3. Cardinality(WaitingOn(s, "wait")) =
        (IF states[s] = "FULL" THEN 1 ELSE 0) + Cardinality(WaitingOn(s, "offer"))
  BY <1>1, <1>2 DEF BalanceInv, SlotsBalanced
<1>4. CASE states[s] = "FULL"
  <2>1. WaitingOn(s, "wait") = {}
    BY <1>4 DEF Served
  <2>. QED
    BY <1>1, <1>3, <1>4, <2>1, FS_EmptySet
<1>5. CASE states[s] = "EMPTY"
  <2>1. WaitingOn(s, "offer") = {} /\ Cardinality(WaitingOn(s, "offer")) = 0
    BY <1>5, FS_EmptySet DEF Served
  <2>2. WaitingOn(s, "wait") = {}
    BY <1>1, <1>3, <1>5, <2>1, FS_EmptySet
  <2>. QED
    BY <2>1, <2>2 DEF Stopped
<1>. QED
  BY <1>2, <1>4, <1>5

\* In such a queue the calls are never all stuck at a slot that as many pops as
\* pushes have claimed: this is the safety behind BalancedCallsReturn, of any
\* number of threads.
THEOREM BalancedQueueNeverStuck ==
  ASSUME ~SPSC, TotalOrder, IsFiniteSet(Threads)
  PROVE  Spec => []BalancedNeverStuck
<1>1. BalanceInv /\ [Next]_vars => BalanceInv'
  BY StepBalanceInv
<1>2. BalanceInv => BalancedNeverStuck
  BY StuckSlot DEF BalancedNeverStuck
<1>. QED
  BY <1>1, <1>2, InitBalanceInv, PTL DEF Spec

(***************************************************************************)
(* Claims with TOTAL_ORDER                                                 *)
(***************************************************************************)

\* No two pushes in progress own one index, no two pops do, and every index that
\* is owned has been passed by its counter.
OwnersApart(labels, counter) ==
  \A t \in Threads : pc[t] \in labels =>
    /\ index[t] < counter
    /\ \A u \in Threads : pc[u] \in labels /\ index[t] = index[u] => t = u

ClaimsInv ==
  /\ head \in Nat /\ tail \in Nat
  /\ pc \in [Threads -> Labels] /\ index \in [Threads -> Nat]
  /\ OwnersApart(Claimed, head) /\ OwnersApart(Waiting, tail)

\* A step of thread t that claims nothing: it keeps the index it owns or owns none.
LEMMA OwnersKept ==
  ASSUME ClaimsInv, NEW t \in Threads, NEW l \in Labels, Goto(t, l),
         NEW n \in Nat, index' = [index EXCEPT ![t] = n], UNCHANGED <<head, tail>>,
         l \in Claimed => pc[t] \in Claimed /\ n = index[t],
         l \in Waiting => pc[t] \in Waiting /\ n = index[t]
  PROVE  ClaimsInv'
<1>1. /\ pc'[t] = l /\ index'[t] = n
      /\ \A u \in Threads : u # t => pc'[u] = pc[u] /\ index'[u] = index[u]
      /\ pc' \in [Threads -> Labels] /\ index' \in [Threads -> Nat]
  BY DEF Goto, ClaimsInv
<1>2. \A u \in Threads :
        /\ pc'[u] \in Claimed => pc[u] \in Claimed /\ index'[u] = index[u]
        /\ pc'[u] \in Waiting => pc[u] \in Waiting /\ index'[u] = index[u]
  BY <1>1
<1>. QED
  BY <1>1, <1>2 DEF ClaimsInv, OwnersApart

\* Thread t claims the index at which one of the counters stands.
LEMMA OwnerAdded ==
  ASSUME ClaimsInv, NEW t \in Threads, NEW l \in Labels, Goto(t, l),
         NEW n \in Nat, index' = [index EXCEPT ![t] = n],
         \/ l = "offer" /\ n = head /\ head' = head + 1 /\ tail' = tail
         \/ l = "wait" /\ n = tail /\ tail' = tail + 1 /\ head' = head
  PROVE  ClaimsInv'
<1>1. /\ pc'[t] = l /\ index'[t] = n
      /\ \A u \in Threads : u # t => pc'[u] = pc[u] /\ index'[u] = index[u]
      /\ pc' \in [Threads -> Labels] /\ index' \in [Threads -> Nat]
      /\ head \in Nat /\ tail \in Nat /\ head' \in Nat /\ tail' \in Nat
  BY DEF Goto, ClaimsInv
<1>2. OwnersApart(Claimed, head)'
  <2>1. CASE l = "offer"
    <3>1. \A u \in Threads : u # t /\ pc'[u] \in Claimed => index'[u] < n
      BY <1>1, <2>1 DEF ClaimsInv, OwnersApart, Claimed
    <3>2. n < head' /\ head <= head' /\ head = n
      BY <1>1, <2>1
    <3>. QED
      BY <1>1, <3>1, <3>2 DEF ClaimsInv, OwnersApart
  <2>2. CASE l = "wait"
    BY <1>1, <2>2 DEF ClaimsInv, OwnersApart, Claimed
  <2>. QED
    BY <2>1, <2>2
<1>3. OwnersApart(Waiting, tail)'
  <2>1. CASE l = "wait"
    <3>1. \A u \in Threads : u # t /\ pc'[u] \in Waiting => index'[u] < n
      BY <1>1, <2>1 DEF ClaimsInv, OwnersApart, Waiting
    <3>2. n < tail' /\ tail <= tail' /\ tail = n
      BY <1>1, <2>1
    <3>. QED
      BY <1>1, <3>1, <3>2 DEF ClaimsInv, OwnersApart
  <2>2. CASE l = "offer"
    BY <1>1, <2>2 DEF ClaimsInv, OwnersApart, Waiting
  <2>. QED
    BY <2>1, <2>2
<1>. QED
  BY <1>1, <1>2, <1>3 DEF ClaimsInv

\* Of the steps of a call only the claim makes an owner.
LEMMA PushApart ==
  ASSUME TotalOrder, ClaimsInv, NEW p \in Producers, PushCall(p) \/ PushStep(p)
  PROVE  ClaimsInv'
<1>0. /\ p \in Threads /\ head \in Nat /\ 0 \in Nat /\ index[p] \in Nat
      /\ index = [index EXCEPT ![p] = index[p]]
  BY DEF ClaimsInv, Threads
<1>. USE DEF Labels, Claimed, Waiting
<1>1. CASE CallTryPush(p)
  BY <1>0, <1>1, OwnersKept DEF CallTryPush
<1>2. ASSUME NEW l \in {"idle", "panicked"}, Leave(p, l), UNCHANGED <<head, tail>>
      PROVE  ClaimsInv'
  <2>1. /\ Goto(p, l) /\ index' = [index EXCEPT ![p] = 0]
        /\ l \in Labels /\ l \notin Claimed /\ l \notin Waiting
    BY <1>2 DEF Leave
  <2>. QED
    BY <1>0, <1>2, <2>1, OwnersKept
<1>3. ASSUME NEW l \in {"push_claim", "write", "publish"}, Goto(p, l),
             UNCHANGED <<head, tail, index>>, l # "push_claim" => pc[p] \in Claimed
      PROVE  ClaimsInv'
  BY <1>0, <1>3, OwnersKept
<1>4. ASSUME NEW v, ClaimHead(p, v), index' = [index EXCEPT ![p] = head] PROVE ClaimsInv'
  BY <1>0, <1>4, OwnerAdded DEF ClaimHead
<1>5. CASE TryPushCheck(p)
  BY <1>2, <1>3, <1>5 DEF TryPushCheck, RefusePush
<1>6. CASE TryPushClaim(p)
  BY <1>0, <1>2, <1>4, <1>6 DEF TryPushClaim, RefusePush
<1>7. CASE Push(p)
  BY <1>4, <1>7 DEF Push, PushOf
<1>8. CASE AwaitEmpty(p)
  BY <1>3, <1>8 DEF AwaitEmpty
<1>9. CASE Write(p)
  BY <1>2, <1>3, <1>9 DEF Write
<1>10. CASE Publish(p)
  BY <1>2, <1>10 DEF Publish
<1>. QED
  BY <1>1, <1>5, <1>6, <1>7, <1>8, <1>9, <1>10 DEF PushCall, PushStep

LEMMA PopApart ==
  ASSUME TotalOrder, ClaimsInv, NEW c \in Consumers, PopCall(c) \/ PopStep(c)
  PROVE  ClaimsInv'
<1>0. /\ c \in Threads /\ tail \in Nat /\ 0 \in Nat /\ index[c] \in Nat
      /\ index = [index EXCEPT ![c] = index[c]]
  BY DEF ClaimsInv, Threads
<1>. USE DEF Labels, Claimed, Waiting
<1>1. CASE CallTryPop(c)
  BY <1>0, <1>1, OwnersKept DEF CallTryPop
<1>2. ASSUME Leave(c, "idle"), UNCHANGED <<head, tail>> PROVE ClaimsInv'
  <2>1. Goto(c, "idle") /\ index' = [index EXCEPT ![c] = 0]
    BY <1>2 DEF Leave
  <2>. QED
    BY <1>0, <1>2, <2>1, OwnersKept
<1>3. ASSUME NEW l \in {"pop_claim", "read", "release"}, Goto(c, l),
             UNCHANGED <<head, tail, index>>, l # "pop_claim" => pc[c] \in Waiting
      PROVE  ClaimsInv'
  BY <1>0, <1>3, OwnersKept
<1>4. ASSUME ClaimTail(c), index' = [index EXCEPT ![c] = tail] PROVE ClaimsInv'
  BY <1>0, <1>4, OwnerAdded DEF ClaimTail
<1>5. CASE TryPopCheck(c)
  BY <1>2, <1>3, <1>5 DEF TryPopCheck, RefusePop
<1>6. CASE TryPopClaim(c)
  BY <1>0, <1>2, <1>4, <1>6 DEF TryPopClaim, RefusePop
<1>7. CASE Pop(c)
  BY <1>4, <1>7 DEF Pop
<1>8. CASE AwaitFull(c)
  BY <1>3, <1>8 DEF AwaitFull
<1>9. CASE Read(c)
  BY <1>2, <1>3, <1>9 DEF Read
<1>10. CASE Release(c)
  BY <1>2, <1>10 DEF Release
<1>. QED
  BY <1>1, <1>5, <1>6, <1>7, <1>8, <1>9, <1>10 DEF PopCall, PopStep

LEMMA StepClaimsInv == TotalOrder /\ ClaimsInv /\ [Next]_vars => ClaimsInv'
<1>. SUFFICES ASSUME TotalOrder, ClaimsInv, [Next]_vars PROVE ClaimsInv'
  OBVIOUS
<1>1. ASSUME Drop \/ UNCHANGED vars PROVE ClaimsInv'
  <2>1. /\ UNCHANGED <<head, tail, index>> /\ pc' \in [Threads -> Labels]
        /\ \A t \in Threads : pc'[t] = pc[t] \/ pc'[t] = "gone"
    BY <1>1 DEF Drop, vars, ClaimsInv, Labels
  <2>. QED
    BY <2>1 DEF ClaimsInv, OwnersApart, Claimed, Waiting
<1>. QED
  BY <1>1, PushApart, PopApart DEF Next

\* With TOTAL_ORDER, for any number of threads, any capacity and any mix of calls,
\* with or without SPSC: two pushes, or two pops, that are at one slot are at least
\* a lap apart.
THEOREM OwnersLapsApart == ASSUME TotalOrder PROVE Spec => []ClaimsApart
<1>1. Init => ClaimsInv
  BY DEF Init, ClaimsInv, OwnersApart, Labels, Claimed, Waiting
<1>2. ASSUME NEW i \in Nat, NEW j \in Nat, i # j, Slot(i) = Slot(j)
      PROVE  i + Capacity <= j \/ j + Capacity <= i
  BY <1>2, SlotsApart, Queue2Assumption
<1>3. ClaimsInv => ClaimsApart
  BY <1>2 DEF ClaimsInv, OwnersApart, ClaimsApart, Claimed, Waiting
<1>. QED
  BY <1>1, <1>3, StepClaimsInv, PTL DEF Spec
=============================================================================
