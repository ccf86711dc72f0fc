------------------------ MODULE AtomicQueue2Refinement -----------------------
(***************************************************************************)
(* Proofs that a queue built with SPSC implements BoundedFifo and makes a  *)
(* call wait only when that queue is full or empty, that dropping it       *)
(* destroys exactly what was sent and not received, and that the same      *)
(* holds without SPSC, whatever the order, until two copies race.          *)
(* With TOTAL_ORDER each pop copies its own index's element until two      *)
(* copies race or two pushes or pops are at one slot, and the claims of    *)
(* try_push and try_pop implement BoundedFifo at all times.                *)
(***************************************************************************)
EXTENDS AtomicQueue2Proofs, AtomicQueue2Races, SequenceTheorems

(***************************************************************************)
(* The refinement.  A put is the store of FULL, a get the store of EMPTY;  *)
(* every other step stutters.                                              *)
(***************************************************************************)

\* What a step does to the abstract queue
Quiet ==
  /\ received' = received /\ Visible' = Visible
  /\ sent' = sent \/ \E v \in Elements : sent' = Append(sent, v)

Puts ==
  /\ received' = received /\ sent' = sent
  /\ Visible' = Visible + 1 /\ Visible < head /\ Visible - Returned < Capacity

Gets ==
  /\ sent' = sent /\ Visible' = Visible /\ Returned < Visible
  /\ received' = Append(received, sent[Returned + 1])

LEMMA ProducerEffect ==
  ASSUME SPSC, SpscInv, NEW p \in Producers, PushCall(p) \/ PushStep(p)
  PROVE  Quiet \/ Puts
<1>0. TypeOK /\ ProducerOK(p) /\ p \in Threads
  BY DEF SpscInv, Threads
<1>1. \A l : Goto(p, l) =>
        /\ pc'[p] = l /\ (Pushing <=> pc[p] \in Claimed) /\ (Pushing' <=> l \in Claimed)
  BY <1>0, ProducerMoves
<1>2. ASSUME NEW l, Goto(p, l), l \in Claimed <=> pc[p] \in Claimed,
             UNCHANGED <<head, sent, received>>
      PROVE  Quiet
  BY <1>1, <1>2 DEF Quiet, Visible
<1>3. CASE CallTryPush(p)
  BY <1>2, <1>3 DEF CallTryPush, Claimed
<1>4. ASSUME RefusePush(p), pc[p] \notin Claimed PROVE Quiet
  BY <1>2, <1>4 DEF RefusePush, Leave, Claimed
<1>5. CASE TryPushCheck(p)
  <2>1. pc[p] = "push_check" /\ UNCHANGED <<head, sent, received>>
    BY <1>5 DEF TryPushCheck, RefusePush
  <2>2. Goto(p, "push_claim") \/ Goto(p, "idle") \/ Goto(p, "panicked")
    BY <1>5 DEF TryPushCheck, RefusePush, Leave
  <2>. QED
    BY <1>2, <2>1, <2>2 DEF Claimed
<1>6. ASSUME NEW v \in Elements, ClaimHead(p, v), pc[p] \notin Claimed PROVE Quiet
  <2>1. /\ Goto(p, "offer") /\ head' = head + 1 /\ sent' = Append(sent, v)
        /\ received' = received
    BY <1>6 DEF ClaimHead
  <2>. QED
    BY <1>1, <1>6, <2>1, Counts DEF Quiet, Visible, Claimed
<1>7. CASE TryPushClaim(p)
  BY <1>0, <1>4, <1>6, <1>7 DEF TryPushClaim, ProducerOK, Claimed
<1>8. CASE Push(p)
  <2>1. PICK v \in unsent : PushOf(p, v)
    BY <1>8 DEF Push
  <2>. QED
    BY <1>0, <1>6, <2>1 DEF PushOf, TypeOK, Claimed
<1>9. CASE AwaitEmpty(p)
  BY <1>2, <1>9 DEF AwaitEmpty, Claimed
<1>10. CASE Write(p)
  BY <1>2, <1>10 DEF Write, Claimed
<1>11. CASE Publish(p)
  <2>1. /\ pc[p] = "publish" /\ Goto(p, "idle") /\ UNCHANGED <<head, sent, received>>
    BY <1>11 DEF Publish, Leave
  <2>2. Visible = head - 1 /\ Visible' = head /\ Visible - Returned < Capacity
    BY <1>0, <1>1, <2>1 DEF Visible, Claimed, ProducerOK
  <2>. QED
    BY <2>1, <2>2, Counts DEF Puts
<1>. QED
  BY <1>3, <1>5, <1>7, <1>8, <1>9, <1>10, <1>11 DEF PushCall, PushStep

LEMMA ConsumerEffect ==
  ASSUME SPSC, SpscInv, NEW c \in Consumers, PopCall(c) \/ PopStep(c)
  PROVE  Quiet \/ Gets
<1>0. TypeOK /\ ConsumerOK(c)
  BY DEF SpscInv
<1>1. ASSUME NEW l, Goto(c, l), UNCHANGED head PROVE Visible' = Visible
  BY <1>0, <1>1, ConsumerMoves DEF Visible
<1>2. ASSUME NEW l, Goto(c, l), UNCHANGED <<head, sent, received>> PROVE Quiet
  BY <1>1, <1>2 DEF Quiet
<1>3. CASE CallTryPop(c)
  BY <1>2, <1>3 DEF CallTryPop
<1>4. CASE TryPopCheck(c)
  BY <1>2, <1>4 DEF TryPopCheck, RefusePop, Leave
<1>5. CASE TryPopClaim(c)
  BY <1>2, <1>5 DEF TryPopClaim, RefusePop, Leave, ClaimTail
<1>6. CASE Pop(c)
  BY <1>2, <1>6 DEF Pop, ClaimTail
<1>7. CASE AwaitFull(c)
  BY <1>2, <1>7 DEF AwaitFull
<1>8. CASE Read(c)
  BY <1>2, <1>8 DEF Read
<1>9. CASE Release(c)
  <2>1. Goto(c, "idle") /\ UNCHANGED <<head, sent>> /\ received' = Append(received, element[c])
    BY <1>9 DEF Release, Leave
  <2>2. Returned < Visible /\ element[c] = sent[Returned + 1]
    BY <1>0, <1>9 DEF Release, ConsumerOK
  <2>. QED
    BY <1>1, <2>1, <2>2 DEF Gets
<1>. QED
  BY <1>3, <1>4, <1>5, <1>6, <1>7, <1>8, <1>9 DEF PopCall, PopStep

LEMMA StepEffect ==
  ASSUME SPSC, SpscInv, [Next]_vars PROVE Quiet \/ Puts \/ Gets
<1>1. ASSUME Drop \/ UNCHANGED vars PROVE Quiet
  <2>1. \A t \in Threads :
          \/ pc'[t] = pc[t]
          \/ pc[t] \in {"idle", "panicked"} /\ pc'[t] = "gone"
    BY <1>1 DEF Drop, vars
  <2>2. Pushing' <=> Pushing
    BY <2>1 DEF Pushing, Threads
  <2>. QED
    BY <1>1, <2>2 DEF Drop, vars, Quiet, Visible
<1>. QED
  BY <1>1, ProducerEffect, ConsumerEffect DEF Next

(***************************************************************************)
(* The mapping                                                             *)
(***************************************************************************)

\* One producer: the count of the pushes in progress is one or zero.
LEMMA PublishedIsVisible == ASSUME SPSC, SpscInv PROVE Published = Visible
<1>. DEFINE P == {p \in Producers : pc[p] \in {"offer", "write", "publish"}}
<1>0. head = Len(sent) /\ head \in Nat /\ Published = Len(sent) - Cardinality(P)
  BY Counts DEF Published
<1>1. CASE Pushing
  <2>1. PICK p \in Producers : pc[p] \in {"offer", "write", "publish"}
    BY <1>1 DEF Pushing
  <2>2. P = {p}
    BY <2>1, SingleAssumption
  <2>3. Cardinality(P) = 1
    BY <2>2, FS_Singleton
  <2>. QED
    BY <1>0, <1>1, <2>3 DEF Visible
<1>2. CASE ~Pushing
  <2>1. P = {}
    BY <1>2 DEF Pushing
  <2>2. Cardinality(P) = 0
    BY <2>1, FS_EmptySet
  <2>. QED
    BY <1>0, <1>2, <2>2 DEF Visible
<1>. QED
  BY <1>1, <1>2

\* A slice of a sequence, by its elements
LEMMA Slice ==
  ASSUME NEW S, NEW s \in Seq(S), NEW m \in Nat, NEW n \in Nat, m <= n, n <= Len(s)
  PROVE  /\ SubSeq(s, m + 1, n) \in Seq(S) /\ Len(SubSeq(s, m + 1, n)) = n - m
         /\ \A i \in 1 .. (n - m) : SubSeq(s, m + 1, n)[i] = s[m + i]
<1>1. \A i \in (m + 1) .. n : s[i] \in S
  BY ElementOfSeq
<1>2. \A i \in 1 .. (n - m) : (m + 1) + i - 1 = m + i
  OBVIOUS
<1>. QED
  BY <1>1, <1>2, SubSeqProperties

\* A sequence that agrees with another as far as that goes has its slices.
LEMMA SliceKept ==
  ASSUME NEW S, NEW s \in Seq(S), NEW t \in Seq(S), Len(s) <= Len(t),
         \A i \in 1 .. Len(s) : t[i] = s[i],
         NEW m \in Nat, NEW n \in Nat, m <= n, n <= Len(s)
  PROVE  SubSeq(t, m + 1, n) = SubSeq(s, m + 1, n)
<1>0. n <= Len(t) /\ \A i \in 1 .. (n - m) : t[m + i] = s[m + i]
  BY LenProperties
<1>1. SubSeq(s, m + 1, n) \in Seq(S) /\ Len(SubSeq(s, m + 1, n)) = n - m
  BY Slice
<1>2. SubSeq(t, m + 1, n) \in Seq(S) /\ Len(SubSeq(t, m + 1, n)) = n - m
  BY <1>0, Slice
<1>3. \A i \in 1 .. (n - m) : SubSeq(t, m + 1, n)[i] = SubSeq(s, m + 1, n)[i]
  BY <1>0, Slice
<1>. QED
  BY <1>1, <1>2, <1>3, SeqEqual

\* A slice and the element that follows it
LEMMA SliceGrows ==
  ASSUME NEW S, NEW s \in Seq(S), NEW m \in Nat, NEW n \in Nat, m <= n, n + 1 <= Len(s)
  PROVE  SubSeq(s, m + 1, n + 1) = Append(SubSeq(s, m + 1, n), s[n + 1])
<1>1. SubSeq(s, m + 1, n) \in Seq(S) /\ n + 1 \in 1 .. Len(s) /\ s[n + 1] \in S
  BY Slice, LenProperties, ElementOfSeq
<1>2. SubSeq(s, m + 1, n + 1) = SubSeq(s, m + 1, n) \o << s[n + 1] >>
  <2>1. m + 1 \in 1 .. Len(s) /\ n + 1 \in (m + 1) .. Len(s) /\ (n + 1) - 1 = n
    BY LenProperties
  <2>. QED
    BY <2>1, SubSeqRecursiveSecond
<1>. QED
  BY <1>1, <1>2, AppendIsConcat

\* The abstract queue: what is visible and has not been returned
Queue == SubSeq(sent, Returned + 1, Visible)

LEMMA QuietMaps == ASSUME SPSC, SpscInv, SpscInv', Quiet PROVE Queue' = Queue
<1>1. /\ Returned' = Returned /\ Visible' = Visible /\ Visible <= Len(sent)
      /\ sent \in Seq(Elements) /\ sent' \in Seq(Elements)
      /\ Returned \in Nat /\ Visible \in Nat /\ Returned <= Visible
  BY Counts DEF Quiet, Returned, SpscInv, TypeOK
<1>2. Len(sent) <= Len(sent') /\ \A i \in 1 .. Len(sent) : sent'[i] = sent[i]
  BY <1>1, AppendProperties DEF Quiet
<1>3. PICK n \in Nat : n = Visible
  BY <1>1
<1>4. PICK m \in Nat : m = Returned
  BY <1>1
<1>5. n <= Len(sent) /\ m <= n
  BY <1>1, <1>3, <1>4
<1>6. SubSeq(sent', m + 1, n) = SubSeq(sent, m + 1, n)
  BY <1>1, <1>2, <1>5, SliceKept
<1>. QED
  BY <1>1, <1>3, <1>4, <1>6 DEF Queue

LEMMA PutMaps ==
  ASSUME SPSC, SpscInv, Puts
  PROVE  \E v \in Elements : Len(Queue) < Capacity /\ Queue' = Append(Queue, v)
<1>1. /\ Returned' = Returned /\ Visible' = Visible + 1 /\ Visible + 1 <= Len(sent)
      /\ sent \in Seq(Elements) /\ sent' = sent /\ Visible - Returned < Capacity
      /\ Returned \in Nat /\ Visible \in Nat /\ Returned <= Visible
  BY Counts DEF Puts, Returned, SpscInv, TypeOK
<1>2. PICK n \in Nat : n = Visible
  BY <1>1
<1>3. PICK m \in Nat : m = Returned
  BY <1>1
<1>4. n + 1 <= Len(sent) /\ m <= n /\ n <= Len(sent) /\ n - m < Capacity
  BY <1>1, <1>2, <1>3, LenProperties
<1>5. sent[n + 1] \in Elements
  BY <1>1, <1>4, ElementOfSeq
<1>6. SubSeq(sent, m + 1, n) \in Seq(Elements) /\ Len(SubSeq(sent, m + 1, n)) = n - m
  BY <1>1, <1>4, Slice
<1>7. SubSeq(sent, m + 1, n + 1) = Append(SubSeq(sent, m + 1, n), sent[n + 1])
  BY <1>1, <1>4, SliceGrows
<1>. QED
  BY <1>1, <1>2, <1>3, <1>4, <1>5, <1>6, <1>7 DEF Queue

LEMMA GetMaps ==
  ASSUME SPSC, SpscInv, Gets
  PROVE  Queue # <<>> /\ received' = Append(received, Head(Queue)) /\ Queue' = Tail(Queue)
<1>1. /\ Visible' = Visible /\ Visible <= Len(sent) /\ Returned < Visible
      /\ sent \in Seq(Elements) /\ sent' = sent /\ received' = Append(received, sent[Returned + 1])
      /\ Returned \in Nat /\ Visible \in Nat
  BY Counts DEF Gets, Returned, SpscInv, TypeOK
<1>2. Returned' = Returned + 1
  <2>1. received \in Seq(Contents) /\ sent[Returned + 1] \in Contents
    BY <1>1, ElementOfSeq DEF SpscInv, TypeOK, Contents
  <2>. QED
    BY <1>1, <2>1, AppendProperties DEF Returned
<1>3. Returned + 1 \in 1 .. Len(sent) /\ Visible \in (Returned + 1) .. Len(sent)
  BY <1>1, LenProperties
<1>4. Head(Queue) = sent[Returned + 1] /\ Tail(Queue) = SubSeq(sent, Returned + 1 + 1, Visible)
  BY <1>1, <1>3, HeadTailOfSubSeq DEF Queue
<1>5. Len(Queue) = Visible - Returned
  BY <1>1, Slice DEF Queue
<1>6. Queue # <<>>
  BY <1>1, <1>5, EmptySeq
<1>. QED
  BY <1>1, <1>2, <1>4, <1>6 DEF Queue

\* The count of the abstract queue's put elements, along every behaviour
Mapped == Published = Visible

LEMMA StepImplements ==
  ASSUME SPSC, SpscInv, SpscInv', Mapped, Mapped', [Next]_vars
  PROVE  [Fifo!Next]_<<SubSeq(sent, Len(received) + 1, Published), received>>
<1>1. /\ SubSeq(sent, Len(received) + 1, Published) = Queue
      /\ SubSeq(sent, Len(received) + 1, Published)' = Queue'
  BY DEF Mapped, Queue, Returned
<1>2. CASE Quiet
  BY <1>1, <1>2, QuietMaps DEF Quiet
<1>3. CASE Puts
  <2>1. PICK v \in Elements : Len(Queue) < Capacity /\ Queue' = Append(Queue, v)
    BY <1>3, PutMaps
  <2>2. Fifo!Put(v)
    BY <1>1, <1>3, <2>1 DEF Fifo!Put, Puts
  <2>. QED
    BY <2>2 DEF Fifo!Next
<1>4. CASE Gets
  <2>1. Fifo!Get
    BY <1>1, <1>4, GetMaps DEF Fifo!Get
  <2>. QED
    BY <2>1 DEF Fifo!Next
<1>. QED
  BY <1>2, <1>3, <1>4, StepEffect

LEMMA InitImplements == ASSUME SPSC, Init, Mapped PROVE Fifo!Init
<1>1. /\ \A t \in Threads : pc[t] = "idle"
      /\ sent = <<>> /\ received = <<>> /\ head = 0
  BY DEF Init
<1>2. Visible = 0 /\ Len(received) = 0
  BY <1>1 DEF Visible, Pushing, Threads
<1>3. SubSeq(sent, Len(received) + 1, Published) = <<>>
  BY <1>2, SubSeqEmpty DEF Mapped
<1>. QED
  BY <1>1, <1>3 DEF Fifo!Init

\* A queue that one producer and one consumer share is a bounded first-in
\* first-out queue for every capacity and every mix of calls: the two arrays,
\* the two counters and the slot states implement BoundedFifo.
THEOREM SpscImplementsFifo == ASSUME SPSC PROVE Spec => ImplementsFifo
<1>1. SpscInv => Mapped
  BY PublishedIsVisible DEF Mapped
<1>2. Init /\ Mapped => Fifo!Init
  BY InitImplements
<1>3. /\ SpscInv /\ SpscInv' /\ Mapped /\ Mapped' /\ [Next]_vars
      => [Fifo!Next]_<<SubSeq(sent, Len(received) + 1, Published), received>>
  BY StepImplements
<1>4. Spec => []SpscInv
  BY SpscInvariance
<1>. QED
  BY <1>1, <1>2, <1>3, <1>4, PTL DEF Spec, ImplementsFifo, Fifo!Spec

\* A thread that waits finds the ring full or empty.
LEMMA WaitingProducer ==
  ASSUME SPSC, SpscInv, NEW p \in Producers, pc[p] = "offer",
         states[Slot(index[p])] # "EMPTY"
  PROVE  Visible - Returned = Capacity
<1>1. index[p] = Visible
  BY DEF SpscInv, ProducerOK, Visible, Pushing
<1>2. Slot(Visible) \in DOMAIN states /\ states[Slot(Visible)] = "FULL"
  BY <1>1, Counts, SlotRange DEF SpscInv, TypeOK
<1>3. PICK i \in Returned .. (Visible - 1) : Slot(i) = Slot(Visible)
  BY <1>2 DEF SpscInv, SlotsOK
<1>4. i \in Nat /\ Visible \in Nat /\ i < Visible
  BY Counts
<1>5. ~(Visible - i < Capacity)
  BY <1>3, <1>4, SlotsApart
<1>. QED
  BY <1>4, <1>5, Counts

LEMMA WaitingConsumer ==
  ASSUME SPSC, SpscInv, NEW c \in Consumers, pc[c] = "wait",
         states[Slot(index[c])] # "FULL"
  PROVE  Visible = Returned
<1>1. index[c] = Returned
  BY DEF SpscInv, ConsumerOK
<1>2. Slot(Returned) \in DOMAIN states
  BY Counts, SlotRange DEF SpscInv, TypeOK
<1>3. Returned \notin Returned .. (Visible - 1)
  BY <1>1, <1>2 DEF SpscInv, SlotsOK
<1>. QED
  BY <1>3, Counts

\* A push of an SPSC queue waits only while the queue holds Capacity elements and
\* a pop only while it holds none: the abstract queue blocks whom the ring blocks.
THEOREM SpscWaitsOnlyAtLimits == ASSUME SPSC PROVE Spec => []WaitsOnlyAtLimits
<1>1. SpscInv => WaitsOnlyAtLimits
  <2>. SUFFICES ASSUME SpscInv PROVE WaitsOnlyAtLimits
    OBVIOUS
  <2>1. Published - Len(received) = Visible - Returned
    BY PublishedIsVisible DEF Returned
  <2>2. Visible = Returned => Visible - Returned = 0
    BY Counts
  <2>. QED
    BY <2>1, <2>2, WaitingProducer, WaitingConsumer DEF WaitsOnlyAtLimits
<1>. QED
  BY <1>1, SpscInvariance, PTL

(***************************************************************************)
(* Drop                                                                    *)
(***************************************************************************)

\* No element is sent twice, and none that is sent can be sent again.
Distinct ==
  /\ \A i, j \in 1 .. Len(sent) : sent[i] = sent[j] => i = j
  /\ \A i \in 1 .. Len(sent) : sent[i] \notin unsent
  /\ \A p \in Producers : pc[p] \in {"push_check", "push_claim"} =>
       element[p] \notin unsent /\ \A i \in 1 .. Len(sent) : sent[i] # element[p]

\* Drop is the last thing that happens to a queue, and it has destroyed the
\* elements of the indices that no pop has returned.
Dropped ==
  (\E t \in Threads : pc[t] = "gone") =>
    /\ \A t \in Threads : pc[t] = "gone"
    /\ dropped = {sent[i + 1] : i \in Returned .. (head - 1)}

DropInv == Distinct /\ Dropped

\* A step that sends nothing and takes no argument, or gives one back
LEMMA SameSent ==
  ASSUME SPSC, SpscInv, Distinct, NEW p \in Producers, NEW l, Goto(p, l), sent' = sent,
         \/ unsent' = unsent
         \/ unsent' = unsent \cup {element[p]} /\ pc[p] \in {"push_check", "push_claim"},
         l \in {"push_check", "push_claim"} =>
           element'[p] = element[p] /\ pc[p] \in {"push_check", "push_claim"} /\ unsent' = unsent
  PROVE  Distinct'
<1>1. pc'[p] = l /\ \A q \in Producers : q = p
  BY ProducerMoves DEF SpscInv
<1>. QED
  BY <1>1 DEF Distinct

LEMMA ProducerDistinct ==
  ASSUME SPSC, SpscInv, Distinct, NEW p \in Producers, PushCall(p) \/ PushStep(p)
  PROVE  Distinct'
<1>0. /\ TypeOK /\ ProducerOK(p) /\ p \in Threads
      /\ \A q \in Producers : q = p
  BY SingleAssumption DEF SpscInv, Threads
<1>1. \A l : Goto(p, l) => pc'[p] = l
  BY <1>0, ProducerMoves
<1>2. CASE CallTryPush(p)
  <2>1. PICK v \in unsent : unsent' = unsent \ {v} /\ element' = [element EXCEPT ![p] = v]
    BY <1>2 DEF CallTryPush, Draw
  <2>2. sent' = sent /\ element'[p] = v /\ v \notin unsent'
    BY <1>0, <1>2, <2>1 DEF CallTryPush, TypeOK
  <2>. QED
    BY <1>0, <2>1, <2>2 DEF Distinct
<1>3. ASSUME RefusePush(p), pc[p] \in {"push_check", "push_claim"} PROVE Distinct'
  <2>1. Goto(p, "idle") /\ sent' = sent /\ unsent' = unsent \cup {element[p]}
    BY <1>3 DEF RefusePush, Leave
  <2>. QED
    BY <1>3, <2>1, SameSent
<1>4. CASE TryPushCheck(p)
  <2>1. CASE RefusePush(p)
    BY <1>3, <1>4, <2>1 DEF TryPushCheck
  <2>2. CASE ~RefusePush(p)
    <3>1. /\ pc[p] = "push_check" /\ sent' = sent /\ unsent' = unsent
          /\ \/ Goto(p, "panicked")
             \/ Goto(p, "push_claim") /\ element' = element
      BY <1>4, <2>2 DEF TryPushCheck, Leave
    <3>. QED
      BY <3>1, SameSent
  <2>. QED
    BY <2>1, <2>2
<1>5. ASSUME NEW v \in Elements, ClaimHead(p, v), unsent' \subseteq unsent, v \notin unsent',
             \A i \in 1 .. Len(sent) : sent[i] # v
      PROVE  Distinct'
  <2>1. sent' = Append(sent, v) /\ pc'[p] = "offer"
    BY <1>1, <1>5 DEF ClaimHead
  <2>2. sent \in Seq(Elements) /\ Len(sent) \in Nat
    BY <1>0 DEF TypeOK
  <2>3. /\ Len(sent') = Len(sent) + 1 /\ sent'[Len(sent) + 1] = v
        /\ \A i \in 1 .. Len(sent) : sent'[i] = sent[i]
    BY <2>1, <2>2, AppendProperties
  <2>4. \A i \in 1 .. Len(sent') : i \in 1 .. Len(sent) \/ i = Len(sent) + 1
    BY <2>2, <2>3
  <2>. QED
    BY <1>0, <1>5, <2>1, <2>3, <2>4 DEF Distinct
<1>6. CASE TryPushClaim(p)
  <2>1. CASE RefusePush(p)
    BY <1>3, <1>6, <2>1 DEF TryPushClaim
  <2>2. CASE ClaimHead(p, element[p]) /\ UNCHANGED <<index, element, unsent>>
    BY <1>0, <1>5, <1>6, <2>2 DEF TryPushClaim, ProducerOK, Distinct
  <2>. QED
    BY <1>6, <2>1, <2>2 DEF TryPushClaim
<1>7. CASE Push(p)
  <2>1. PICK v \in unsent : unsent' = unsent \ {v} /\ ClaimHead(p, v)
    BY <1>7 DEF Push, PushOf, Draw
  <2>. QED
    BY <1>0, <1>5, <2>1 DEF TypeOK, Distinct
<1>8. CASE AwaitEmpty(p)
  BY <1>8, SameSent DEF AwaitEmpty
<1>9. CASE Write(p)
  <2>1. Goto(p, "publish") /\ sent' = sent /\ unsent' = unsent
    BY <1>9 DEF Write
  <2>. QED
    BY <2>1, SameSent
<1>10. CASE Publish(p)
  <2>1. Goto(p, "idle") /\ sent' = sent /\ unsent' = unsent
    BY <1>10 DEF Publish, Leave
  <2>. QED
    BY <2>1, SameSent
<1>. QED
  BY <1>2, <1>4, <1>6, <1>7, <1>8, <1>9, <1>10 DEF PushCall, PushStep

LEMMA ConsumerDistinct ==
  ASSUME SPSC, SpscInv, Distinct, NEW c \in Consumers, PopCall(c) \/ PopStep(c)
  PROVE  Distinct'
<1>0. TypeOK
  BY DEF SpscInv
<1>1. sent' = sent /\ unsent' = unsent /\ \E l : Goto(c, l)
  <2>1. CASE CallTryPop(c) \/ TryPopCheck(c)
    BY <2>1 DEF CallTryPop, TryPopCheck, RefusePop, Leave
  <2>2. CASE Pop(c) \/ TryPopClaim(c)
    BY <2>2 DEF Pop, TryPopClaim, RefusePop, ClaimTail, Leave
  <2>3. CASE AwaitFull(c) \/ Release(c)
    BY <2>3 DEF AwaitFull, Release, Leave
  <2>4. CASE Read(c)
    BY <2>4 DEF Read
  <2>. QED
    BY <2>1, <2>2, <2>3, <2>4 DEF PopCall, PopStep
<1>2. \A p \in Producers : p # c
  BY SingleAssumption
<1>3. \A p \in Producers : element'[p] = element[p]
  <2>1. element' = element \/ \E v : element' = [element EXCEPT ![c] = v]
    <3>1. CASE CallTryPop(c) \/ TryPopCheck(c)
      BY <3>1 DEF CallTryPop, TryPopCheck, RefusePop, Leave
    <3>2. CASE Pop(c) \/ TryPopClaim(c)
      BY <3>2 DEF Pop, TryPopClaim, RefusePop, ClaimTail, Leave
    <3>3. CASE AwaitFull(c) \/ Release(c)
      BY <3>3 DEF AwaitFull, Release, Leave
    <3>4. CASE Read(c)
      BY <3>4 DEF Read, Leave
    <3>. QED
      BY <3>1, <3>2, <3>3, <3>4 DEF PopCall, PopStep
  <2>. QED
    BY <1>0, <1>2, <2>1 DEF TypeOK, Threads
<1>4. \A p \in Producers : pc'[p] = pc[p]
  BY <1>0, <1>1, ConsumerMoves
<1>. QED
  BY <1>1, <1>3, <1>4 DEF Distinct

\* Once the queue is gone, no thread takes another step.
LEMMA NoStepAfter ==
  ASSUME NEW t \in Threads, \A u \in Threads : pc[u] = "gone", Next
  PROVE  FALSE
BY 
   DEF Next, PushCall, PushStep, PopCall, PopStep, CallTryPush, Push, PushOf,
       TryPushCheck, TryPushClaim, AwaitEmpty, Write, Publish, CallTryPop, Pop,
       TryPopCheck, TryPopClaim, AwaitFull, Read, Release, Drop, Threads

\* A call's step leaves no thread gone.
LEMMA CallsLeaveNoneGone ==
  ASSUME SPSC, SpscInv, \A t \in Threads : pc[t] # "gone", Next, ~Drop
  PROVE  \A t \in Threads : pc'[t] # "gone"
<1>1. \E t \in Threads, l \in Labels : Goto(t, l) /\ l # "gone"
  <2>1. ASSUME NEW p \in Producers, PushCall(p)
        PROVE  Goto(p, "push_check") \/ Goto(p, "offer")
    BY <2>1 DEF PushCall, CallTryPush, Push, PushOf, ClaimHead
  <2>2. ASSUME NEW p \in Producers, PushStep(p)
        PROVE  \E l \in {"push_claim", "idle", "panicked", "offer", "write", "publish"} : Goto(p, l)
    <3>1. CASE TryPushCheck(p) \/ TryPushClaim(p)
      BY <3>1 DEF TryPushCheck, TryPushClaim, RefusePush, ClaimHead, Leave
    <3>2. CASE AwaitEmpty(p) \/ Write(p)
      BY <3>2 DEF AwaitEmpty, Write
    <3>3. CASE Publish(p)
      BY <3>3 DEF Publish, Leave
    <3>. QED
      BY <2>2, <3>1, <3>2, <3>3 DEF PushStep
  <2>3. ASSUME NEW c \in Consumers, PopCall(c)
        PROVE  Goto(c, "pop_check") \/ Goto(c, "wait")
    BY <2>3 DEF PopCall, CallTryPop, Pop, ClaimTail
  <2>4. ASSUME NEW c \in Consumers, PopStep(c)
        PROVE  \E l \in {"pop_claim", "idle", "wait", "read", "release"} : Goto(c, l)
    <3>1. CASE TryPopCheck(c) \/ TryPopClaim(c)
      BY <3>1 DEF TryPopCheck, TryPopClaim, RefusePop, ClaimTail, Leave
    <3>2. CASE AwaitFull(c) \/ Read(c)
      BY <3>2 DEF AwaitFull, Read
    <3>3. CASE Release(c)
      BY <3>3 DEF Release, Leave
    <3>. QED
      BY <2>4, <3>1, <3>2, <3>3 DEF PopStep
  <2>. QED
    <3>1. \/ \E p \in Producers : PushCall(p) \/ PushStep(p)
          \/ \E c \in Consumers : PopCall(c) \/ PopStep(c)
      BY DEF Next
    <3>2. ASSUME NEW p \in Producers, PushCall(p) \/ PushStep(p)
          PROVE  \E l \in Labels : Goto(p, l) /\ l # "gone"
      BY <2>1, <2>2, <3>2 DEF Labels
    <3>3. ASSUME NEW c \in Consumers, PopCall(c) \/ PopStep(c)
          PROVE  \E l \in Labels : Goto(c, l) /\ l # "gone"
      BY <2>3, <2>4, <3>3 DEF Labels
    <3>. QED
      BY <3>1, <3>2, <3>3 DEF Threads
<1>2. PICK t \in Threads, l \in Labels : Goto(t, l) /\ l # "gone"
  BY <1>1
<1>3. pc' = [pc EXCEPT ![t] = l] /\ DOMAIN pc = Threads
  BY <1>2 DEF Goto, SpscInv, TypeOK
<1>. QED
  BY <1>2, <1>3

\* What drop destroys: the elements of the indices between the counts
LEMMA DropDestroys ==
  ASSUME SPSC, SpscInv, Drop
  PROVE  dropped' = {sent[i + 1] : i \in Returned .. (head - 1)}
<1>1. Visible = head
  <2>1. \A t \in Threads : pc[t] \in {"idle", "panicked"}
    BY DEF Drop
  <2>. QED
    BY <2>1 DEF Visible, Pushing, Threads
<1>2. \A i \in Returned .. (head - 1) : Slot(i) \in DOMAIN states
  <2>1. Returned \in Nat /\ head \in Nat
    BY Counts
  <2>2. DOMAIN states = 0 .. (Capacity - 1)
    BY DEF SpscInv, TypeOK
  <2>3. \A i \in Returned .. (head - 1) : i \in Nat
    BY <2>1
  <2>. QED
    BY <2>2, <2>3, SlotRange
<1>3. /\ \A s \in DOMAIN states :
           states[s] = "FULL" <=> \E i \in Returned .. (head - 1) : Slot(i) = s
      /\ \A i \in Returned .. (head - 1) : elements[Slot(i)] = sent[i + 1]
  BY <1>1 DEF SpscInv, SlotsOK
<1>4. dropped' = {elements[s] : s \in {x \in DOMAIN states : states[x] = "FULL"}}
  BY DEF Drop
<1>. QED
  BY <1>2, <1>3, <1>4

LEMMA StepDropInv == SPSC /\ SpscInv /\ DropInv /\ [Next]_vars => DropInv'
<1>. SUFFICES ASSUME SPSC, SpscInv, DropInv, [Next]_vars PROVE DropInv'
  OBVIOUS
<1>0. TypeOK
  BY DEF SpscInv
<1>1. CASE UNCHANGED vars
  BY <1>1 DEF vars, DropInv, Distinct, Dropped, Returned
<1>2. CASE Drop
  <2>1. UNCHANGED <<head, element, unsent, sent, received>> /\ pc' = [t \in Threads |-> "gone"]
    BY <1>2 DEF Drop
  <2>2. Distinct'
    BY <2>1 DEF DropInv, Distinct, Threads
  <2>3. Dropped'
    BY <1>2, <2>1, DropDestroys DEF Dropped, Returned
  <2>. QED
    BY <2>2, <2>3 DEF DropInv
<1>3. CASE Next /\ ~Drop
  <2>1. Distinct'
    BY <1>3, ProducerDistinct, ConsumerDistinct DEF DropInv, Next
  <2>2. \A t \in Threads : pc[t] # "gone"
    BY <1>3, NoStepAfter DEF DropInv, Dropped
  <2>. QED
    BY <1>3, <2>1, <2>2, CallsLeaveNoneGone DEF DropInv, Dropped
<1>. QED
  BY <1>1, <1>2, <1>3

LEMMA InitDropInv == Init => DropInv
<1>. SUFFICES ASSUME Init PROVE DropInv
  OBVIOUS
<1>1. \A t \in Threads : pc[t] = "idle"
  BY DEF Init
<1>. QED
  BY <1>1 DEF Init, DropInv, Distinct, Dropped, Threads

\* After the drop of an SPSC queue every element sent has been received or
\* destroyed, and none both, whatever calls came before: the slots that are
\* full then are exactly those whose elements no pop has copied out.
THEOREM SpscEachOnce == ASSUME SPSC PROVE Spec => []EachOnce
<1>1. SpscInv /\ DropInv => EachOnce
  <2>. SUFFICES ASSUME SpscInv, DropInv, \E t \in Threads : pc[t] = "gone"
                PROVE  /\ ToSet(received) \cup dropped = ToSet(sent)
                       /\ ToSet(received) \cap dropped = {}
    BY DEF EachOnce
  <2>1. /\ Returned \in Nat /\ head \in Nat /\ Returned <= head
        /\ DOMAIN sent = 1 .. head /\ DOMAIN received = 1 .. Returned
    BY Counts DEF SpscInv, TypeOK, Returned
  <2>2. ToSet(received) = {sent[i] : i \in 1 .. Returned}
    BY <2>1 DEF SpscInv, ToSet
  <2>3. ToSet(sent) = {sent[i] : i \in 1 .. head}
    BY <2>1 DEF ToSet
  <2>4. dropped = {sent[i] : i \in (Returned + 1) .. head}
    <3>1. dropped = {sent[i + 1] : i \in Returned .. (head - 1)}
      BY DEF DropInv, Dropped
    <3>2. \A i \in Returned .. (head - 1) : i + 1 \in (Returned + 1) .. head
      BY <2>1
    <3>3. \A i \in (Returned + 1) .. head :
            i - 1 \in Returned .. (head - 1) /\ sent[(i - 1) + 1] = sent[i]
      BY <2>1
    <3>. QED
      BY <3>1, <3>2, <3>3
  <2>5. 1 .. head = (1 .. Returned) \cup ((Returned + 1) .. head)
    BY <2>1
  <2>6. \A i \in 1 .. Returned, j \in (Returned + 1) .. head : sent[i] # sent[j]
    BY <2>1, Counts DEF DropInv, Distinct
  <2>. QED
    BY <2>2, <2>3, <2>4, <2>5, <2>6
<1>2. SpscInv /\ DropInv /\ [Next]_vars => DropInv'
  BY StepDropInv
<1>. QED
  BY <1>1, <1>2, InitDropInv, SpscInvariance, PTL DEF Spec

(***************************************************************************)
(* Several threads, until two copies race                                  *)
(***************************************************************************)

\* The parts of RaceInv that do not depend on races
RaceShape ==
  /\ sent \in Seq(Elements) /\ received \in Seq(Contents)
  /\ states \in [0 .. (Capacity - 1) -> {"EMPTY", "FULL"}]
  /\ elements \in [0 .. (Capacity - 1) -> Contents]
  /\ pc \in [Threads -> Labels \ {"publish", "release"}]
  /\ index \in [Threads -> Nat] /\ head \in Nat /\ tail \in Nat
  /\ element \in [Threads -> Contents]

\* Thread t goes to label l; the others stay where they are.
Moves(t, l) ==
  /\ t \in Threads /\ pc'[t] = l
  /\ \A u \in Threads : u # t =>
       pc'[u] = pc[u] /\ index'[u] = index[u] /\ element'[u] = element[u]

Copying == {"write", "read"}

LEMMA SetOfAppend ==
  ASSUME NEW S, NEW s \in Seq(S), NEW v \in S
  PROVE  /\ Append(s, v) \in Seq(S) /\ ToSet(Append(s, v)) = ToSet(s) \cup {v}
         /\ DOMAIN Append(s, v) = DOMAIN s \cup {Len(s) + 1}
         /\ Append(s, v)[Len(s) + 1] = v
         /\ \A i \in DOMAIN s : Append(s, v)[i] = s[i]
<1>1. /\ Append(s, v) \in Seq(S) /\ Len(Append(s, v)) = Len(s) + 1 /\ Len(s) \in Nat
      /\ \A i \in 1 .. Len(s) : Append(s, v)[i] = s[i]
      /\ Append(s, v)[Len(s) + 1] = v
  BY AppendProperties, LenProperties
<1>2. DOMAIN s = 1 .. Len(s) /\ DOMAIN Append(s, v) = 1 .. (Len(s) + 1)
  BY <1>1, LenProperties
<1>3. DOMAIN Append(s, v) = DOMAIN s \cup {Len(s) + 1}
  BY <1>1, <1>2
<1>. QED
  BY <1>1, <1>2, <1>3 DEF ToSet

\* A step of a thread that neither copies nor is about to, and touches no slot
LEMMA AloneKept ==
  ASSUME RaceShape, CopiesAlone, NEW t, NEW l, Moves(t, l), pc[t] \notin Copying,
         l \notin Copying, states' = states
  PROVE  CopiesAlone' /\ \A s : Live(s)' <=> Live(s)
BY DEF CopiesAlone, CopyAt, Live, Moves, Copying, Slot

\* Every element stays where it is.
LEMMA PlacesKept ==
  ASSUME EachSomewhere, NowhereTwice, UNCHANGED <<elements, sent, received>>,
         DOMAIN states' = DOMAIN states,
         \A p \in Threads : Due(p)' <=> Due(p),
         \A p \in Threads : Due(p) => element'[p] = element[p],
         \A s \in DOMAIN states : Live(s)' <=> Live(s)
  PROVE  EachSomewhere' /\ NowhereTwice'
BY DEF EachSomewhere, NowhereTwice, Received, Sent

\* A push claims an index for an element that has not been sent.
LEMMA PlacesSend ==
  ASSUME RaceShape, EachSomewhere, NowhereTwice, NEW p \in Threads, NEW v \in Elements,
         v \notin Sent, sent' = Append(sent, v), UNCHANGED <<elements, received>>,
         DOMAIN states' = DOMAIN states, ~Due(p), Due(p)', element'[p] = v,
         \A q \in Threads : q # p => (Due(q)' <=> Due(q)) /\ element'[q] = element[q],
         \A s \in DOMAIN states : Live(s)' <=> Live(s)
  PROVE  EachSomewhere' /\ NowhereTwice'
<1>1. Sent' = Sent \cup {v} /\ Received' = Received
  BY SetOfAppend DEF RaceShape, Sent, Received
<1>. QED
  BY <1>1 DEF EachSomewhere, NowhereTwice

\* A push copies its element into slot s, which held none.
LEMMA PlacesWrite ==
  ASSUME RaceShape, EachSomewhere, NowhereTwice, NEW p \in Threads, NEW s \in DOMAIN states,
         UNCHANGED <<sent, received, states>>, elements' = [elements EXCEPT ![s] = element[p]],
         Due(p), ~Due(p)', ~Live(s), Live(s)',
         \A q \in Threads : q # p => (Due(q)' <=> Due(q)) /\ element'[q] = element[q],
         \A r \in DOMAIN states : r # s => (Live(r)' <=> Live(r))
  PROVE  EachSomewhere' /\ NowhereTwice'
<1>1. elements'[s] = element[p] /\ \A r \in DOMAIN states : r # s => elements'[r] = elements[r]
  BY DEF RaceShape
<1>2. Sent' = Sent /\ Received' = Received
  BY DEF Sent, Received
<1>3. EachSomewhere'
  BY <1>1, <1>2 DEF EachSomewhere, NowhereTwice
<1>4. NowhereTwice'
  BY <1>1, <1>2 DEF EachSomewhere, NowhereTwice
<1>. QED
  BY <1>3, <1>4

\* A pop copies out the element of slot s and returns it.
LEMMA PlacesRead ==
  ASSUME RaceShape, EachSomewhere, NowhereTwice, NEW s \in DOMAIN states,
         UNCHANGED <<sent, elements, states>>, received' = Append(received, elements[s]),
         Live(s), ~Live(s)',
         \A q \in Threads : Due(q)' <=> Due(q),
         \A q \in Threads : Due(q) => element'[q] = element[q],
         \A r \in DOMAIN states : r # s => (Live(r)' <=> Live(r))
  PROVE  EachSomewhere' /\ NowhereTwice'
<1>1. elements[s] \in Contents /\ received \in Seq(Contents) /\ Sent' = Sent
  BY DEF RaceShape, Sent
<1>2. /\ Received' = Received \cup {elements[s]}
      /\ DOMAIN received' = DOMAIN received \cup {Len(received) + 1}
      /\ received'[Len(received) + 1] = elements[s]
      /\ \A i \in DOMAIN received : received'[i] = received[i]
  BY <1>1, SetOfAppend DEF Received
<1>3. \A i \in DOMAIN received : received[i] \in Received
  BY DEF Received, ToSet
<1>4. EachSomewhere'
  BY <1>1, <1>2 DEF EachSomewhere, NowhereTwice
<1>5. NowhereTwice'
  BY <1>1, <1>2, <1>3 DEF EachSomewhere, NowhereTwice
<1>. QED
  BY <1>4, <1>5

\* Nothing but one thread's place in the code changes.
LEMMA QuietRaces ==
  ASSUME RaceShape, CopiesAlone, EachSomewhere, NowhereTwice, NEW t, NEW l, Moves(t, l),
         pc[t] \notin {"offer", "write", "read"}, l \notin {"offer", "write", "read"},
         UNCHANGED <<states, elements, sent, received>>
  PROVE  CopiesAlone' /\ EachSomewhere' /\ NowhereTwice'
<1>1. CopiesAlone' /\ \A s : Live(s)' <=> Live(s)
  BY AloneKept DEF Copying
<1>2. \A q \in Threads : (Due(q)' <=> Due(q)) /\ (Due(q) => element'[q] = element[q])
  BY DEF Moves, Due
<1>. QED
  BY <1>1, <1>2, PlacesKept

\* A claim of head, for an element that no push has sent
LEMMA SendRaces ==
  ASSUME RaceShape, CopiesAlone, EachSomewhere, NowhereTwice, NEW p, NEW v \in Elements,
         Moves(p, "offer"), pc[p] \notin {"offer", "write", "read"}, element'[p] = v,
         v \notin Sent, sent' = Append(sent, v), UNCHANGED <<states, elements, received>>
  PROVE  CopiesAlone' /\ EachSomewhere' /\ NowhereTwice'
<1>1. CopiesAlone' /\ \A s : Live(s)' <=> Live(s)
  BY AloneKept DEF Copying
<1>2. /\ p \in Threads /\ ~Due(p) /\ Due(p)'
      /\ \A q \in Threads : q # p => (Due(q)' <=> Due(q)) /\ element'[q] = element[q]
  BY DEF Moves, Due
<1>. QED
  BY <1>1, <1>2, PlacesSend

\* The compare_exchange of a state for which no copy is due at the slot
LEMMA AwaitRaces ==
  ASSUME RaceShape, CopiesAlone, EachSomewhere, NowhereTwice, NoRace', NEW t, NEW l,
         Moves(t, l), UNCHANGED <<index, element, elements, sent, received>>,
         \/ pc[t] = "offer" /\ l = "write" /\ states[Slot(index[t])] = "EMPTY"
            /\ states' = [states EXCEPT ![Slot(index[t])] = "FULL"]
         \/ pc[t] = "wait" /\ l = "read" /\ states[Slot(index[t])] = "FULL"
            /\ states' = [states EXCEPT ![Slot(index[t])] = "EMPTY"]
  PROVE  CopiesAlone' /\ EachSomewhere' /\ NowhereTwice'
<1>. DEFINE s == Slot(index[t])
<1>0. /\ t \in Threads /\ s \in DOMAIN states /\ pc'[t] = l /\ DOMAIN states' = DOMAIN states
      /\ \A u \in Threads : u # t => pc'[u] = pc[u]
      /\ states'[s] = (IF l = "write" THEN "FULL" ELSE "EMPTY")
      /\ \A r \in DOMAIN states : r # s => states'[r] = states[r]
  BY SlotRange DEF RaceShape, Moves
<1>1. \A u \in Threads : pc[u] \in {"write", "read"} => Slot(index[u]) # s
  <2>1. SUFFICES ASSUME NEW u \in Threads, pc[u] \in {"write", "read"}, Slot(index[u]) = s
                 PROVE  FALSE
    OBVIOUS
  <2>2. u # t /\ pc'[u] = pc[u]
    BY <1>0, <2>1
  <2>3. pc[u] = (IF l = "write" THEN "read" ELSE "write")
    BY <2>1 DEF CopiesAlone
  <2>4. Slot(index[t])' = s /\ Slot(index[u])' = s
    BY <2>1 DEF Slot
  <2>. QED
    BY <1>0, <2>2, <2>3, <2>4 DEF NoRace
<1>2. \A u \in Threads : Slot(index[u])' = Slot(index[u])
  BY DEF Slot
<1>3. CopiesAlone'
  <2>1. ASSUME NEW v \in Threads, pc'[v] \in Copying, v # t
        PROVE  pc[v] = pc'[v] /\ Slot(index[v]) \in DOMAIN states /\ Slot(index[v]) # s
    BY <1>0, <1>1, <2>1, SlotRange DEF RaceShape, Copying
  <2>2. pc'[t] \in Copying /\ pc[t] \notin Copying
    BY <1>0 DEF Copying
  <2>3. ASSUME NEW v \in Threads, pc'[v] \in Copying
        PROVE  /\ states'[Slot(index[v])] = (IF pc'[v] = "write" THEN "FULL" ELSE "EMPTY")
               /\ \A u \in Threads :
                    pc'[u] \in Copying /\ Slot(index[u]) = Slot(index[v]) => v = u
    <3>1. CASE v = t
      BY <1>0, <2>1, <3>1 DEF Copying
    <3>2. CASE v # t
      BY <1>0, <2>1, <2>3, <3>2 DEF CopiesAlone, CopyAt, Copying
    <3>. QED
      BY <3>1, <3>2
  <2>. QED
    BY <1>2, <2>3 DEF CopiesAlone, CopyAt, Copying
<1>5. ASSUME NEW r \in DOMAIN states, r # s PROVE Live(r)' <=> Live(r)
  <2>1. states'[r] = states[r]
    BY <1>0, <1>5
  <2>2. \A u \in Threads : Slot(index[u]) = r => pc'[u] = pc[u]
    BY <1>0, <1>5
  <2>. QED
    BY <1>2, <2>1, <2>2 DEF Live
<1>6. Live(s)' <=> Live(s)
  BY <1>0, <1>1, <1>2 DEF Live
<1>4. \A q \in Threads : Due(q)' <=> Due(q)
  BY <1>0 DEF Due
<1>. QED
  BY <1>0, <1>3, <1>4, <1>5, <1>6, PlacesKept

\* The end of a copy: no other thread has one due at the slot.
LEMMA CopyEnds ==
  ASSUME RaceShape, CopiesAlone, NEW t, NEW l, Moves(t, l), pc[t] \in Copying,
         l \notin Copying, UNCHANGED states, NEW s, s = Slot(index[t])
  PROVE  /\ CopiesAlone' /\ ~Contended(t) /\ s \in DOMAIN states
         /\ Live(s) <=> pc[t] = "read"
         /\ Live(s)' <=> pc[t] = "write"
         /\ \A r \in DOMAIN states : r # s => (Live(r)' <=> Live(r))
<1>0. /\ t \in Threads /\ s \in DOMAIN states /\ pc'[t] = l
      /\ \A u \in Threads : u # t => pc'[u] = pc[u] /\ index'[u] = index[u]
  BY SlotRange DEF RaceShape, Moves
<1>1. /\ states[s] = (IF pc[t] = "write" THEN "FULL" ELSE "EMPTY")
      /\ \A u \in Threads : u # t /\ pc[u] \in Copying => Slot(index[u]) # s
  BY <1>0 DEF CopiesAlone, CopyAt, Copying
<1>2. \A u \in Threads : pc'[u] \in Copying =>
        u # t /\ pc[u] = pc'[u] /\ Slot(index[u])' = Slot(index[u])
  BY <1>0 DEF Slot
<1>3. CopiesAlone'
  BY <1>1, <1>2 DEF CopiesAlone, CopyAt, Copying
<1>4. ~Contended(t)
  BY <1>1 DEF Contended, Copying, Threads
<1>5. Live(s) <=> pc[t] = "read"
  BY <1>0, <1>1 DEF Live, Copying
<1>6. \A u \in Threads : pc'[u] \in Copying => Slot(index[u])' # s
  BY <1>1, <1>2
<1>7. Live(s)' <=> pc[t] = "write"
  BY <1>0, <1>1, <1>6 DEF Live, Copying
<1>8. ASSUME NEW r \in DOMAIN states, r # s PROVE Live(r)' <=> Live(r)
  <2>1. \A u \in Threads, w \in Copying :
          (pc'[u] = w /\ Slot(index[u])' = r) <=> (pc[u] = w /\ Slot(index[u]) = r)
    BY <1>0, <1>2, <1>8 DEF Slot
  <2>. QED
    BY <2>1 DEF Live, Copying
<1>. QED
  BY <1>0, <1>3, <1>4, <1>5, <1>7, <1>8

\* Where the elements are that are still to be sent: a caller keeps one, takes
\* one, gives one back or sends one.
LEMMA UnsentStep ==
  ASSUME RaceShape, NotSentYet, NEW t, NEW l, Moves(t, l),
         \/ /\ UNCHANGED <<unsent, sent>>
            /\ Asking(t)' => Asking(t) /\ element'[t] = element[t]
         \/ /\ element'[t] \in unsent /\ unsent' = unsent \ {element'[t]} /\ sent' = sent
         \/ /\ Asking(t) /\ ~Asking(t)' /\ unsent' = unsent \cup {element[t]} /\ sent' = sent
         \/ /\ Asking(t) /\ ~Asking(t)' /\ unsent' = unsent
            /\ sent' = Append(sent, element[t])
         \/ \E v \in unsent : /\ ~Asking(t)' /\ unsent' = unsent \ {v}
                              /\ sent' = Append(sent, v)
  PROVE  NotSentYet' /\ sent' \in Seq(Elements)
<1>0. /\ t \in Threads /\ pc'[t] = l /\ sent \in Seq(Elements) /\ unsent \subseteq Elements
      /\ \A u \in Threads : u # t => (Asking(u)' <=> Asking(u)) /\ element'[u] = element[u]
  BY DEF Moves, Asking, RaceShape, NotSentYet
<1>1. CASE UNCHANGED <<unsent, sent>> /\ (Asking(t)' => Asking(t) /\ element'[t] = element[t])
  <2>1. Sent' = Sent
    BY <1>1 DEF Sent
  <2>. QED
    BY <1>0, <1>1, <2>1 DEF NotSentYet
<1>2. CASE element'[t] \in unsent /\ unsent' = unsent \ {element'[t]} /\ sent' = sent
  <2>1. Sent' = Sent
    BY <1>2 DEF Sent
  <2>. QED
    BY <1>0, <1>2, <2>1 DEF NotSentYet
<1>3. CASE Asking(t) /\ ~Asking(t)' /\ unsent' = unsent \cup {element[t]} /\ sent' = sent
  <2>1. Sent' = Sent
    BY <1>3 DEF Sent
  <2>. QED
    BY <1>0, <1>3, <2>1 DEF NotSentYet
<1>4. CASE Asking(t) /\ ~Asking(t)' /\ unsent' = unsent /\ sent' = Append(sent, element[t])
  <2>1. element[t] \in Elements
    BY <1>0, <1>4 DEF NotSentYet
  <2>2. Sent' = Sent \cup {element[t]} /\ sent' \in Seq(Elements)
    BY <1>0, <1>4, <2>1, SetOfAppend DEF Sent
  <2>. QED
    BY <1>0, <1>4, <2>2 DEF NotSentYet
<1>5. ASSUME NEW v \in unsent, ~Asking(t)', unsent' = unsent \ {v}, sent' = Append(sent, v)
      PROVE  NotSentYet' /\ sent' \in Seq(Elements)
  <2>1. Sent' = Sent \cup {v} /\ sent' \in Seq(Elements)
    BY <1>0, <1>5, SetOfAppend DEF Sent
  <2>. QED
    BY <1>0, <1>5, <2>1 DEF NotSentYet
<1>. QED
  BY <1>0, <1>1, <1>2, <1>3, <1>4, <1>5

Placed == CopiesAlone /\ EachSomewhere /\ NowhereTwice

\* Leave and Goto, as moves
LEMMA LeaveMoves ==
  ASSUME RaceShape, NEW t \in Threads, NEW l \in Labels \ {"publish", "release"}, Leave(t, l)
  PROVE  /\ Moves(t, l) /\ pc' \in [Threads -> Labels \ {"publish", "release"}]
         /\ index' \in [Threads -> Nat] /\ element' \in [Threads -> Contents]
BY DEF RaceShape, Moves, Leave, Goto, Contents

LEMMA GotoMoves ==
  ASSUME RaceShape, NEW t \in Threads, NEW l \in Labels \ {"publish", "release"}, Goto(t, l),
         NEW i \in Nat, index' = [index EXCEPT ![t] = i],
         NEW v \in Contents, element' = [element EXCEPT ![t] = v]
  PROVE  /\ Moves(t, l) /\ pc' \in [Threads -> Labels \ {"publish", "release"}]
         /\ index' \in [Threads -> Nat] /\ element' \in [Threads -> Contents]
         /\ index'[t] = i /\ element'[t] = v
BY DEF RaceShape, Moves, Goto

\* What a step of a call keeps: the types, the elements that are not sent, and,
\* if no two copies are due at one slot after it, every element in its place
Keeps ==
  RaceShape' /\ NotSentYet' /\ (Placed /\ NoRace' => Placed')

LEMMA PushRaces ==
  ASSUME ~SPSC, RaceShape, NotSentYet, NEW p \in Producers, PushCall(p) \/ PushStep(p)
  PROVE  Keeps /\ \A t \in Threads : pc'[t] = "gone" => pc[t] = "gone"
<1>. USE DEF Keeps, Placed
<1>0. /\ p \in Threads /\ head \in Nat /\ index[p] \in Nat /\ element[p] \in Contents
      /\ index = [index EXCEPT ![p] = index[p]] /\ element = [element EXCEPT ![p] = element[p]]
      /\ Elements \subseteq Contents /\ unsent \subseteq Elements
      /\ head + 1 \in Nat
  BY DEF RaceShape, NotSentYet, Threads, Contents
<1>1. CASE CallTryPush(p)
  <2>1. PICK v \in unsent : Draw(v) /\ element' = [element EXCEPT ![p] = v]
    BY <1>1 DEF CallTryPush
  <2>2. /\ Moves(p, "push_check") /\ pc' \in [Threads -> Labels \ {"publish", "release"}]
        /\ index' \in [Threads -> Nat] /\ element' \in [Threads -> Contents]
        /\ element'[p] = v /\ pc[p] = "idle"
        /\ UNCHANGED <<head, tail, states, elements, sent, received>>
    BY <1>0, <1>1, <2>1, GotoMoves DEF CallTryPush, Labels
  <2>3. RaceShape' /\ NotSentYet'
    BY <2>1, <2>2, UnsentStep DEF Draw, RaceShape
  <2>. QED
    BY <2>2, <2>3, QuietRaces DEF Moves
<1>2. ASSUME NEW l \in {"idle", "panicked"}, Leave(p, l), Asking(p),
             unsent' = unsent \/ unsent' = unsent \cup {element[p]},
             UNCHANGED <<head, tail, states, elements, sent, received>>
      PROVE  Keeps /\ Moves(p, l)
  <2>1. /\ Moves(p, l) /\ pc' \in [Threads -> Labels \ {"publish", "release"}]
        /\ index' \in [Threads -> Nat] /\ element' \in [Threads -> Contents]
    BY <1>0, <1>2, LeaveMoves DEF Labels
  <2>2. ~Asking(p)' /\ pc[p] \notin {"offer", "write", "read"}
    BY <1>2, <2>1 DEF Asking, Moves
  <2>3. RaceShape' /\ NotSentYet'
    BY <1>2, <2>1, <2>2, UnsentStep DEF RaceShape
  <2>. QED
    BY <1>2, <2>1, <2>2, <2>3, QuietRaces
<1>3. CASE TryPushCheck(p)
  <2>1. CASE Goto(p, "push_claim") /\ pc[p] = "push_check"
             /\ UNCHANGED <<head, tail, states, elements, index, element, unsent, sent, received>>
    <3>1. /\ Moves(p, "push_claim") /\ pc' \in [Threads -> Labels \ {"publish", "release"}]
      BY <1>0, <2>1, GotoMoves DEF Labels
    <3>2. RaceShape' /\ NotSentYet'
      BY <2>1, <3>1, UnsentStep DEF RaceShape, Asking
    <3>. QED
      BY <2>1, <3>1, <3>2, QuietRaces DEF Moves
  <2>2. CASE RefusePush(p) /\ pc[p] = "push_check"
    BY <1>2, <2>2 DEF RefusePush, Asking, Moves
  <2>3. CASE Leave(p, "panicked") /\ pc[p] = "push_check"
             /\ UNCHANGED <<head, tail, states, elements, unsent, sent, received>>
    BY <1>2, <2>3 DEF Asking, Moves
  <2>. QED
    BY <1>3, <2>1, <2>2, <2>3 DEF TryPushCheck
<1>4. ASSUME NEW v \in Elements, v \notin Sent, ClaimHead(p, v), pc[p] \in {"idle", "push_claim"},
             NEW i \in Nat, index' = [index EXCEPT ![p] = i],
             element' = [element EXCEPT ![p] = v],
             \/ Asking(p) /\ v = element[p] /\ unsent' = unsent
             \/ v \in unsent /\ unsent' = unsent \ {v}
      PROVE  Keeps /\ Moves(p, "offer")
  <2>1. /\ Moves(p, "offer") /\ pc' \in [Threads -> Labels \ {"publish", "release"}]
        /\ index' \in [Threads -> Nat] /\ element' \in [Threads -> Contents]
        /\ element'[p] = v /\ sent' = Append(sent, v) /\ head' = head + 1
        /\ UNCHANGED <<tail, states, elements, received>>
    BY <1>0, <1>4, GotoMoves DEF ClaimHead, Labels
  <2>2. ~Asking(p)'
    BY <2>1 DEF Asking, Moves
  <2>3. NotSentYet' /\ sent' \in Seq(Elements)
    BY <1>4, <2>1, <2>2, UnsentStep
  <2>4. RaceShape'
    BY <1>0, <2>1, <2>3 DEF RaceShape
  <2>. QED
    BY <1>4, <2>1, <2>3, <2>4, SendRaces
<1>5. CASE TryPushClaim(p)
  <2>1. CASE RefusePush(p) /\ pc[p] = "push_claim"
    BY <1>2, <2>1 DEF RefusePush, Asking, Moves
  <2>2. CASE ClaimHead(p, element[p]) /\ pc[p] = "push_claim"
             /\ UNCHANGED <<index, element, unsent>>
    <3>1. Asking(p) /\ element[p] \in Elements /\ element[p] \notin Sent
      BY <1>0, <2>2 DEF Asking, NotSentYet
    <3>. QED
      BY <1>0, <1>4, <2>2, <3>1 DEF Moves
  <2>. QED
    BY <1>5, <2>1, <2>2 DEF TryPushClaim
<1>6. CASE Push(p)
  <2>1. PICK v \in unsent : Draw(v) /\ PushOf(p, v)
    BY <1>6 DEF Push
  <2>2. v \in Elements /\ v \notin Sent
    BY <1>0, <2>1 DEF NotSentYet
  <2>. QED
    BY <1>0, <1>4, <2>1, <2>2 DEF PushOf, Draw, Moves
<1>7. CASE AwaitEmpty(p)
  <2>1. /\ Moves(p, "write") /\ pc' \in [Threads -> Labels \ {"publish", "release"}]
        /\ pc[p] = "offer" /\ states[Slot(index[p])] = "EMPTY"
        /\ states' = [states EXCEPT ![Slot(index[p])] = "FULL"]
        /\ UNCHANGED <<head, tail, elements, index, element, unsent, sent, received>>
    BY <1>0, <1>7, GotoMoves DEF AwaitEmpty, Labels
  <2>2. NotSentYet' /\ RaceShape'
    BY <2>1, UnsentStep DEF RaceShape, Asking, Moves
  <2>. QED
    BY <2>1, <2>2, AwaitRaces DEF Moves
<1>8. CASE Write(p)
  <2>1. /\ pc[p] = "write" /\ Leave(p, "idle") /\ Moves(p, "idle")
        /\ pc' \in [Threads -> Labels \ {"publish", "release"}]
        /\ index' \in [Threads -> Nat] /\ element' \in [Threads -> Contents]
        /\ UNCHANGED <<head, tail, states, unsent, sent, received>>
    BY <1>0, <1>8, LeaveMoves DEF Write, Labels
  <2>2. PICK w \in {element[p]} \cup (IF Contended(p) THEN {Torn} ELSE {}) :
          elements' = [elements EXCEPT ![Slot(index[p])] = w]
    BY <1>8 DEF Write
  <2>3. w \in Contents
    BY <1>0, <2>2 DEF Contents
  <2>4. NotSentYet' /\ RaceShape'
    BY <2>1, <2>2, <2>3, UnsentStep DEF RaceShape, Asking, Moves
  <2>5. ASSUME Placed PROVE Placed'
    <3>1. PICK s : s = Slot(index[p])
      OBVIOUS
    <3>2. /\ CopiesAlone' /\ ~Contended(p) /\ s \in DOMAIN states
          /\ ~Live(s) /\ Live(s)'
          /\ \A r \in DOMAIN states : r # s => (Live(r)' <=> Live(r))
      BY <2>1, <2>5, <3>1, CopyEnds DEF Copying
    <3>3. elements' = [elements EXCEPT ![s] = element[p]]
      BY <2>2, <3>1, <3>2
    <3>4. /\ Due(p) /\ ~Due(p)'
          /\ \A q \in Threads : q # p => (Due(q)' <=> Due(q)) /\ element'[q] = element[q]
      BY <2>1 DEF Due, Moves
    <3>. QED
      BY <1>0, <2>1, <2>5, <3>2, <3>3, <3>4, PlacesWrite
  <2>. QED
    BY <2>1, <2>4, <2>5 DEF Moves
<1>9. ~Publish(p)
  BY <1>0 DEF Publish, RaceShape
<1>. QED
  BY <1>1, <1>3, <1>5, <1>6, <1>7, <1>8, <1>9 DEF PushCall, PushStep

LEMMA PopRaces ==
  ASSUME ~SPSC, RaceShape, NotSentYet, NEW c \in Consumers, PopCall(c) \/ PopStep(c)
  PROVE  Keeps /\ \A t \in Threads : pc'[t] = "gone" => pc[t] = "gone"
<1>. USE DEF Keeps, Placed
<1>0. /\ c \in Threads /\ tail \in Nat /\ tail + 1 \in Nat /\ index[c] \in Nat
      /\ element[c] \in Contents
      /\ index = [index EXCEPT ![c] = index[c]] /\ element = [element EXCEPT ![c] = element[c]]
  BY DEF RaceShape, Threads
\* Every step but the last two changes nothing but tail and the thread's locals.
<1>1. ASSUME NEW l \in {"idle", "pop_check", "pop_claim", "wait"},
             \/ Leave(c, l)
             \/ Goto(c, l) /\ (\E i \in Nat : index' = [index EXCEPT ![c] = i])
                /\ element' = element,
             pc[c] \notin {"offer", "write", "read"}, tail' \in Nat,
             UNCHANGED <<head, states, elements, unsent, sent, received>>
      PROVE  Keeps /\ Moves(c, l)
  <2>1. /\ Moves(c, l) /\ pc' \in [Threads -> Labels \ {"publish", "release"}]
        /\ index' \in [Threads -> Nat] /\ element' \in [Threads -> Contents]
    BY <1>0, <1>1, LeaveMoves, GotoMoves DEF Labels
  <2>2. RaceShape' /\ NotSentYet'
    BY <1>1, <2>1, UnsentStep DEF RaceShape, Asking, Moves
  <2>. QED
    BY <1>1, <2>1, <2>2, QuietRaces
<1>2. CASE CallTryPop(c)
  BY <1>0, <1>1, <1>2 DEF CallTryPop, Moves
<1>3. CASE TryPopCheck(c)
  <2>1. pc[c] = "pop_check" /\ UNCHANGED <<head, tail, states, elements, unsent, sent, received>>
    BY <1>3 DEF TryPopCheck, RefusePop
  <2>2. \/ Leave(c, "idle")
        \/ Goto(c, "pop_claim") /\ UNCHANGED <<index, element>>
    BY <1>3 DEF TryPopCheck, RefusePop
  <2>3. \E l \in {"idle", "pop_claim"} : Keeps /\ Moves(c, l)
    <3>2. pc[c] \notin {"offer", "write", "read"} /\ tail' \in Nat
      BY <1>0, <2>1
    <3>3. CASE Leave(c, "idle")
      BY <1>1, <2>1, <3>2, <3>3
    <3>4. CASE Goto(c, "pop_claim") /\ UNCHANGED <<index, element>>
      BY <1>0, <1>1, <2>1, <3>2, <3>4
    <3>. QED
      BY <2>2, <3>3, <3>4
  <2>. QED
    BY <2>3 DEF Moves
<1>4. CASE TryPopClaim(c)
  <2>1. pc[c] = "pop_claim" /\ UNCHANGED <<head, states, elements, unsent, sent, received>>
    BY <1>4 DEF TryPopClaim, ClaimTail, RefusePop
  <2>2. \/ Leave(c, "idle") /\ tail' = tail
        \/ Goto(c, "wait") /\ UNCHANGED <<index, element>> /\ tail' = tail + 1
    BY <1>4 DEF TryPopClaim, ClaimTail, RefusePop
  <2>3. \E l \in {"idle", "wait"} : Keeps /\ Moves(c, l)
    <3>2. pc[c] \notin {"offer", "write", "read"} /\ tail' \in Nat
      BY <1>0, <2>1, <2>2
    <3>3. CASE Leave(c, "idle")
      BY <1>1, <2>1, <3>2, <3>3
    <3>4. CASE Goto(c, "wait") /\ UNCHANGED <<index, element>>
      BY <1>0, <1>1, <2>1, <3>2, <3>4
    <3>. QED
      BY <2>2, <3>3, <3>4
  <2>. QED
    BY <2>3 DEF Moves
<1>5. CASE Pop(c)
  BY <1>0, <1>1, <1>5 DEF Pop, ClaimTail, Moves
<1>6. CASE AwaitFull(c)
  <2>1. /\ Moves(c, "read") /\ pc' \in [Threads -> Labels \ {"publish", "release"}]
        /\ pc[c] = "wait" /\ states[Slot(index[c])] = "FULL"
        /\ states' = [states EXCEPT ![Slot(index[c])] = "EMPTY"]
        /\ UNCHANGED <<head, tail, elements, index, element, unsent, sent, received>>
    BY <1>0, <1>6, GotoMoves DEF AwaitFull, Labels
  <2>2. NotSentYet' /\ RaceShape'
    BY <2>1, UnsentStep DEF RaceShape, Asking, Moves
  <2>. QED
    BY <2>1, <2>2, AwaitRaces DEF Moves
<1>7. CASE Read(c)
  <2>1. /\ pc[c] = "read" /\ Moves(c, "idle")
        /\ pc' \in [Threads -> Labels \ {"publish", "release"}]
        /\ index' \in [Threads -> Nat] /\ element' \in [Threads -> Contents]
        /\ UNCHANGED <<head, tail, states, elements, unsent, sent>>
    BY <1>0, <1>7, LeaveMoves DEF Read, Labels
  <2>2. PICK w \in {elements[Slot(index[c])]} \cup (IF Contended(c) THEN {Torn} ELSE {}) :
          received' = Append(received, w)
    BY <1>7 DEF Read
  <2>3. Slot(index[c]) \in DOMAIN states /\ w \in Contents
    BY <1>0, <2>2, SlotRange DEF Contents, RaceShape
  <2>4. NotSentYet' /\ RaceShape'
    BY <2>1, <2>2, <2>3, UnsentStep, SetOfAppend DEF RaceShape, Asking, Moves
  <2>5. ASSUME Placed PROVE Placed'
    <3>1. PICK s : s = Slot(index[c])
      OBVIOUS
    <3>2. /\ CopiesAlone' /\ ~Contended(c) /\ s \in DOMAIN states
          /\ Live(s) /\ ~Live(s)'
          /\ \A r \in DOMAIN states : r # s => (Live(r)' <=> Live(r))
      BY <2>1, <2>5, <3>1, CopyEnds DEF Copying
    <3>3. received' = Append(received, elements[s])
      BY <2>2, <3>1, <3>2
    <3>4. \A q \in Threads : (Due(q)' <=> Due(q)) /\ (Due(q) => element'[q] = element[q])
      BY <2>1 DEF Due, Moves
    <3>. QED
      BY <2>1, <2>5, <3>2, <3>3, <3>4, PlacesRead
  <2>. QED
    BY <2>1, <2>4, <2>5 DEF Moves
<1>8. ~Release(c)
  BY <1>0 DEF Release, RaceShape
<1>. QED
  BY <1>2, <1>3, <1>4, <1>5, <1>6, <1>7, <1>8 DEF PopCall, PopStep

\* drop finds every element that is left in a full slot.
LEMMA DropRaces ==
  ASSUME RaceShape, NotSentYet, Drop
  PROVE  Keeps /\ (Placed => EachOnce') /\ \A t \in Threads : pc'[t] = "gone"
<1>1. /\ \A t \in Threads : pc[t] \in {"idle", "panicked"} /\ pc'[t] = "gone"
      /\ pc' \in [Threads -> Labels \ {"publish", "release"}]
      /\ UNCHANGED <<head, tail, states, elements, index, element, unsent, sent, received>>
  BY DEF Drop, Labels
<1>2. \A t \in Threads : ~Due(t) /\ ~Due(t)' /\ ~Asking(t)'
  BY <1>1 DEF Due, Asking
<1>3. \A s : (Live(s) <=> states[s] = "FULL") /\ (Live(s)' <=> Live(s))
  BY <1>1 DEF Live
<1>4. RaceShape' /\ NotSentYet'
  BY <1>1, <1>2 DEF RaceShape, NotSentYet, Sent
<1>5. CopiesAlone'
  BY <1>1 DEF CopiesAlone
<1>6. Placed => Placed'
  BY <1>1, <1>2, <1>3, <1>5, PlacesKept DEF Placed
<1>7. ASSUME Placed PROVE EachOnce'
  <2>1. dropped' = {elements[s] : s \in {x \in DOMAIN states : Live(x)}}
    BY <1>3 DEF Drop
  <2>2. Received \cup dropped' = Sent /\ Received \cap dropped' = {}
    BY <1>2, <1>7, <2>1 DEF Placed, EachSomewhere
  <2>. QED
    BY <1>1, <2>2 DEF EachOnce, Received, Sent
<1>. QED
  BY <1>1, <1>4, <1>6, <1>7 DEF Keeps

LEMMA InitRaces ==
  ASSUME RacingInit PROVE RaceInv
<1>. USE DEF RacingInit, Init
<1>1. /\ sent = <<>> /\ received = <<>> /\ sent \in Seq(Elements) /\ received \in Seq(Contents)
      /\ Received = {} /\ Sent = {} /\ DOMAIN received = {}
  BY EmptySeq DEF Received, Sent, ToSet
<1>2. RaceShape
  BY <1>1 DEF RaceShape, Labels, Contents
<1>3. \A t \in Threads : pc[t] = "idle" /\ ~Due(t) /\ ~Asking(t)
  BY DEF Due, Asking
<1>4. \A s \in DOMAIN states : ~Live(s)
  BY <1>3 DEF Live
<1>5. NotSentYet /\ EachSomewhere
  BY <1>1, <1>3, <1>4 DEF NotSentYet, EachSomewhere
<1>6. NowhereTwice /\ CopiesAlone
  BY <1>1, <1>3, <1>4 DEF NowhereTwice, CopiesAlone
<1>. QED
  BY <1>2, <1>3, <1>5, <1>6 DEF RaceInv, RaceShape, EachOnce

LEMMA StepRaces ==
  ASSUME ~SPSC, RaceInv, [RacingNext]_racingVars PROVE RaceInv'
<1>1. RaceShape /\ NotSentYet
  BY DEF RaceInv, RaceShape
<1>2. CASE UNCHANGED racingVars
  <2>1. /\ UNCHANGED <<head, tail, states, elements, pc, index, element>>
        /\ UNCHANGED <<unsent, sent, received, dropped, raced>>
    BY <1>2 DEF racingVars, vars
  <2>2. UNCHANGED <<Sent, Received>> /\ \A t \in Threads :
          (Asking(t)' <=> Asking(t)) /\ (Due(t)' <=> Due(t)) /\ Slot(index[t])' = Slot(index[t])
    BY <2>1 DEF Sent, Received, Asking, Due, Slot
  <2>3. \A s : (Live(s)' <=> Live(s)) /\ \A t \in Threads : CopyAt(t, s)' <=> CopyAt(t, s)
    BY <2>1, <2>2 DEF Live, CopyAt
  <2>4. NotSentYet' /\ EachOnce' = EachOnce
    BY <1>1, <2>1, <2>2 DEF NotSentYet, EachOnce
  <2>5. CopiesAlone => CopiesAlone'
    BY <2>1, <2>2 DEF CopiesAlone, CopyAt
  <2>6. EachSomewhere /\ NowhereTwice => EachSomewhere' /\ NowhereTwice'
    BY <2>1, <2>2, <2>3, PlacesKept
  <2>. QED
    BY <2>1, <2>4, <2>5, <2>6 DEF RaceInv
<1>3. CASE RacingNext
  <2>1. Next /\ (~raced' => ~raced /\ NoRace')
    BY <1>3 DEF RacingNext
  <2>2. ASSUME NEW t \in Threads,
               Keeps, \A u \in Threads : pc'[u] = "gone" => pc[u] = "gone",
               pc[t] # "gone"
        PROVE  RaceInv'
    <3>1. \A u \in Threads : pc'[u] # "gone"
      BY <2>2 DEF RaceInv
    <3>2. EachOnce'
      BY <3>1 DEF EachOnce
    <3>3. ~raced' => Placed'
      BY <2>1, <2>2 DEF RaceInv, Keeps, Placed
    <3>. QED
      BY <2>2, <3>1, <3>2, <3>3 DEF RaceInv, Keeps, RaceShape, Placed
  <2>3. ASSUME NEW p \in Producers, PushCall(p) \/ PushStep(p) PROVE RaceInv'
    <3>1. p \in Threads /\ pc[p] # "gone"
      BY <2>3
         DEF Threads, PushCall, PushStep, CallTryPush, Push, PushOf, TryPushCheck,
             TryPushClaim, AwaitEmpty, Write, Publish
    <3>. QED
      BY <1>1, <2>2, <2>3, <3>1, PushRaces
  <2>4. ASSUME NEW c \in Consumers, PopCall(c) \/ PopStep(c) PROVE RaceInv'
    <3>1. c \in Threads /\ pc[c] # "gone"
      BY <2>4
         DEF Threads, PopCall, PopStep, CallTryPop, Pop, TryPopCheck, TryPopClaim,
             AwaitFull, Read, Release
    <3>. QED
      BY <1>1, <2>2, <2>4, <3>1, PopRaces
  <2>5. CASE Drop
    BY <1>1, <2>1, <2>5, DropRaces DEF RaceInv, Keeps, RaceShape, Placed
  <2>. QED
    BY <2>1, <2>3, <2>4, <2>5 DEF Next
<1>. QED
  BY <1>2, <1>3

\* Without SPSC, until two copies of one slot race: an element sent is with its
\* push, in one slot, or received, whichever calls the threads make.
THEOREM RaceInvariance ==
  ASSUME ~SPSC PROVE RacingSpec => []RaceInv
<1>1. RacingInit => RaceInv
  BY InitRaces
<1>2. RaceInv /\ [RacingNext]_racingVars => RaceInv'
  BY StepRaces
<1>. QED
  BY <1>1, <1>2, PTL DEF RacingSpec

\* Without SPSC, for any number of threads and any mix of calls, with and
\* without TOTAL_ORDER: until two copies of one slot have raced, every element
\* received was sent, none is received twice, and drop destroys those left.
THEOREM NothingLostUntilRaced ==
  ASSUME ~SPSC PROVE RacingSpec => []EachOnceUntilRaced
<1>1. RaceInv => EachOnceUntilRaced
  BY DEF RaceInv, EachOnceUntilRaced, EachSomewhere, NowhereTwice, Received, Sent
<1>. QED
  BY <1>1, RaceInvariance, PTL

(***************************************************************************)
(* Several threads with TOTAL_ORDER, until a slot is crowded               *)
(***************************************************************************)

InTurn == LastLap /\ Turns /\ OwnElements

\* What the invariants of the claims and of the races give to every step
TurnShape ==
  /\ ClaimsInv /\ RaceShape /\ CopiesAlone /\ head = Len(sent)
  /\ Capacity \in Nat \ {0}

\* Every index but the last on its slot has passed, on either side.
LEMMA EarlierPassed ==
  ASSUME TurnShape, LastLap, NEW i \in Nat
  PROVE  /\ i + Capacity < head => PushPassed(i)
         /\ i + Capacity < tail => PopPassed(i)
<1>1. head \in Nat /\ tail \in Nat /\ index \in [Threads -> Nat] /\ Capacity \in Nat
  BY DEF TurnShape, ClaimsInv
<1>. QED
  BY <1>1 DEF LastLap, PushPassed, PopPassed

\* No two indices of a slot are open, and an open one is among the last.
LEMMA OpenOnce ==
  ASSUME TurnShape, LastLap, Turns, NEW i \in Nat, NEW j \in Nat, Slot(i) = Slot(j),
         Open(i), Open(j)
  PROVE  i = j
<1>0. head \in Nat /\ tail \in Nat /\ Capacity \in Nat
  BY DEF TurnShape, ClaimsInv
<1>1. ASSUME NEW m \in Nat, NEW n \in Nat, Slot(m) = Slot(n), m < n, Open(m), Open(n)
      PROVE  FALSE
  <2>1. m + Capacity <= n /\ n < head
    BY <1>0, <1>1, SlotsApart DEF Open, PushPassed
  <2>2. PushPassed(m + Capacity)
    <3>1. CASE n = m + Capacity
      BY <1>1, <3>1 DEF Open
    <3>2. CASE m + Capacity < n
      <4>1. Slot(m + Capacity) = Slot(n) /\ m + Capacity \in Nat
        BY <1>0, <1>1, SlotAgain
      <4>2. (m + Capacity) + Capacity <= n
        BY <1>0, <3>2, <4>1, SlotsApart
      <4>. QED
        BY <1>0, <2>1, <4>1, <4>2, EarlierPassed
    <3>. QED
      BY <1>0, <2>1, <3>1, <3>2
  <2>3. m \in 0 .. (head - 1)
    BY <1>0, <1>1, <2>1
  <2>. QED
    BY <1>1, <2>2, <2>3 DEF Turns, Open
<1>. QED
  BY <1>1

\* A push that finds its slot empty comes after the pop of the lap before.
LEMMA EmptyTurn ==
  ASSUME TurnShape, LastLap, Turns, NEW p \in Threads, pc[p] = "offer",
         states[Slot(index[p])] = "EMPTY", NEW i \in Nat, i + Capacity = index[p]
  PROVE  PopPassed(i)
<1>0. /\ head \in Nat /\ tail \in Nat /\ Capacity \in Nat /\ index[p] \in Nat
      /\ index[p] < head /\ index \in [Threads -> Nat]
  BY DEF TurnShape, ClaimsInv, OwnersApart, Claimed
<1>1. Slot(i) = Slot(index[p]) /\ Slot(i) \in DOMAIN states
  BY <1>0, SlotAgain, SlotRange DEF TurnShape, RaceShape
<1>2. PushPassed(i)
  BY <1>0, EarlierPassed
<1>3. i \in 0 .. (head - 1)
  BY <1>0
<1>4. ~Open(i)
  BY <1>1, <1>3 DEF Turns
<1>. QED
  BY <1>2, <1>4 DEF Open

\* A full slot is open for the pop that waits for it and for no other index.
LEMMA FullTurn ==
  ASSUME TurnShape, LastLap, Turns, NEW c \in Threads, pc[c] = "wait",
         states[Slot(index[c])] = "FULL"
  PROVE  Open(index[c])
<1>0. /\ head \in Nat /\ tail \in Nat /\ Capacity \in Nat /\ Capacity > 0 /\ index[c] \in Nat
      /\ index[c] < tail /\ tail <= index[c] + Capacity
  BY DEF TurnShape, ClaimsInv, OwnersApart, Waiting, LastLap
<1>1. Slot(index[c]) \in DOMAIN states
  BY <1>0, SlotRange DEF TurnShape, RaceShape
<1>2. PICK j \in 0 .. (head - 1) : Slot(j) = Slot(index[c]) /\ Open(j)
  BY <1>1 DEF Turns
<1>3. ~(j < index[c])
  <2>1. SUFFICES ASSUME j < index[c] PROVE FALSE
    OBVIOUS
  <2>2. j + Capacity <= index[c]
    BY <1>0, <1>2, <2>1, SlotsApart
  <2>3. j + Capacity < tail
    BY <1>0, <1>2, <2>2
  <2>. QED
    BY <1>0, <1>2, <2>3, EarlierPassed DEF Open
<1>4. ~(index[c] < j)
  <2>1. SUFFICES ASSUME index[c] < j PROVE FALSE
    OBVIOUS
  <2>2. index[c] + Capacity <= j /\ Slot(index[c] + Capacity) = Slot(j)
    BY <1>0, <1>2, <2>1, SlotsApart, SlotAgain
  <2>3. PushPassed(index[c] + Capacity)
    <3>1. CASE index[c] + Capacity < j
      <4>1. (index[c] + Capacity) + Capacity <= j
        BY <1>0, <1>2, <2>2, <3>1, SlotsApart
      <4>. QED
        BY <1>0, <1>2, <4>1, EarlierPassed
    <3>. QED
      BY <1>0, <1>2, <2>2, <3>1 DEF Open
  <2>4. PopPassed(index[c])
    BY <1>0, <1>2, <2>1, <2>3 DEF Turns
  <2>. QED
    BY <1>0, <2>4 DEF PopPassed
<1>. QED
  BY <1>0, <1>2, <1>3, <1>4

\* So is the slot of a push that is about to copy.
LEMMA WriteTurn ==
  ASSUME TurnShape, LastLap, Turns, NEW p \in Threads, pc[p] = "write"
  PROVE  Open(index[p])
<1>0. /\ head \in Nat /\ tail \in Nat /\ Capacity \in Nat /\ Capacity > 0 /\ index[p] \in Nat
      /\ index[p] < head /\ head <= index[p] + Capacity
  BY DEF TurnShape, ClaimsInv, OwnersApart, Claimed, LastLap
<1>1. Slot(index[p]) \in DOMAIN states /\ states[Slot(index[p])] = "FULL"
  BY <1>0, SlotRange DEF TurnShape, RaceShape, CopiesAlone
<1>2. PICK j \in 0 .. (head - 1) : Slot(j) = Slot(index[p]) /\ Open(j)
  BY <1>1 DEF Turns
<1>3. ~(index[p] < j)
  BY <1>0, <1>2, SlotsApart
<1>4. ~(j < index[p])
  <2>1. SUFFICES ASSUME j < index[p] PROVE FALSE
    OBVIOUS
  <2>2. j + Capacity <= index[p] /\ Slot(j + Capacity) = Slot(index[p])
    BY <1>0, <1>2, <2>1, SlotsApart, SlotAgain
  <2>3. PushPassed(index[p])
    BY <1>0 DEF PushPassed, TurnShape, ClaimsInv, OwnersApart, Claimed
  <2>4. PushPassed(j + Capacity)
    <3>1. CASE j + Capacity < index[p]
      <4>1. (j + Capacity) + Capacity <= index[p]
        BY <1>0, <1>2, <2>2, <3>1, SlotsApart
      <4>. QED
        BY <1>0, <1>2, <4>1, EarlierPassed
    <3>. QED
      BY <1>0, <1>2, <2>2, <2>3, <3>1
  <2>. QED
    BY <1>2, <2>4 DEF Turns, Open
<1>. QED
  BY <1>0, <1>2, <1>3, <1>4

Busy == {"offer", "write", "wait", "read"}

\* No thread arrives at a slot, and none but a pop leaves one.
LEMMA QuietTurn ==
  ASSUME InTurn, UNCHANGED <<head, tail, states, elements, sent>>,
         \A u \in Threads :
           pc'[u] \in Busy \/ pc[u] \in Busy \ {"read"} =>
             pc'[u] = pc[u] /\ index'[u] = index[u] /\ element'[u] = element[u]
  PROVE  InTurn'
<1>1. /\ \A i : PushPassed(i)' <=> PushPassed(i)
      /\ \A i : PopPassed(i)' <=> PopPassed(i)
  BY DEF PushPassed, PopPassed, Busy
<1>2. \A i : Open(i)' <=> Open(i)
  BY <1>1 DEF Open
<1>3. LastLap'
  BY DEF InTurn, LastLap, Busy
<1>4. Turns'
  BY <1>1, <1>2 DEF InTurn, Turns
<1>5. OwnElements'
  BY <1>2 DEF InTurn, OwnElements, Slot, Busy
<1>. QED
  BY <1>3, <1>4, <1>5 DEF InTurn

\* A push claims the index at which head stands.
LEMMA PushArrives ==
  ASSUME TurnShape, InTurn, ~Crowd', NEW t, Moves(t, "offer"), pc[t] \notin Busy,
         index'[t] = head, NEW v \in Elements, element'[t] = v, head' = head + 1,
         sent' = Append(sent, v), UNCHANGED <<tail, states, elements>>
  PROVE  InTurn'
<1>0. /\ t \in Threads /\ head \in Nat /\ tail \in Nat /\ Capacity \in Nat /\ Capacity > 0
      /\ index \in [Threads -> Nat] /\ pc'[t] = "offer"
      /\ \A u \in Threads : u # t =>
           pc'[u] = pc[u] /\ index'[u] = index[u] /\ element'[u] = element[u]
      /\ \A u \in Threads : pc[u] \in {"offer", "write"} => index[u] < head
  BY DEF TurnShape, ClaimsInv, OwnersApart, Claimed, Moves
<1>1. sent'[head + 1] = v /\ \A i \in 0 .. (head - 1) : sent'[i + 1] = sent[i + 1]
  <2>1. /\ sent \in Seq(Elements) /\ head = Len(sent) /\ DOMAIN sent = 1 .. Len(sent)
    BY LenProperties DEF TurnShape, RaceShape
  <2>. QED
    BY <1>0, <2>1, SetOfAppend
<1>n. head \in Nat /\ Capacity \in Nat
  BY <1>0
<1>2. ASSUME NEW u \in Threads, u # t, pc[u] \in {"offer", "write"}
      PROVE  head + 1 <= index[u] + Capacity
  <2>1. head <= index[u] + Capacity /\ index[u] \in Nat
    BY <1>0, <1>2 DEF InTurn, LastLap
  <2>2. ASSUME head = index[u] + Capacity PROVE FALSE
    <3>1. Slot(head) = Slot(index[u])
      BY <1>0, <2>1, <2>2, SlotAgain
    <3>2. Slot(index[t])' = Slot(index[u])' /\ {pc'[t], pc'[u]} \subseteq {"offer", "write"}
      BY <1>0, <1>2, <3>1 DEF Slot
    <3>. QED
      BY <1>0, <1>2, <3>2 DEF Crowd
  <2>3. PICK n \in Nat : n = index[u]
    BY <2>1
  <2>. QED
    BY <1>n, <2>1, <2>2, <2>3
<1>3. LastLap'
  <2>1. ASSUME NEW u \in Threads, pc'[u] \in {"offer", "write"}
        PROVE  head' <= index'[u] + Capacity /\ element'[u] = sent'[index'[u] + 1]
    <3>1. CASE u = t
      <4>1. index'[u] = head /\ head' = head + 1 /\ element'[u] = v
        BY <3>1
      <4>2. head + 1 <= head + Capacity
        BY <1>0
      <4>. QED
        BY <1>1, <4>1, <4>2
    <3>2. CASE u # t
      <4>1. /\ pc[u] \in {"offer", "write"} /\ index'[u] = index[u]
            /\ element'[u] = element[u] /\ index[u] \in 0 .. (head - 1)
        BY <1>0, <2>1, <3>2
      <4>2. element[u] = sent[index[u] + 1] /\ head + 1 <= index[u] + Capacity
        BY <1>2, <3>2, <4>1 DEF InTurn, LastLap
      <4>. QED
        BY <1>0, <1>1, <4>1, <4>2
    <3>. QED
      BY <3>1, <3>2
  <2>2. ASSUME NEW u \in Threads, pc'[u] \in {"wait", "read"}
        PROVE  tail' <= index'[u] + Capacity
    <3>1. pc[u] \in {"wait", "read"} /\ index'[u] = index[u]
      BY <1>0, <2>2 DEF Busy
    <3>. QED
      BY <3>1 DEF InTurn, LastLap
  <2>. QED
    BY <2>1, <2>2 DEF LastLap
<1>4. ASSUME NEW i \in Nat
      PROVE  (PushPassed(i)' <=> PushPassed(i)) /\ (PopPassed(i)' <=> PopPassed(i))
  <2>1. \A u \in Threads : u # t => pc'[u] = pc[u] /\ index'[u] = index[u]
    BY <1>0
  <2>2. (i < head' <=> i < head \/ i = head) /\ index'[t] = head /\ pc'[t] = "offer"
    BY <1>0
  <2>3. PopPassed(i)' <=> PopPassed(i)
    BY <1>0, <2>1, <2>2 DEF PopPassed, Busy
  <2>4. PushPassed(i)' <=> PushPassed(i)
    <3>1. CASE i = head
      BY <1>0, <2>2, <3>1 DEF PushPassed
    <3>2. CASE i # head
      BY <1>0, <2>1, <2>2, <3>2 DEF PushPassed, Busy
    <3>. QED
      BY <3>1, <3>2
  <2>. QED
    BY <2>3, <2>4
<1>5. \A i \in Nat : (Open(i)' <=> Open(i)) /\ (Open(i) => i < head)
  BY <1>4 DEF Open, PushPassed
<1>6. Turns'
  <2>1. \A i \in 0 .. (tail' - 1) : PopPassed(i)' => PushPassed(i)'
    BY <1>0, <1>4 DEF InTurn, Turns
  <2>2. \A i \in 0 .. (head' - 1) : PushPassed(i + Capacity)' => PopPassed(i)'
    <3>1. SUFFICES ASSUME NEW i \in 0 .. (head' - 1), PushPassed(i + Capacity)'
                   PROVE  PopPassed(i)'
      OBVIOUS
    <3>2. i \in Nat /\ i + Capacity \in Nat
      BY <1>0
    <3>3. PushPassed(i + Capacity)
      BY <1>4, <3>1, <3>2
    <3>4. i \in 0 .. (head - 1)
      BY <1>0, <3>2, <3>3 DEF PushPassed
    <3>. QED
      BY <1>4, <3>2, <3>3, <3>4 DEF InTurn, Turns
  <2>3. \A s : (\E i \in 0 .. (head' - 1) : Slot(i) = s /\ Open(i)')
                 <=> (\E i \in 0 .. (head - 1) : Slot(i) = s /\ Open(i))
    BY <1>0, <1>5
  <2>. QED
    BY <2>1, <2>2, <2>3 DEF InTurn, Turns
<1>7. OwnElements'
  <2>1. ASSUME NEW i \in 0 .. (head' - 1), Open(i)',
               \A p \in Threads : pc'[p] = "write" => index'[p] # i
        PROVE  elements'[Slot(i)] = sent'[i + 1]
    <3>1. i \in 0 .. (head - 1) /\ Open(i)
      BY <1>0, <1>5, <2>1
    <3>2. \A p \in Threads : pc[p] = "write" => index[p] # i
      BY <1>0, <2>1 DEF Busy
    <3>. QED
      BY <1>1, <3>1, <3>2 DEF InTurn, OwnElements
  <2>2. ASSUME NEW c \in Threads, pc'[c] = "read"
        PROVE  index'[c] < head' /\ elements'[Slot(index'[c])] = sent'[index'[c] + 1]
    <3>1. c # t /\ pc[c] = "read" /\ index'[c] = index[c] /\ index[c] \in 0 .. (head - 1)
      BY <1>0, <2>2 DEF InTurn, OwnElements
    <3>2. sent'[index[c] + 1] = sent[index[c] + 1] /\ index[c] < head /\ index[c] < head'
      <4>1. PICK i \in 0 .. (head - 1) : i = index[c]
        BY <3>1
      <4>2. i < head /\ i < head + 1
        BY <1>n
      <4>. QED
        BY <1>1, <4>1, <4>2
    <3>3. elements[Slot(index[c])] = sent[index[c] + 1]
      BY <3>1 DEF InTurn, OwnElements
    <3>. QED
      BY <3>1, <3>2, <3>3
  <2>. QED
    BY <2>1, <2>2 DEF OwnElements, Slot
<1>. QED
  BY <1>3, <1>6, <1>7 DEF InTurn

\* A pop claims the index at which tail stands.
LEMMA PopArrives ==
  ASSUME TurnShape, InTurn, ~Crowd', NEW t, Moves(t, "wait"), pc[t] \notin Busy,
         index'[t] = tail, tail' = tail + 1, UNCHANGED <<head, states, elements, sent>>
  PROVE  InTurn'
<1>0. /\ t \in Threads /\ head \in Nat /\ tail \in Nat /\ Capacity \in Nat /\ Capacity > 0
      /\ index \in [Threads -> Nat] /\ pc'[t] = "wait"
      /\ \A u \in Threads : u # t =>
           pc'[u] = pc[u] /\ index'[u] = index[u] /\ element'[u] = element[u]
      /\ \A u \in Threads : pc[u] \in {"wait", "read"} => index[u] < tail
  BY DEF TurnShape, ClaimsInv, OwnersApart, Waiting, Moves
<1>2. ASSUME NEW u \in Threads, u # t, pc[u] \in {"wait", "read"}
      PROVE  tail + 1 <= index[u] + Capacity
  <2>1. tail <= index[u] + Capacity /\ index[u] \in Nat
    BY <1>0, <1>2 DEF InTurn, LastLap
  <2>2. ASSUME tail = index[u] + Capacity PROVE FALSE
    <3>1. Slot(tail) = Slot(index[u])
      BY <1>0, <2>1, <2>2, SlotAgain
    <3>2. Slot(index[t])' = Slot(index[u])' /\ {pc'[t], pc'[u]} \subseteq {"wait", "read"}
      BY <1>0, <1>2, <3>1 DEF Slot
    <3>. QED
      BY <1>0, <1>2, <3>2 DEF Crowd
  <2>. QED
    BY <1>0, <2>1, <2>2
<1>3. LastLap'
  BY <1>0, <1>2 DEF InTurn, LastLap, Busy
<1>4. /\ \A i \in Nat : PushPassed(i)' <=> PushPassed(i)
      /\ \A i \in Nat : PopPassed(i)' <=> PopPassed(i)
  BY <1>0 DEF PushPassed, PopPassed, Busy
<1>5. \A i \in Nat : Open(i)' <=> Open(i)
  BY <1>4 DEF Open
<1>6. Turns'
  <2>1. \A i \in 0 .. (tail' - 1) : PopPassed(i)' => PushPassed(i)'
    BY <1>0, <1>4 DEF InTurn, Turns, PopPassed
  <2>2. \A i \in 0 .. (head - 1) : PushPassed(i + Capacity)' => PopPassed(i)'
    BY <1>0, <1>4 DEF InTurn, Turns
  <2>. QED
    BY <1>0, <1>5, <2>1, <2>2 DEF InTurn, Turns
<1>7. OwnElements'
  <2>1. \A p \in Threads : pc'[p] \in {"write", "read"} <=> pc[p] \in {"write", "read"}
    BY <1>0 DEF Busy
  <2>. QED
    BY <1>0, <1>5, <2>1 DEF InTurn, OwnElements, Slot, Busy
<1>. QED
  BY <1>3, <1>6, <1>7 DEF InTurn

\* A push finds its slot empty and marks it full.
LEMMA PushPasses ==
  ASSUME TurnShape, InTurn, NEW p, Moves(p, "write"), pc[p] = "offer",
         states[Slot(index[p])] = "EMPTY",
         states' = [states EXCEPT ![Slot(index[p])] = "FULL"],
         UNCHANGED <<head, tail, index, element, elements, sent>>
  PROVE  InTurn'
<1>0. /\ p \in Threads /\ head \in Nat /\ tail \in Nat /\ Capacity \in Nat /\ pc'[p] = "write"
      /\ index[p] \in Nat /\ index[p] < head
      /\ \A u \in Threads : u # p => pc'[u] = pc[u]
      /\ \A u \in Threads : pc[u] = "offer" /\ index[u] = index[p] => u = p
  BY DEF TurnShape, ClaimsInv, OwnersApart, Claimed, Moves
<1>1. /\ DOMAIN states' = DOMAIN states /\ Slot(index[p]) \in DOMAIN states
      /\ \A s \in DOMAIN states :
           states'[s] = IF s = Slot(index[p]) THEN "FULL" ELSE states[s]
  BY <1>0, SlotRange DEF TurnShape, RaceShape
<1>2. ASSUME NEW i \in Nat
      PROVE  /\ PushPassed(i)' <=> (PushPassed(i) \/ i = index[p])
             /\ PopPassed(i)' <=> PopPassed(i)
  BY <1>0 DEF PushPassed, PopPassed
<1>3. ~PopPassed(index[p])
  <2>1. ~PushPassed(index[p])
    BY <1>0 DEF PushPassed
  <2>. QED
    BY <1>0, <2>1 DEF InTurn, Turns, PopPassed
<1>4. ASSUME NEW i \in Nat PROVE Open(i)' <=> (Open(i) \/ i = index[p])
  BY <1>2, <1>3 DEF Open
<1>5. LastLap'
  BY <1>0 DEF InTurn, LastLap
<1>6. Turns'
  <2>1. \A i \in 0 .. (tail' - 1) : PopPassed(i)' => PushPassed(i)'
    BY <1>2 DEF InTurn, Turns
  <2>2. ASSUME NEW i \in 0 .. (head' - 1), PushPassed(i + Capacity)' PROVE PopPassed(i)'
    <3>1. i \in 0 .. (head - 1) /\ i + Capacity \in Nat
      BY <1>0
    <3>2. CASE PushPassed(i + Capacity)
      BY <1>2, <3>1, <3>2 DEF InTurn, Turns
    <3>3. CASE i + Capacity = index[p]
      BY <1>0, <1>2, <3>1, <3>3, EmptyTurn DEF InTurn
    <3>. QED
      BY <1>2, <2>2, <3>1, <3>2, <3>3
  <2>3. ASSUME NEW s \in DOMAIN states
        PROVE  states'[s] = "FULL" <=> \E i \in 0 .. (head - 1) : Slot(i) = s /\ Open(i)'
    <3>1. CASE s = Slot(index[p])
      <4>1. index[p] \in 0 .. (head - 1) /\ Open(index[p])'
        BY <1>0, <1>4
      <4>. QED
        BY <1>1, <3>1, <4>1
    <3>2. CASE s # Slot(index[p])
      <4>1. \A i \in 0 .. (head - 1) : Slot(i) = s => (Open(i)' <=> Open(i))
        BY <1>4, <3>2
      <4>. QED
        BY <1>1, <3>2, <4>1 DEF InTurn, Turns
    <3>. QED
      BY <3>1, <3>2
  <2>. QED
    BY <1>1, <2>1, <2>2, <2>3 DEF Turns, Slot
<1>7. OwnElements'
  <2>1. ASSUME NEW i \in 0 .. (head - 1), Open(i)',
               \A u \in Threads : pc'[u] = "write" => index[u] # i
        PROVE  elements[Slot(i)] = sent[i + 1]
    <3>1. Open(i) /\ \A u \in Threads : pc[u] = "write" => index[u] # i
      BY <1>0, <1>4, <2>1
    <3>. QED
      BY <3>1 DEF InTurn, OwnElements
  <2>2. \A c \in Threads : pc'[c] = "read" =>
          index[c] < head /\ elements[Slot(index[c])] = sent[index[c] + 1]
    BY <1>0 DEF InTurn, OwnElements
  <2>. QED
    BY <2>1, <2>2 DEF OwnElements, Slot
<1>. QED
  BY <1>5, <1>6, <1>7 DEF InTurn

\* A pop finds its slot full and marks it empty.
LEMMA PopPasses ==
  ASSUME TurnShape, InTurn, NoRace', NEW c, Moves(c, "read"), pc[c] = "wait",
         states[Slot(index[c])] = "FULL",
         states' = [states EXCEPT ![Slot(index[c])] = "EMPTY"],
         UNCHANGED <<head, tail, index, element, elements, sent>>
  PROVE  InTurn'
<1>0. /\ c \in Threads /\ head \in Nat /\ tail \in Nat /\ Capacity \in Nat /\ pc'[c] = "read"
      /\ index[c] \in Nat /\ index[c] < tail
      /\ \A u \in Threads : u # c => pc'[u] = pc[u]
      /\ \A u \in Threads : pc[u] = "wait" /\ index[u] = index[c] => u = c
  BY DEF TurnShape, ClaimsInv, OwnersApart, Waiting, Moves
<1>1. /\ DOMAIN states' = DOMAIN states
      /\ \A s \in DOMAIN states :
           states'[s] = IF s = Slot(index[c]) THEN "EMPTY" ELSE states[s]
  BY <1>0, SlotRange DEF TurnShape, RaceShape
<1>2. ASSUME NEW i \in Nat
      PROVE  /\ PushPassed(i)' <=> PushPassed(i)
             /\ PopPassed(i)' <=> (PopPassed(i) \/ i = index[c])
  BY <1>0 DEF PushPassed, PopPassed
<1>3. Open(index[c]) /\ index[c] < head
  BY <1>0, FullTurn DEF InTurn, Open, PushPassed
<1>4. ASSUME NEW i \in Nat PROVE Open(i)' <=> Open(i) /\ i # index[c]
  BY <1>2 DEF Open
<1>5. LastLap'
  BY <1>0 DEF InTurn, LastLap
<1>6. Turns'
  <2>1. \A i \in 0 .. (tail' - 1) : PopPassed(i)' => PushPassed(i)'
    BY <1>2, <1>3 DEF InTurn, Turns, Open
  <2>2. ASSUME NEW i \in 0 .. (head' - 1), PushPassed(i + Capacity)' PROVE PopPassed(i)'
    <3>1. i \in 0 .. (head - 1) /\ i + Capacity \in Nat
      BY <1>0
    <3>. QED
      BY <1>2, <2>2, <3>1 DEF InTurn, Turns
  <2>3. ASSUME NEW s \in DOMAIN states
        PROVE  states'[s] = "FULL" <=> \E i \in 0 .. (head - 1) : Slot(i) = s /\ Open(i)'
    <3>1. CASE s = Slot(index[c])
      <4>1. \A i \in 0 .. (head - 1) : Slot(i) = s => ~Open(i)'
        BY <1>0, <1>3, <1>4, <3>1, OpenOnce DEF InTurn
      <4>. QED
        BY <1>1, <3>1, <4>1
    <3>2. CASE s # Slot(index[c])
      <4>1. \A i \in 0 .. (head - 1) : Slot(i) = s => (Open(i)' <=> Open(i))
        BY <1>4, <3>2
      <4>. QED
        BY <1>1, <3>2, <4>1 DEF InTurn, Turns
    <3>. QED
      BY <3>1, <3>2
  <2>. QED
    BY <1>1, <2>1, <2>2, <2>3 DEF Turns, Slot
<1>7. OwnElements'
  <2>1. ASSUME NEW i \in 0 .. (head - 1), Open(i)',
               \A u \in Threads : pc'[u] = "write" => index[u] # i
        PROVE  elements[Slot(i)] = sent[i + 1]
    <3>1. Open(i) /\ \A u \in Threads : pc[u] = "write" => index[u] # i
      BY <1>0, <1>4, <2>1
    <3>. QED
      BY <3>1 DEF InTurn, OwnElements
  <2>2. \A u \in Threads : pc[u] = "write" => index[u] # index[c]
    <3>1. SUFFICES ASSUME NEW u \in Threads, pc[u] = "write", index[u] = index[c]
                   PROVE  FALSE
      OBVIOUS
    <3>2. u # c /\ pc'[u] = "write" /\ Slot(index[u])' = Slot(index[c])'
      BY <1>0, <3>1 DEF Slot
    <3>. QED
      BY <1>0, <3>2 DEF NoRace
  <2>3. elements[Slot(index[c])] = sent[index[c] + 1]
    BY <1>0, <1>3, <2>2 DEF InTurn, OwnElements
  <2>4. \A u \in Threads : pc'[u] = "read" =>
          index[u] < head /\ elements[Slot(index[u])] = sent[index[u] + 1]
    BY <1>0, <1>3, <2>3 DEF InTurn, OwnElements
  <2>. QED
    BY <2>1, <2>4 DEF OwnElements, Slot
<1>. QED
  BY <1>5, <1>6, <1>7 DEF InTurn

\* A push copies its element and leaves.
LEMMA PushCopies ==
  ASSUME TurnShape, InTurn, NEW p, NEW l, Moves(p, l), l \notin Busy, pc[p] = "write",
         elements' = [elements EXCEPT ![Slot(index[p])] = element[p]],
         UNCHANGED <<head, tail, states, sent>>
  PROVE  InTurn'
<1>0. /\ p \in Threads /\ head \in Nat /\ index[p] \in Nat /\ pc'[p] \notin Busy
      /\ \A u \in Threads : u # p =>
           pc'[u] = pc[u] /\ index'[u] = index[u] /\ element'[u] = element[u]
      /\ Open(index[p]) /\ element[p] = sent[index[p] + 1]
      /\ \A c \in Threads : pc[c] = "read" => Slot(index[c]) # Slot(index[p])
  BY WriteTurn DEF TurnShape, ClaimsInv, Moves, InTurn, LastLap, CopiesAlone, CopyAt
<1>1. \A s \in DOMAIN elements :
        elements'[s] = IF s = Slot(index[p]) THEN element[p] ELSE elements[s]
  OBVIOUS
<1>2. /\ \A i : PushPassed(i)' <=> PushPassed(i)
      /\ \A i : PopPassed(i)' <=> PopPassed(i)
  BY <1>0 DEF PushPassed, PopPassed, Busy
<1>3. \A i : Open(i)' <=> Open(i)
  BY <1>2 DEF Open
<1>4. LastLap'
  BY <1>0 DEF InTurn, LastLap, Busy
<1>5. Turns'
  BY <1>2, <1>3 DEF InTurn, Turns
<1>6. DOMAIN elements = 0 .. (Capacity - 1) /\ \A i \in Nat : Slot(i) \in 0 .. (Capacity - 1)
  BY SlotRange DEF TurnShape, RaceShape
<1>7. OwnElements'
  <2>1. ASSUME NEW i \in 0 .. (head - 1), Open(i),
               \A u \in Threads : pc'[u] = "write" => index'[u] # i
        PROVE  elements'[Slot(i)] = sent[i + 1]
    <3>0. i \in Nat /\ Slot(i) \in DOMAIN elements
      BY <1>0, <1>6
    <3>1. CASE i = index[p]
      BY <1>0, <1>1, <3>0, <3>1
    <3>2. CASE i # index[p]
      <4>1. Slot(i) # Slot(index[p])
        BY <1>0, <2>1, <3>0, <3>2, OpenOnce DEF InTurn
      <4>2. \A u \in Threads : pc[u] = "write" => index[u] # i
        BY <1>0, <2>1, <3>2
      <4>. QED
        BY <1>1, <2>1, <3>0, <4>1, <4>2 DEF InTurn, OwnElements
    <3>. QED
      BY <3>1, <3>2
  <2>2. ASSUME NEW c \in Threads, pc'[c] = "read"
        PROVE  index'[c] < head /\ elements'[Slot(index'[c])] = sent[index'[c] + 1]
    <3>1. /\ pc[c] = "read" /\ index'[c] = index[c] /\ index[c] \in Nat
          /\ Slot(index[c]) # Slot(index[p])
      BY <1>0, <2>2 DEF Busy, TurnShape, ClaimsInv
    <3>. QED
      BY <1>1, <1>6, <3>1 DEF InTurn, OwnElements
  <2>. QED
    BY <1>3, <2>1, <2>2 DEF OwnElements, Slot
<1>. QED
  BY <1>4, <1>5, <1>7 DEF InTurn

\* What a step keeps if after it no two copies are due at a slot and no two
\* pushes or pops are at one: the turns.  Each claim of head sends one element.
KeepsTurns ==
  /\ head' = Len(sent)'
  /\ CopiesAlone /\ InTurn /\ NoRace' /\ ~Crowd' => InTurn'

LEMMA PushTurns ==
  ASSUME TotalOrder, ~SPSC, RaceShape, NotSentYet, ClaimsInv, head = Len(sent),
         NEW p \in Producers, PushCall(p) \/ PushStep(p)
  PROVE  KeepsTurns
<1>. USE DEF KeepsTurns
<1>0. /\ p \in Threads /\ head \in Nat /\ index[p] \in Nat /\ element[p] \in Contents
      /\ index = [index EXCEPT ![p] = index[p]] /\ element = [element EXCEPT ![p] = element[p]]
      /\ Elements \subseteq Contents /\ unsent \subseteq Elements
  BY DEF RaceShape, NotSentYet, Threads, Contents
<1>s. CopiesAlone => TurnShape
  BY Queue2Assumption DEF TurnShape
\* Up to its claim a push is at no slot.
<1>1. ASSUME NEW l \in Labels, Moves(p, l), l \notin Busy, pc[p] \notin Busy,
             UNCHANGED <<head, tail, states, elements, sent>>
      PROVE  KeepsTurns
  <2>1. \A u \in Threads : pc'[u] \in Busy \/ pc[u] \in Busy =>
          pc'[u] = pc[u] /\ index'[u] = index[u] /\ element'[u] = element[u]
    BY <1>1 DEF Moves
  <2>. QED
    BY <1>1, <2>1, QuietTurn
<1>2. CASE CallTryPush(p)
  <2>1. PICK v \in unsent : element' = [element EXCEPT ![p] = v]
    BY <1>2 DEF CallTryPush
  <2>2. Moves(p, "push_check")
    BY <1>0, <1>2, <2>1, GotoMoves DEF CallTryPush, Labels
  <2>. QED
    BY <1>1, <1>2, <2>2 DEF CallTryPush, Labels, Busy
<1>3. ASSUME NEW l \in {"idle", "panicked"}, Leave(p, l), pc[p] \notin Busy,
             UNCHANGED <<head, tail, states, elements, sent>>
      PROVE  KeepsTurns
  <2>1. Moves(p, l)
    BY <1>0, <1>3, LeaveMoves DEF Labels
  <2>. QED
    BY <1>1, <1>3, <2>1 DEF Labels, Busy
<1>4. CASE TryPushCheck(p)
  <2>1. CASE Goto(p, "push_claim") /\ UNCHANGED <<index, element>>
    <3>1. Moves(p, "push_claim")
      BY <1>0, <2>1, GotoMoves DEF Labels
    <3>. QED
      BY <1>1, <1>4, <2>1, <3>1 DEF TryPushCheck, RefusePush, Labels, Busy
  <2>2. CASE \E l \in {"idle", "panicked"} : Leave(p, l)
    BY <1>3, <1>4, <2>2 DEF TryPushCheck, RefusePush, Busy
  <2>. QED
    BY <1>4, <2>1, <2>2 DEF TryPushCheck, RefusePush
<1>5. ASSUME NEW v \in Elements, ClaimHead(p, v), pc[p] \notin Busy,
             index' = [index EXCEPT ![p] = head], element' = [element EXCEPT ![p] = v]
      PROVE  KeepsTurns
  <2>1. /\ Moves(p, "offer") /\ index'[p] = head /\ element'[p] = v
        /\ sent' = Append(sent, v) /\ head' = head + 1 /\ UNCHANGED <<tail, states, elements>>
    BY <1>0, <1>5, GotoMoves DEF ClaimHead, Labels
  <2>2. head' = Len(sent')
    BY <1>5, <2>1, AppendProperties DEF RaceShape
  <2>. QED
    BY <1>s, <1>5, <2>1, <2>2, PushArrives
<1>6. CASE TryPushClaim(p)
  <2>1. CASE RefusePush(p)
    BY <1>3, <1>6, <2>1 DEF TryPushClaim, RefusePush, Busy
  <2>2. CASE head = index[p] /\ ClaimHead(p, element[p]) /\ UNCHANGED <<index, element>>
    <3>1. pc[p] = "push_claim" /\ element[p] \in Elements
      BY <1>0, <1>6 DEF TryPushClaim, Asking, NotSentYet
    <3>. QED
      BY <1>0, <1>5, <2>2, <3>1 DEF Busy
  <2>. QED
    BY <1>6, <2>1, <2>2 DEF TryPushClaim
<1>7. CASE Push(p)
  BY <1>0, <1>5, <1>7 DEF Push, PushOf, Busy, Draw
<1>8. CASE AwaitEmpty(p)
  <2>1. /\ Moves(p, "write") /\ pc[p] = "offer" /\ states[Slot(index[p])] = "EMPTY"
        /\ states' = [states EXCEPT ![Slot(index[p])] = "FULL"]
        /\ UNCHANGED <<head, tail, index, element, elements, sent>>
    BY <1>0, <1>8, GotoMoves DEF AwaitEmpty, Labels
  <2>. QED
    BY <1>s, <2>1, PushPasses
<1>9. CASE Write(p)
  <2>1. /\ pc[p] = "write" /\ Moves(p, "idle") /\ UNCHANGED <<head, tail, states, sent>>
    BY <1>0, <1>9, LeaveMoves DEF Write, Labels
  <2>2. ASSUME CopiesAlone PROVE elements' = [elements EXCEPT ![Slot(index[p])] = element[p]]
    <3>1. ~Contended(p)
      <4>1. PICK s : s = Slot(index[p])
        OBVIOUS
      <4>. QED
        BY <2>1, <2>2, <4>1, CopyEnds DEF Copying
    <3>. QED
      BY <1>9, <3>1 DEF Write
  <2>. QED
    BY <1>s, <2>1, <2>2, PushCopies DEF Busy
<1>10. ~Publish(p)
  BY <1>0 DEF Publish, RaceShape
<1>. QED
  BY <1>2, <1>4, <1>6, <1>7, <1>8, <1>9, <1>10 DEF PushCall, PushStep

LEMMA PopTurns ==
  ASSUME TotalOrder, ~SPSC, RaceShape, ClaimsInv, head = Len(sent),
         NEW c \in Consumers, PopCall(c) \/ PopStep(c)
  PROVE  KeepsTurns
<1>. USE DEF KeepsTurns
<1>0. /\ c \in Threads /\ tail \in Nat /\ index[c] \in Nat /\ element[c] \in Contents
      /\ index = [index EXCEPT ![c] = index[c]] /\ element = [element EXCEPT ![c] = element[c]]
  BY DEF RaceShape, Threads
<1>s. CopiesAlone => TurnShape
  BY Queue2Assumption DEF TurnShape
<1>h. UNCHANGED <<head, sent>>
  BY 
     DEF PopCall, PopStep, CallTryPop, Pop, ClaimTail, TryPopCheck, TryPopClaim,
         RefusePop, AwaitFull, Read, Release
\* Before its claim a pop is at no slot, and after its copy it leaves one.
<1>1. ASSUME NEW l \in Labels, Moves(c, l), l \notin Busy, pc[c] \notin Busy \ {"read"},
             UNCHANGED <<head, tail, states, elements, sent>>
      PROVE  KeepsTurns
  <2>1. \A u \in Threads : pc'[u] \in Busy \/ pc[u] \in Busy \ {"read"} =>
          pc'[u] = pc[u] /\ index'[u] = index[u] /\ element'[u] = element[u]
    BY <1>1 DEF Moves
  <2>. QED
    BY <1>1, <2>1, QuietTurn
<1>2. CASE CallTryPop(c)
  <2>1. Moves(c, "pop_check")
    BY <1>0, <1>2, GotoMoves DEF CallTryPop, Labels
  <2>. QED
    BY <1>1, <1>2, <2>1 DEF CallTryPop, Labels, Busy
<1>3. ASSUME Leave(c, "idle"), pc[c] \notin Busy \ {"read"},
             UNCHANGED <<head, tail, states, elements, sent>>
      PROVE  KeepsTurns
  <2>1. Moves(c, "idle")
    BY <1>0, <1>3, LeaveMoves DEF Labels
  <2>. QED
    BY <1>1, <1>3, <2>1 DEF Labels, Busy
<1>4. CASE TryPopCheck(c)
  <2>1. CASE Goto(c, "pop_claim") /\ UNCHANGED <<index, element>>
    <3>1. Moves(c, "pop_claim")
      BY <1>0, <2>1, GotoMoves DEF Labels
    <3>. QED
      BY <1>1, <1>4, <2>1, <3>1 DEF TryPopCheck, RefusePop, Labels, Busy
  <2>2. CASE RefusePop(c)
    BY <1>3, <1>4, <2>2 DEF TryPopCheck, RefusePop, Busy
  <2>. QED
    BY <1>4, <2>1, <2>2 DEF TryPopCheck
<1>5. ASSUME ClaimTail(c), pc[c] \notin Busy, index' = [index EXCEPT ![c] = tail]
      PROVE  KeepsTurns
  <2>1. /\ Moves(c, "wait") /\ index'[c] = tail /\ tail' = tail + 1
        /\ UNCHANGED <<head, states, elements, sent>>
    BY <1>0, <1>5, GotoMoves DEF ClaimTail, Labels
  <2>. QED
    BY <1>s, <1>5, <2>1, PopArrives
<1>6. CASE TryPopClaim(c)
  <2>1. CASE RefusePop(c)
    BY <1>3, <1>6, <2>1 DEF TryPopClaim, RefusePop, Busy
  <2>2. CASE tail = index[c] /\ ClaimTail(c) /\ UNCHANGED index
    BY <1>0, <1>5, <1>6, <2>2 DEF TryPopClaim, Busy
  <2>. QED
    BY <1>6, <2>1, <2>2 DEF TryPopClaim
<1>7. CASE Pop(c)
  BY <1>5, <1>7 DEF Pop, Busy
<1>8. CASE AwaitFull(c)
  <2>1. /\ Moves(c, "read") /\ pc[c] = "wait" /\ states[Slot(index[c])] = "FULL"
        /\ states' = [states EXCEPT ![Slot(index[c])] = "EMPTY"]
        /\ UNCHANGED <<head, tail, index, element, elements, sent>>
    BY <1>0, <1>8, GotoMoves DEF AwaitFull, Labels
  <2>. QED
    BY <1>s, <1>h, <2>1, PopPasses
<1>9. CASE Read(c)
  BY <1>3, <1>9 DEF Read, Busy
<1>10. ~Release(c)
  BY <1>0 DEF Release, RaceShape
<1>. QED
  BY <1>2, <1>4, <1>6, <1>7, <1>8, <1>9, <1>10 DEF PopCall, PopStep

LEMMA StepTurns ==
  ASSUME TotalOrder, ~SPSC, RaceInv, ClaimsInv, TurnInv, [RacingNext]_racingVars
  PROVE  TurnInv'
<1>1. RaceShape /\ NotSentYet /\ head = Len(sent)
  BY DEF RaceInv, RaceShape, TurnInv
<1>2. CASE UNCHANGED racingVars
  <2>1. /\ UNCHANGED <<head, tail, states, elements, pc, index, element>>
        /\ UNCHANGED <<sent, raced, crowded>>
    BY <1>2 DEF racingVars, vars
  <2>2. InTurn => InTurn'
    BY <2>1, QuietTurn
  <2>. QED
    BY <1>1, <2>1, <2>2 DEF TurnInv, InTurn
<1>3. CASE RacingNext
  <2>1. Next /\ (~raced' /\ ~crowded' => ~raced /\ ~crowded /\ NoRace' /\ ~Crowd')
    BY <1>3 DEF RacingNext
  <2>2. KeepsTurns
    <3>1. CASE Drop
      <4>1. UNCHANGED <<head, tail, states, elements, sent>> /\ head' = Len(sent)'
        BY <1>1, <3>1 DEF Drop
      <4>2. \A u \in Threads : pc[u] \notin Busy /\ pc'[u] \notin Busy
        BY <3>1 DEF Drop, Busy
      <4>. QED
        BY <4>1, <4>2, QuietTurn DEF KeepsTurns
    <3>. QED
      BY <1>1, <2>1, <3>1, PushTurns, PopTurns DEF Next
  <2>. QED
    BY <2>1, <2>2 DEF KeepsTurns, TurnInv, RaceInv, InTurn
<1>. QED
  BY <1>2, <1>3

LEMMA InitTurns ==
  ASSUME RacingInit PROVE TurnInv
<1>. USE DEF RacingInit, Init
<1>1. head = Len(sent)
  BY EmptySeq
<1>2. \A i \in Nat : ~PushPassed(i) /\ ~PopPassed(i) /\ ~Open(i)
  BY DEF PushPassed, PopPassed, Open
<1>. QED
  BY <1>1, <1>2 DEF TurnInv, LastLap, Turns, OwnElements

\* Without SPSC and with TOTAL_ORDER, until two copies of one slot race or two
\* pushes or pops crowd it: on each slot pushes and pops pass in turn.
THEOREM TurnInvariance ==
  ASSUME TotalOrder, ~SPSC PROVE RacingSpec => []TurnInv
<1>1. RacingInit => TurnInv
  BY InitTurns
<1>2. RaceInv /\ ClaimsInv /\ TurnInv /\ [RacingNext]_racingVars => TurnInv'
  BY StepTurns
<1>3. RacingInit => ClaimsInv
  BY DEF RacingInit, Init, ClaimsInv, OwnersApart, Labels, Claimed, Waiting
<1>4. ClaimsInv /\ [RacingNext]_racingVars => ClaimsInv'
  BY StepClaimsInv DEF RacingNext, racingVars
<1>. QED
  BY <1>1, <1>2, <1>3, <1>4, RaceInvariance, PTL DEF RacingSpec

\* With TOTAL_ORDER, for any number of threads and any mix of calls: until two
\* copies of one slot have raced or two pushes or two pops have crowded one,
\* every pop copies the element whose push claimed the same index.
THEOREM OwnElementUntilCrowded ==
  ASSUME ~SPSC PROVE RacingSpec => []InTurnUntilCrowded
<1>1. TurnInv => InTurnUntilCrowded
  BY DEF TurnInv, OwnElements, InTurnUntilCrowded
<1>2. ~TotalOrder => InTurnUntilCrowded
  BY DEF InTurnUntilCrowded
<1>3. CASE TotalOrder
  BY <1>1, <1>3, TurnInvariance, PTL
<1>4. CASE ~TotalOrder
  BY <1>2, <1>4, PTL
<1>. QED
  BY <1>3, <1>4

(***************************************************************************)
(* The claims with TOTAL_ORDER                                             *)
(***************************************************************************)

\* The sequence of the claims: what has been sent and no pop has claimed.  A
\* try_push that moves head puts an element, a try_pop that moves tail gets one.
Claims == INSTANCE BoundedFifo
            WITH Values <- Elements, Bound <- Capacity,
                 queue <- SubSeq(sent, tail + 1, head), output <- SubSeq(sent, 1, tail)

\* The counters under try_push and try_pop alone: what each local index still
\* says of them between the loads and the claim.
CountersFaithful ==
  /\ tail <= head /\ head - tail <= Capacity
  /\ \A t \in Threads :
       /\ pc[t] = "push_claim" => index[t] - tail < Capacity
       /\ pc[t] = "pop_check" => index[t] <= tail
       /\ pc[t] = "pop_claim" => index[t] < head

\* The elements that are offered and sent, for either value of SPSC
ClaimedElements ==
  /\ sent \in Seq(Elements) /\ head = Len(sent) /\ unsent \subseteq Elements
  /\ element \in [Threads -> Contents]
  /\ elements \in [0 .. (Capacity - 1) -> Contents]
  /\ \A t \in Threads : Asking(t) => element[t] \in Elements

ClaimPuts(v) ==
  /\ head' = head + 1 /\ tail' = tail /\ sent' = Append(sent, v)
  /\ head - tail < Capacity

ClaimGets == tail' = tail + 1 /\ UNCHANGED <<head, sent>> /\ tail < head

TryCalls == Calls \subseteq {"try_push", "try_pop"}

LEMMA StepClaimedElements ==
  ASSUME TotalOrder, TryCalls, ClaimsInv, ClaimedElements, [Next]_vars
  PROVE  ClaimedElements'
<1>. USE DEF ClaimedElements, Asking
<1>0. /\ head \in Nat /\ Elements \subseteq Contents /\ Uninit \in Contents /\ Torn \in Contents
      /\ pc \in [Threads -> Labels] /\ index \in [Threads -> Nat]
      /\ Producers \subseteq Threads /\ Consumers \subseteq Threads
  BY DEF ClaimsInv, Contents, Threads
<1>1. ASSUME NEW p \in Producers, CallTryPush(p) PROVE ClaimedElements'
  BY <1>0, <1>1 DEF CallTryPush, Draw, Goto
<1>2. ASSUME NEW t \in Threads, NEW l, ~(l \in {"push_check", "push_claim"}), Leave(t, l),
             UNCHANGED <<head, elements, sent>>, unsent' \subseteq Elements
      PROVE  ClaimedElements'
  BY <1>0, <1>2 DEF Leave, Goto
<1>3. ASSUME NEW p \in Producers, TryPushCheck(p) PROVE ClaimedElements'
  <2>1. CASE Goto(p, "push_claim")
             /\ UNCHANGED <<head, tail, states, elements, index, element,
                            unsent, sent, received, dropped>>
    BY <1>0, <1>3, <2>1 DEF TryPushCheck, Goto
  <2>2. CASE RefusePush(p) \/ Leave(p, "panicked")
    BY <1>0, <1>2, <1>3, <2>2 DEF TryPushCheck, RefusePush
  <2>. QED
    BY <1>3, <2>1, <2>2 DEF TryPushCheck
<1>4. ASSUME NEW p \in Producers, TryPushClaim(p) PROVE ClaimedElements'
  <2>1. CASE RefusePush(p)
    BY <1>0, <1>2, <1>4, <2>1 DEF TryPushClaim, RefusePush
  <2>2. CASE ClaimHead(p, element[p]) /\ UNCHANGED <<index, element, unsent>>
    <3>1. element[p] \in Elements
      BY <1>0, <1>4 DEF TryPushClaim
    <3>2. sent' \in Seq(Elements) /\ Len(sent') = head + 1 /\ head' = head + 1
      BY <2>2, <3>1, AppendProperties DEF ClaimHead
    <3>. QED
      BY <1>0, <2>2, <3>2 DEF ClaimHead, Goto
  <2>. QED
    BY <1>4, <2>1, <2>2 DEF TryPushClaim
<1>5. ASSUME NEW p \in Producers, AwaitEmpty(p) PROVE ClaimedElements'
  BY <1>0, <1>5 DEF AwaitEmpty, Goto
<1>6. ASSUME NEW p \in Producers, Write(p) PROVE ClaimedElements'
  <2>1. elements' \in [0 .. (Capacity - 1) -> Contents]
    BY <1>0, <1>6 DEF Write
  <2>. QED
    BY <1>0, <1>6, <2>1 DEF Write, Leave, Goto
<1>7. ASSUME NEW p \in Producers, Publish(p) PROVE ClaimedElements'
  BY <1>0, <1>2, <1>7 DEF Publish
<1>8. ASSUME NEW c \in Consumers, CallTryPop(c) PROVE ClaimedElements'
  BY <1>0, <1>8 DEF CallTryPop, Goto
<1>9. ASSUME NEW c \in Consumers, TryPopCheck(c) \/ TryPopClaim(c) PROVE ClaimedElements'
  BY <1>0, <1>2, <1>9 DEF TryPopCheck, TryPopClaim, RefusePop, ClaimTail, Goto
<1>10. ASSUME NEW c \in Consumers, AwaitFull(c) PROVE ClaimedElements'
  BY <1>0, <1>10 DEF AwaitFull, Goto
<1>11. ASSUME NEW c \in Consumers, Read(c) PROVE ClaimedElements'
  <2>1. Slot(index[c]) \in 0 .. (Capacity - 1)
    BY <1>0, SlotRange
  <2>2. element' \in [Threads -> Contents]
    BY <1>0, <1>11, <2>1 DEF Read, Leave
  <2>. QED
    BY <1>0, <1>11, <2>2 DEF Read, Leave, Goto
<1>12. ASSUME NEW c \in Consumers, Release(c) PROVE ClaimedElements'
  BY <1>0, <1>2, <1>12 DEF Release
<1>13. CASE Drop \/ UNCHANGED vars
  BY <1>0, <1>13 DEF Drop, vars
<1>14. \A t \in Threads : ~Push(t) /\ ~Pop(t)
  BY DEF Push, PushOf, Pop, TryCalls
<1>. QED
  BY <1>0, <1>1, <1>3, <1>4, <1>5, <1>6, <1>7, <1>8, <1>9, <1>10, <1>11, <1>12,
     <1>13, <1>14 DEF Next, PushCall, PushStep, PopCall, PopStep

LEMMA StepCountersFaithful ==
  ASSUME TotalOrder, TryCalls, ClaimsInv, CountersFaithful, [Next]_vars
  PROVE  CountersFaithful'
<1>. USE DEF CountersFaithful
<1>0. /\ head \in Nat /\ tail \in Nat /\ Capacity \in Nat /\ index \in [Threads -> Nat]
      /\ pc \in [Threads -> Labels] /\ Producers \subseteq Threads /\ Consumers \subseteq Threads
  BY Queue2Assumption DEF ClaimsInv, Threads
<1>1. ASSUME NEW t \in Threads, NEW l, Goto(t, l), UNCHANGED <<head, tail>>,
             l \notin {"push_claim", "pop_check", "pop_claim"},
             index' = index \/ Leave(t, l) \/ \E i \in Nat : index' = [index EXCEPT ![t] = i]
      PROVE  CountersFaithful'
  BY <1>0, <1>1 DEF Goto, Leave
<1>2. ASSUME NEW p \in Producers, CallTryPush(p) PROVE CountersFaithful'
  BY <1>0, <1>1, <1>2 DEF CallTryPush
<1>3. ASSUME NEW p \in Producers, TryPushCheck(p) PROVE CountersFaithful'
  <2>1. CASE Goto(p, "push_claim") /\ ~LooksFull(index[p])
             /\ UNCHANGED <<head, tail, states, elements, index, element,
                            unsent, sent, received, dropped>>
    BY <1>0, <2>1 DEF LooksFull, Goto
  <2>2. CASE RefusePush(p) \/ (Leave(p, "panicked") /\ UNCHANGED <<head, tail>>)
    BY <1>0, <1>1, <2>2 DEF RefusePush, Leave
  <2>. QED
    BY <1>3, <2>1, <2>2 DEF TryPushCheck
<1>4. ASSUME NEW p \in Producers, TryPushClaim(p) PROVE CountersFaithful'
  BY <1>0, <1>4 DEF TryPushClaim, ClaimHead, RefusePush, Leave, Goto
<1>5. ASSUME NEW p \in Producers, AwaitEmpty(p) \/ Write(p) \/ Publish(p)
      PROVE  CountersFaithful'
  BY <1>0, <1>1, <1>5 DEF AwaitEmpty, Write, Publish, Leave
<1>6. ASSUME NEW c \in Consumers, CallTryPop(c) PROVE CountersFaithful'
  BY <1>0, <1>6 DEF CallTryPop, Goto
<1>7. ASSUME NEW c \in Consumers, TryPopCheck(c) PROVE CountersFaithful'
  BY <1>0, <1>7 DEF TryPopCheck, RefusePop, Leave, Goto
<1>8. ASSUME NEW c \in Consumers, TryPopClaim(c) PROVE CountersFaithful'
  BY <1>0, <1>8 DEF TryPopClaim, ClaimTail, RefusePop, Leave, Goto
<1>9. ASSUME NEW c \in Consumers, AwaitFull(c) \/ Read(c) \/ Release(c)
      PROVE  CountersFaithful'
  BY <1>0, <1>1, <1>9 DEF AwaitFull, Read, Release, Leave
<1>10. CASE Drop \/ UNCHANGED vars
  BY <1>0, <1>10 DEF Drop, vars
<1>11. \A t \in Threads : ~Push(t) /\ ~Pop(t)
  BY DEF Push, PushOf, Pop, TryCalls
<1>. QED
  BY <1>0, <1>2, <1>3, <1>4, <1>5, <1>6, <1>7, <1>8, <1>9, <1>10, <1>11
     DEF Next, PushCall, PushStep, PopCall, PopStep

\* A step claims an index at head, claims one at tail, or leaves the claims alone.
LEMMA ClaimEffect ==
  ASSUME TotalOrder, TryCalls, ClaimsInv, ClaimedElements, CountersFaithful, [Next]_vars
  PROVE  UNCHANGED <<head, tail, sent>> \/ ClaimGets \/ \E v \in Elements : ClaimPuts(v)
<1>. DEFINE Still == UNCHANGED <<head, tail, sent>>
<1>0. /\ head \in Nat /\ tail \in Nat /\ index \in [Threads -> Nat]
      /\ Producers \subseteq Threads /\ Consumers \subseteq Threads
  BY DEF ClaimsInv, Threads
<1>1. ASSUME NEW p \in Producers, TryPushClaim(p)
      PROVE  Still \/ \E v \in Elements : ClaimPuts(v)
  <2>1. CASE head = index[p] /\ ClaimHead(p, element[p]) /\ pc[p] = "push_claim"
    <3>1. element[p] \in Elements /\ head - tail < Capacity
      BY <1>0, <2>1 DEF ClaimedElements, Asking, CountersFaithful
    <3>. QED
      BY <2>1, <3>1 DEF ClaimHead, ClaimPuts
  <2>2. CASE RefusePush(p)
    BY <2>2 DEF RefusePush
  <2>. QED
    BY <1>1, <2>1, <2>2 DEF TryPushClaim
<1>2. ASSUME NEW c \in Consumers, TryPopClaim(c) PROVE Still \/ ClaimGets
  <2>1. CASE tail = index[c] /\ ClaimTail(c) /\ pc[c] = "pop_claim"
    <3>1. tail < head
      BY <1>0, <2>1 DEF CountersFaithful
    <3>. QED
      BY <2>1, <3>1 DEF ClaimTail, ClaimGets
  <2>2. CASE RefusePop(c)
    BY <2>2 DEF RefusePop
  <2>. QED
    BY <1>2, <2>1, <2>2 DEF TryPopClaim
<1>3. ASSUME NEW p \in Producers,
             CallTryPush(p) \/ TryPushCheck(p) \/ AwaitEmpty(p) \/ Write(p) \/ Publish(p)
      PROVE  Still
  BY <1>3 DEF CallTryPush, TryPushCheck, RefusePush, AwaitEmpty, Write, Publish
<1>4. ASSUME NEW c \in Consumers,
             CallTryPop(c) \/ TryPopCheck(c) \/ AwaitFull(c) \/ Read(c) \/ Release(c)
      PROVE  Still
  BY <1>4 DEF CallTryPop, TryPopCheck, RefusePop, AwaitFull, Read, Release
<1>5. Drop \/ UNCHANGED vars => Still
  BY DEF Drop, vars
<1>6. \A t \in Threads : ~Push(t) /\ ~Pop(t)
  BY DEF Push, PushOf, Pop, TryCalls
<1>. QED
  BY <1>0, <1>1, <1>2, <1>3, <1>4, <1>5, <1>6
     DEF Next, PushCall, PushStep, PopCall, PopStep

\* A claim is a step of the abstract queue.
LEMMA StepClaims ==
  ASSUME TotalOrder, TryCalls, ClaimsInv, ClaimedElements, CountersFaithful, [Next]_vars
  PROVE  [Claims!Next]_<<SubSeq(sent, tail + 1, head), SubSeq(sent, 1, tail)>>
<1>0. /\ head \in Nat /\ tail \in Nat /\ tail <= head /\ sent \in Seq(Elements)
      /\ head = Len(sent) /\ head <= Len(sent)
  BY DEF ClaimsInv, ClaimedElements, CountersFaithful
<1>1. CASE UNCHANGED <<head, tail, sent>>
  BY <1>1
<1>2. ASSUME NEW v \in Elements, ClaimPuts(v) PROVE Claims!Put(v)
  <2>1. /\ sent' \in Seq(Elements) /\ Len(sent') = head + 1 /\ sent'[head + 1] = v
        /\ \A i \in 1 .. Len(sent) : sent'[i] = sent[i]
    BY <1>0, <1>2, AppendProperties DEF ClaimPuts
  <2>2. Len(sent) <= Len(sent') /\ head + 1 <= Len(sent')
    BY <1>0, <2>1
  <2>3. SubSeq(sent', tail + 1, head) = SubSeq(sent, tail + 1, head)
    BY <1>0, <2>1, <2>2, SliceKept
  <2>4. SubSeq(sent', tail + 1, head + 1) = Append(SubSeq(sent, tail + 1, head), v)
    BY <1>0, <2>1, <2>2, <2>3, SliceGrows
  <2>5. SubSeq(sent', 1, tail) = SubSeq(sent, 1, tail)
    <3>1. PICK z \in Nat : z = 0
      OBVIOUS
    <3>2. SubSeq(sent', z + 1, tail) = SubSeq(sent, z + 1, tail)
      <4>1. z <= tail /\ tail <= Len(sent)
        BY <1>0, <3>1
      <4>. QED
        BY <1>0, <2>1, <2>2, <4>1, SliceKept
    <3>3. z + 1 = 1
      BY <3>1
    <3>. QED
      BY <3>2, <3>3, Zenon
  <2>6. Len(SubSeq(sent, tail + 1, head)) < Capacity
    <3>1. Len(SubSeq(sent, tail + 1, head)) = head - tail
      BY <1>0, Slice
    <3>. QED
      BY <1>2, <3>1 DEF ClaimPuts
  <2>. QED
    BY <1>2, <2>4, <2>5, <2>6 DEF ClaimPuts, Claims!Put
<1>3. ASSUME ClaimGets PROVE Claims!Get
  <2>1. tail < head /\ tail' = tail + 1 /\ head' = head /\ sent' = sent
    BY <1>3 DEF ClaimGets
  <2>2. tail + 1 \in 1 .. Len(sent) /\ head \in (tail + 1) .. Len(sent) /\ tail + 1 <= Len(sent)
    BY <1>0, <2>1
  <2>3. /\ Head(SubSeq(sent, tail + 1, head)) = sent[tail + 1]
        /\ Tail(SubSeq(sent, tail + 1, head)) = SubSeq(sent, tail + 1 + 1, head)
    BY <1>0, <2>2, HeadTailOfSubSeq
  <2>4. SubSeq(sent, tail + 1, head) # <<>>
    <3>1. Len(SubSeq(sent, tail + 1, head)) = head - tail
      BY <1>0, Slice
    <3>2. PICK q : q = SubSeq(sent, tail + 1, head)
      OBVIOUS
    <3>3. Len(q) # 0
      BY <1>0, <2>1, <3>1, <3>2
    <3>. QED
      BY <3>2, <3>3, EmptySeq
  <2>5. SubSeq(sent, 1, tail + 1) = Append(SubSeq(sent, 1, tail), sent[tail + 1])
    <3>1. PICK z \in Nat : z = 0
      OBVIOUS
    <3>2. SubSeq(sent, z + 1, tail + 1) = Append(SubSeq(sent, z + 1, tail), sent[tail + 1])
      BY <1>0, <2>2, <3>1, SliceGrows
    <3>3. z + 1 = 1
      BY <3>1
    <3>. QED
      BY <3>2, <3>3, Zenon
  <2>. QED
    BY <2>1, <2>3, <2>4, <2>5 DEF Claims!Get
<1>. QED
  BY <1>1, <1>2, <1>3, ClaimEffect DEF Claims!Next

\* With TOTAL_ORDER and try_push and try_pop alone, whatever the counters were
\* when a call read them, the claims make one bounded first-in first-out queue, for
\* any number of threads, every capacity and both values of SPSC.  Which element
\* the pop then finds in its slot is OwnElementUntilCrowded.
THEOREM TotalOrderClaimsRefineFifo ==
  ASSUME TotalOrder, TryCalls PROVE Spec => Claims!Spec
<1>1. Init => Claims!Init
  <2>. SUFFICES ASSUME Init PROVE Claims!Init
    OBVIOUS
  <2>1. head = 0 /\ tail = 0 /\ sent = <<>>
    BY DEF Init
  <2>2. SubSeq(sent, 1, 0) = <<>>
    BY SubSeqEmpty
  <2>. QED
    BY <2>1, <2>2 DEF Claims!Init
<1>2. Init => ClaimsInv /\ ClaimedElements /\ CountersFaithful
  <2>. SUFFICES ASSUME Init PROVE ClaimsInv /\ ClaimedElements /\ CountersFaithful
    OBVIOUS
  <2>1. sent \in Seq(Elements) /\ head = Len(sent)
    BY EmptySeq DEF Init
  <2>. QED
    BY <2>1, Queue2Assumption
       DEF Init, ClaimsInv, OwnersApart, Labels, Claimed, Waiting, ClaimedElements,
           Asking, Contents, CountersFaithful
<1>3. ClaimsInv /\ ClaimedElements /\ CountersFaithful /\ [Next]_vars
      => ClaimsInv' /\ ClaimedElements' /\ CountersFaithful'
  BY StepClaimsInv, StepClaimedElements, StepCountersFaithful
<1>4. ClaimsInv /\ ClaimedElements /\ CountersFaithful /\ [Next]_vars
      => [Claims!Next]_<<SubSeq(sent, tail + 1, head), SubSeq(sent, 1, tail)>>
  BY StepClaims
<1>. QED
  BY <1>1, <1>2, <1>3, <1>4, PTL DEF Spec, Claims!Spec
=============================================================================
