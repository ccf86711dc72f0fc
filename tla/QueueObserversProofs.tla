------------------------ MODULE QueueObserversProofs -------------------------
(***************************************************************************)
(* Proofs, for every number of threads and every capacity, of what the     *)
(* answers of was_size, was_empty and was_full promise to the only thread  *)
(* that pushes or pops, however stale the loads are.                       *)
(***************************************************************************)
EXTENDS QueueObservers, RelaxedCountersProofs

(***************************************************************************)
(* The queue under observation                                             *)
(***************************************************************************)

\* The loads of a question change nothing but the asker's view, which moves up and
\* stays behind the counters.
LEMMA AskingSees ==
  ASSUME TypeOK, ViewsBehind, NEW o \in Observers, LoadHead(o) \/ LoadTail(o)
  PROVE  /\ UNCHANGED <<vars, poppers, pushers>>
         /\ view' \in [Threads -> [head : Nat, tail : Nat]]
         /\ \A t \in Threads :
              /\ view[t].head <= view'[t].head /\ view'[t].head <= head
              /\ view[t].tail <= view'[t].tail /\ view'[t].tail <= tail
         /\ \A t \in Threads : t # o => view'[t] = view[t]
<1>0. /\ head \in Nat /\ tail \in Nat /\ o \in Threads
      /\ view \in [Threads -> [head : Nat, tail : Nat]]
      /\ \A t \in Threads : view[t].head <= head /\ view[t].tail <= tail
  BY ObserversAssumption DEF TypeOK, ViewsBehind
<1>1. CASE LoadHead(o)
  <2>1. PICK h \in view[o].head .. head : view' = [view EXCEPT ![o].head = h]
    BY <1>1 DEF LoadHead, HeadLoads, SeesHead
  <2>. QED
    BY <1>0, <1>1, <2>1 DEF LoadHead
<1>2. CASE LoadTail(o)
  <2>1. PICK t \in view[o].tail .. tail : view' = [view EXCEPT ![o].tail = t]
    BY <1>2 DEF LoadTail, AnswerAt, TailLoads, SeesTail
  <2>. QED
    BY <1>0, <1>2, <2>1 DEF LoadTail
<1>. QED
  BY <1>1, <1>2

LEMMA ObservedIsLoose ==
  TypeOK /\ ViewsBehind /\ [ObservedNext]_observedVars => [LooseNext]_vars
BY RelaxedIsLoose
   DEF ObservedNext, QueueStep, LoadHead, LoadTail, observedVars, allVars

\* All that is proved about the queue with stale loads
RelaxedInv == IInv /\ ViewsBehind /\ RoomLeft /\ SoleView /\ TailAccounted

LEMMA StepRelaxedInv == RelaxedInv /\ [ObservedNext]_observedVars => RelaxedInv'
<1>. SUFFICES ASSUME RelaxedInv, [ObservedNext]_observedVars PROVE RelaxedInv'
  OBVIOUS
<1>0. TypeOK /\ IInv'
  BY ObservedIsLoose, LooseStep DEF RelaxedInv, IInv
<1>1. CASE [RelaxedNext]_allVars
  BY <1>0, <1>1, StepViewsBehind, StepRoomLeft, StepSoleView, StepTailAccounted
     DEF RelaxedInv
<1>2. ASSUME NEW o \in Observers, LoadHead(o) \/ LoadTail(o) PROVE RelaxedInv'
  <2>1. /\ UNCHANGED <<vars, poppers>>
        /\ view' \in [Threads -> [head : Nat, tail : Nat]]
        /\ \A t \in Threads :
             /\ view[t].head <= view'[t].head /\ view'[t].head <= head
             /\ view[t].tail <= view'[t].tail /\ view'[t].tail <= tail
    BY <1>0, <1>2, AskingSees DEF RelaxedInv
  <2>2. ViewsBehind' /\ RoomLeft' /\ TailAccounted'
    BY <2>1
       DEF RelaxedInv, ViewsBehind, RoomLeft, NeverOverfull, TailAccounted,
           PopClaims, vars
  <2>3. SoleView'
    <3>. SUFFICES ASSUME NEW c \in Consumers, poppers \subseteq {c}
                  PROVE  /\ view'[c].tail = tail
                         /\ tail <= view'[c].head
                         /\ pc[c] = "pop_check" => index[c] = tail
                         /\ pc[c] = "pop_cas" => tail < view'[c].head
      BY <2>1 DEF RelaxedInv, SoleView, vars
    <3>1. /\ view[c].tail = tail
          /\ tail <= view[c].head
          /\ pc[c] = "pop_check" => index[c] = tail
          /\ pc[c] = "pop_cas" => tail < view[c].head
      BY DEF RelaxedInv, SoleView
    <3>2. /\ c \in Threads /\ tail \in Nat
          /\ view[c].head \in Nat /\ view'[c].head \in Nat /\ view'[c].tail \in Nat
      BY <1>0, <2>1 DEF RelaxedInv, ViewsBehind, TypeOK, Threads
    <3>3. /\ view[c].head <= view'[c].head
          /\ view[c].tail <= view'[c].tail /\ view'[c].tail <= tail
      BY <2>1, <3>2
    <3>. QED
      BY <3>1, <3>2, <3>3
  <2>. QED
    BY <1>0, <2>2, <2>3 DEF RelaxedInv
<1>. QED
  BY <1>1, <1>2 DEF ObservedNext, QueueStep, observedVars

LEMMA AlwaysRelaxedInv == ObservedSpec => []RelaxedInv
<1>1. RelaxedInit => IInv /\ ViewsBehind
  BY InitTypeOK, InitClaimInv DEF RelaxedInit, IInv, ClaimInv, ViewsBehind, Init
<1>2. RelaxedInit => RoomLeft /\ SoleView /\ TailAccounted
  BY QueueAssumption
     DEF RelaxedInit, Init, RoomLeft, NeverOverfull, SoleView, TailAccounted, Threads
<1>3. ObservedInit => RelaxedInv
  BY <1>1, <1>2 DEF ObservedInit, RelaxedInv
<1>. QED
  BY <1>3, StepRelaxedInv, PTL DEF ObservedSpec

LEMMA SolePopperBound == RelaxedInv => SolePopperNeverOverdraws
<1>. SUFFICES ASSUME RelaxedInv, \A c, d \in poppers : c = d PROVE tail <= head
  BY DEF SolePopperNeverOverdraws
<1>0. head \in Nat /\ tail \in Nat
  BY DEF RelaxedInv, IInv, TypeOK
<1>1. CASE poppers = {}
  BY <1>0, <1>1 DEF RelaxedInv, SoleView
<1>2. ASSUME NEW c \in poppers PROVE tail <= head
  <2>1. c \in Consumers /\ poppers \subseteq {c}
    BY DEF RelaxedInv, SoleView
  <2>. QED
    BY <1>0, <2>1 DEF RelaxedInv, SoleView, ViewsBehind, Threads
<1>. QED
  BY <1>1, <1>2

\* Threads that ask in between change nothing of what holds of the queue under
\* stale loads: its bound, its overdrafts and its order.
THEOREM ObserversHarmless ==
  ObservedSpec => [](/\ NeverOverfull /\ SolePopperNeverOverdraws
                     /\ OverdraftHeldUntilLapped /\ InOrderUntilLapped)
<1>1. RelaxedInv => NeverOverfull /\ InOrderUntilLapped
  BY 
     DEF RelaxedInv, RoomLeft, IInv, SlotsFaithful, InOrderUntilLapped, InOrder,
         Stored
<1>2. RelaxedInv => OverdraftHeldUntilLapped
  BY OverdraftHeld, OverdraftBounded DEF RelaxedInv, OverdraftHeldUntilLapped
<1>. QED
  BY <1>1, <1>2, SolePopperBound, AlwaysRelaxedInv, PTL

(***************************************************************************)
(* What a sole pusher and a sole popper know                               *)
(***************************************************************************)

ObserversOK ==
  /\ asking \in [Observers -> {"nothing", "tail", "panicked"}]
  /\ \A o \in Observers : asking[o] # "nothing" => pc[o] = "idle"
  /\ told \in [Observers -> {"nothing", "room", "element"}]

\* The sole pusher's view of head is exact, and its view of tail within the capacity.
ExactHead ==
  /\ pushers = {} => head = 0
  /\ \A p \in Threads : SolePusher(p) =>
       /\ view[p].head = head
       /\ head - view[p].tail <= Capacity
       /\ pc[p] = "push_check" => index[p] = head
       /\ pc[p] = "push_cas" => index[p] = head /\ head - view[p].tail < Capacity

\* The sole popper's index is tail until it claims.
ExactTail ==
  \A c \in Consumers :
    SolePopper(c) /\ pc[c] \in {"pop_check", "pop_cas"} => index[c] = tail

\* What the sole pusher has been told lasts until it has claimed.
RoomKept ==
  \A o \in Observers :
    told[o] = "room" /\ SolePusher(o) /\ pc[o] \in {"idle", "push_check", "push_cas"} =>
      head - view[o].tail < Capacity

\* So does what the sole popper has been told.
ElementKept ==
  \A o \in Observers \cap Consumers :
    told[o] = "element" /\ SolePopper(o) /\ pc[o] \in {"idle", "pop_check", "pop_cas"} =>
      tail < view[o].head

PromiseInv == ObserversOK /\ ExactHead /\ ExactTail /\ RoomKept /\ ElementKept

LEMMA StepObserversOK ==
  TypeOK /\ ObserversOK /\ [ObservedNext]_observedVars => ObserversOK'
<1>. SUFFICES ASSUME TypeOK, ObserversOK, [ObservedNext]_observedVars PROVE ObserversOK'
  OBVIOUS
<1>1. CASE QueueStep
  BY <1>1 DEF QueueStep, ObserversOK
<1>2. ASSUME NEW o \in Observers, LoadHead(o) PROVE ObserversOK'
  BY <1>2 DEF LoadHead, ObserversOK, vars
<1>3. ASSUME NEW o \in Observers, LoadTail(o) PROVE ObserversOK'
  BY <1>3 DEF LoadTail, AnswerAt, Promise, ObserversOK, vars
<1>4. CASE UNCHANGED observedVars
  BY <1>4 DEF observedVars, allVars, observers, vars, ObserversOK
<1>. QED
  BY <1>1, <1>2, <1>3, <1>4 DEF ObservedNext

\* The producer that claims, and no other, joins the pushers.
LEMMA PushersGrow ==
  ASSUME TypeOK, QueueStep
  PROVE  /\ pushers \subseteq pushers'
         /\ \A p \in Producers : pc[p] # "store" /\ pc'[p] = "store" => p \in pushers'
         /\ (\A p \in Producers : pc[p] = "store" \/ pc'[p] # "store") => pushers' = pushers
BY DEF QueueStep

LEMMA StepExactHead ==
  TypeOK /\ ViewsBehind /\ ExactHead /\ [ObservedNext]_observedVars => ExactHead'
<1>. SUFFICES ASSUME TypeOK, ViewsBehind, ExactHead, [ObservedNext]_observedVars
              PROVE  ExactHead'
  OBVIOUS
<1>0. /\ head \in Nat /\ tail \in Nat /\ Capacity \in Nat \ {0}
      /\ index \in [Threads -> Nat] /\ pc \in [Threads -> Labels]
      /\ view \in [Threads -> [head : Nat, tail : Nat]]
      /\ \A t \in Threads : view[t].head <= head /\ view[t].tail <= tail
  BY QueueAssumption DEF TypeOK, ViewsBehind
<1>1. CASE QueueStep
  <2>. USE DEF ExactHead, SolePusher, Goto, Leave, Threads, HeadLoads, TailLoads, SeesHead,
               SeesTail
  <2>0. /\ pushers \subseteq pushers'
        /\ \A p \in Producers : pc[p] # "store" /\ pc'[p] = "store" => p \in pushers'
        /\ (\A p \in Producers : pc[p] = "store" \/ pc'[p] # "store") => pushers' = pushers
    BY <1>1, PushersGrow
  <2>1. ASSUME NEW p \in Producers, LoadHeadToPush(p) PROVE ExactHead'
    BY <1>0, <2>0, <2>1 DEF LoadHeadToPush, CallTryPushAt
  <2>2. ASSUME NEW p \in Producers, LoadTailToPush(p) PROVE ExactHead'
    BY <1>0, <2>0, <2>2 DEF LoadTailToPush, TryPushCheckAt, RefusePush, LooksFull
  <2>3. ASSUME NEW p \in Producers, ClaimToPush(p) PROVE ExactHead'
    BY <1>0, <2>0, <2>3 DEF ClaimToPush, TryPushClaim, ClaimHead, RefusePush
  <2>4. ASSUME NEW c \in Consumers, LoadTailToPop(c) PROVE ExactHead'
    BY <1>0, <2>0, <2>4 DEF LoadTailToPop, CallTryPopAt
  <2>5. ASSUME NEW c \in Consumers, LoadHeadToPop(c) PROVE ExactHead'
    BY <1>0, <2>0, <2>5 DEF LoadHeadToPop, TryPopCheckAt, RefusePop
  <2>6. ASSUME NEW c \in Consumers, ClaimToPop(c) PROVE ExactHead'
    BY <1>0, <2>0, <2>6 DEF ClaimToPop, TryPopClaim, ClaimTail, RefusePop, relaxed
  <2>7. CASE SlotStep
    BY <1>0, <2>0, <2>7 DEF SlotStep, Store, Take, Clear, relaxed
  <2>. QED
    BY <1>1, <2>1, <2>2, <2>3, <2>4, <2>5, <2>6, <2>7 DEF QueueStep, RelaxedNext
<1>2. ASSUME NEW o \in Observers, LoadHead(o) \/ LoadTail(o) PROVE ExactHead'
  <2>1. /\ UNCHANGED <<vars, poppers, pushers>>
        /\ view' \in [Threads -> [head : Nat, tail : Nat]]
        /\ \A t \in Threads :
             /\ view[t].head <= view'[t].head /\ view'[t].head <= head
             /\ view[t].tail <= view'[t].tail /\ view'[t].tail <= tail
    BY <1>2, AskingSees
  <2>. QED
    BY <1>0, <2>1 DEF ExactHead, SolePusher, vars
<1>3. CASE UNCHANGED observedVars
  BY <1>3 DEF observedVars, allVars, relaxed, observers, vars, ExactHead, SolePusher
<1>. QED
  BY <1>1, <1>2, <1>3 DEF ObservedNext

LEMMA StepExactTail ==
  TypeOK /\ ViewsBehind /\ SoleView /\ ExactTail /\ [ObservedNext]_observedVars => ExactTail'
<1>. SUFFICES ASSUME TypeOK, ViewsBehind, SoleView, ExactTail, [ObservedNext]_observedVars
              PROVE  ExactTail'
  OBVIOUS
<1>0. /\ tail \in Nat /\ index \in [Threads -> Nat] /\ pc \in [Threads -> Labels]
      /\ \A c \in Consumers : poppers \subseteq {c} => view[c].tail = tail
  BY DEF TypeOK, SoleView
<1>1. CASE RelaxedNext
  <2>. USE DEF ExactTail, SolePopper, Goto, Leave, Threads
  <2>1. ASSUME NEW p \in Producers, LoadHeadToPush(p) PROVE ExactTail'
    BY <1>0, <2>1 DEF LoadHeadToPush, CallTryPushAt
  <2>2. ASSUME NEW p \in Producers, LoadTailToPush(p) PROVE ExactTail'
    BY <1>0, <2>2 DEF LoadTailToPush, TryPushCheckAt, RefusePush
  <2>3. ASSUME NEW p \in Producers, ClaimToPush(p) PROVE ExactTail'
    BY <1>0, <2>3 DEF ClaimToPush, TryPushClaim, ClaimHead, RefusePush
  <2>4. ASSUME NEW c \in Consumers, LoadTailToPop(c) PROVE ExactTail'
    BY <1>0, <2>4 DEF LoadTailToPop, CallTryPopAt, TailLoads
  <2>5. ASSUME NEW c \in Consumers, LoadHeadToPop(c) PROVE ExactTail'
    BY <1>0, <2>5 DEF LoadHeadToPop, TryPopCheckAt, RefusePop
  <2>6. ASSUME NEW c \in Consumers, ClaimToPop(c) PROVE ExactTail'
    <3>1. CASE RefusePop(c)
      BY <1>0, <2>6, <3>1 DEF ClaimToPop, RefusePop, relaxed
    <3>2. CASE ~RefusePop(c)
      <4>1. /\ tail' = tail + 1 /\ pc' = [pc EXCEPT ![c] = "wait"]
            /\ poppers' = poppers \cup {c}
        BY <1>0, <2>6, <3>2 DEF ClaimToPop, TryPopClaim, ClaimTail
      <4>. QED
        BY <1>0, <4>1
    <3>. QED
      BY <3>1, <3>2
  <2>7. CASE SlotStep
    BY <1>0, <2>7 DEF SlotStep, Store, Take, Clear, relaxed
  <2>. QED
    BY <1>1, <2>1, <2>2, <2>3, <2>4, <2>5, <2>6, <2>7 DEF RelaxedNext
<1>2. ASSUME UNCHANGED <<vars, poppers>> PROVE ExactTail'
  BY <1>2 DEF ExactTail, SolePopper, vars
<1>. QED
  BY <1>1, <1>2
     DEF ObservedNext, QueueStep, LoadHead, LoadTail, observedVars, allVars, relaxed

LEMMA StepRoomKept ==
  TypeOK /\ ViewsBehind /\ ObserversOK /\ ExactHead /\ RoomKept
    /\ [ObservedNext]_observedVars => RoomKept'
<1>. SUFFICES ASSUME TypeOK, ViewsBehind, ObserversOK, ExactHead, RoomKept,
                     [ObservedNext]_observedVars
              PROVE  RoomKept'
  OBVIOUS
<1>0. /\ head \in Nat /\ tail \in Nat /\ Capacity \in Nat
      /\ index \in [Threads -> Nat] /\ pc \in [Threads -> Labels]
      /\ view \in [Threads -> [head : Nat, tail : Nat]]
      /\ Observers \subseteq Threads
  BY QueueAssumption, ObserversAssumption DEF TypeOK, ViewsBehind
<1>1. CASE QueueStep
  <2>. USE DEF RoomKept, SolePusher, Goto, Leave, Threads, HeadLoads, TailLoads, SeesHead,
               SeesTail
  <2>0. /\ pushers \subseteq pushers'
        /\ \A p \in Producers : pc[p] # "store" /\ pc'[p] = "store" => p \in pushers'
        /\ told' = [o \in Observers |-> IF Returns(o) THEN "nothing" ELSE told[o]]
    BY <1>1, PushersGrow DEF QueueStep
  <2>1. ASSUME NEW p \in Producers, LoadHeadToPush(p) PROVE RoomKept'
    BY <1>0, <2>0, <2>1 DEF LoadHeadToPush, CallTryPushAt
  <2>2. ASSUME NEW p \in Producers, LoadTailToPush(p) PROVE RoomKept'
    BY <1>0, <2>0, <2>2 DEF LoadTailToPush, TryPushCheckAt, RefusePush
  <2>3. ASSUME NEW p \in Producers, ClaimToPush(p) PROVE RoomKept'
    BY <1>0, <2>0, <2>3 DEF ClaimToPush, TryPushClaim, ClaimHead, RefusePush
  <2>4. ASSUME NEW c \in Consumers, LoadTailToPop(c) PROVE RoomKept'
    BY <1>0, <2>0, <2>4 DEF LoadTailToPop, CallTryPopAt
  <2>5. ASSUME NEW c \in Consumers, LoadHeadToPop(c) PROVE RoomKept'
    BY <1>0, <2>0, <2>5 DEF LoadHeadToPop, TryPopCheckAt, RefusePop, Returns
  <2>6. ASSUME NEW c \in Consumers, ClaimToPop(c) PROVE RoomKept'
    BY <1>0, <2>0, <2>6
       DEF ClaimToPop, TryPopClaim, ClaimTail, RefusePop, relaxed, Returns
  <2>7. CASE SlotStep
    BY <1>0, <2>0, <2>7 DEF SlotStep, Store, Take, Clear, relaxed, Returns
  <2>. QED
    BY <1>1, <2>1, <2>2, <2>3, <2>4, <2>5, <2>6, <2>7 DEF QueueStep, RelaxedNext
<1>2. ASSUME NEW o \in Observers, LoadHead(o) \/ LoadTail(o) PROVE RoomKept'
  <2>1. /\ UNCHANGED <<vars, poppers, pushers>>
        /\ view' \in [Threads -> [head : Nat, tail : Nat]]
        /\ \A t \in Threads : view[t].tail <= view'[t].tail
    BY <1>2, AskingSees
  <2>2. ASSUME NEW n \in Observers, told'[n] = "room", told[n] = "room",
               SolePusher(n), pc[n] \in {"idle", "push_check", "push_cas"}
        PROVE  head - view'[n].tail < Capacity
    BY <1>0, <2>1, <2>2 DEF RoomKept
  <2>3. ASSUME told'[o] = "room", told'[o] # told[o], SolePusher(o)
        PROVE  head - view'[o].tail < Capacity
    <3>1. LoadTail(o)
      BY <1>2, <2>3 DEF LoadHead
    <3>2. PICK q \in Questions, t \in TailLoads(o) : AnswerAt(o, q, t)
      BY <3>1 DEF LoadTail
    <3>3. ~FullAnswer(view[o].head, t)
      BY <2>3, <3>2 DEF AnswerAt, Promise, ObserversOK
    <3>4. t \in Nat /\ t >= view[o].tail /\ view'[o].tail = t
      BY <1>0, <3>2 DEF AnswerAt, TailLoads, SeesTail
    <3>5. view[o].head = head /\ head - view[o].tail <= Capacity
      BY <1>0, <2>3 DEF ExactHead
    <3>. QED
      BY <1>0, <3>3, <3>4, <3>5 DEF FullAnswer, SizeAnswer
  <2>4. \A n \in Observers \ {o} : told'[n] = told[n]
    BY <1>2 DEF LoadHead, LoadTail, AnswerAt, ObserversOK
  <2>. QED
    BY <2>1, <2>2, <2>3, <2>4 DEF RoomKept, SolePusher, vars
<1>3. CASE UNCHANGED observedVars
  BY <1>3 DEF observedVars, allVars, relaxed, observers, vars, RoomKept, SolePusher
<1>. QED
  BY <1>1, <1>2, <1>3 DEF ObservedNext

LEMMA StepElementKept ==
  TypeOK /\ ViewsBehind /\ SoleView /\ ObserversOK /\ ElementKept
    /\ [ObservedNext]_observedVars => ElementKept'
<1>. SUFFICES ASSUME TypeOK, ViewsBehind, SoleView, ObserversOK, ElementKept,
                     [ObservedNext]_observedVars
              PROVE  ElementKept'
  OBVIOUS
<1>0. /\ head \in Nat /\ tail \in Nat
      /\ index \in [Threads -> Nat] /\ pc \in [Threads -> Labels]
      /\ view \in [Threads -> [head : Nat, tail : Nat]]
      /\ \A t \in Threads : view[t].head <= head /\ view[t].tail <= tail
      /\ Observers \subseteq Threads
  BY ObserversAssumption DEF TypeOK, ViewsBehind
<1>1. CASE QueueStep
  <2>. USE DEF ElementKept, SolePopper, Goto, Leave, Threads, HeadLoads, TailLoads,
               SeesHead, SeesTail
  <2>0. told' = [o \in Observers |-> IF Returns(o) THEN "nothing" ELSE told[o]]
    BY <1>1 DEF QueueStep
  <2>1. ASSUME NEW p \in Producers, LoadHeadToPush(p) PROVE ElementKept'
    BY <1>0, <2>0, <2>1 DEF LoadHeadToPush, CallTryPushAt
  <2>2. ASSUME NEW p \in Producers, LoadTailToPush(p) PROVE ElementKept'
    BY <1>0, <2>0, <2>2 DEF LoadTailToPush, TryPushCheckAt, RefusePush, Returns
  <2>3. ASSUME NEW p \in Producers, ClaimToPush(p) PROVE ElementKept'
    BY <1>0, <2>0, <2>3 DEF ClaimToPush, TryPushClaim, ClaimHead, RefusePush, Returns
  <2>4. ASSUME NEW c \in Consumers, LoadTailToPop(c) PROVE ElementKept'
    BY <1>0, <2>0, <2>4 DEF LoadTailToPop, CallTryPopAt
  <2>5. ASSUME NEW c \in Consumers, LoadHeadToPop(c) PROVE ElementKept'
    BY <1>0, <2>0, <2>5 DEF LoadHeadToPop, TryPopCheckAt, RefusePop
  <2>6. ASSUME NEW c \in Consumers, ClaimToPop(c) PROVE ElementKept'
    <3>1. CASE RefusePop(c)
      BY <1>0, <2>0, <2>6, <3>1
         DEF ClaimToPop, TryPopClaim, RefusePop, relaxed, Returns
    <3>2. CASE ~RefusePop(c)
      <4>1. /\ tail' = tail + 1 /\ pc' = [pc EXCEPT ![c] = "wait"] /\ head' = head
            /\ view' = [view EXCEPT ![c].tail = tail + 1] /\ poppers' = poppers \cup {c}
        BY <1>0, <2>6, <3>2 DEF ClaimToPop, TryPopClaim, ClaimTail
      <4>. QED
        BY <1>0, <2>0, <4>1 DEF Returns
    <3>. QED
      BY <3>1, <3>2
  <2>7. CASE SlotStep
    BY <1>0, <2>0, <2>7 DEF SlotStep, Store, Take, Clear, relaxed, Returns
  <2>. QED
    BY <1>1, <2>1, <2>2, <2>3, <2>4, <2>5, <2>6, <2>7 DEF QueueStep, RelaxedNext
<1>2. ASSUME NEW o \in Observers, LoadHead(o) \/ LoadTail(o) PROVE ElementKept'
  <2>1. /\ UNCHANGED <<vars, poppers, pushers>>
        /\ view' \in [Threads -> [head : Nat, tail : Nat]]
        /\ \A t \in Threads : view[t].head <= view'[t].head
    BY <1>2, AskingSees
  <2>2. ASSUME NEW n \in Observers \cap Consumers, told[n] = "element",
               SolePopper(n), pc[n] \in {"idle", "pop_check", "pop_cas"}
        PROVE  tail < view'[n].head
    BY <1>0, <2>1, <2>2 DEF ElementKept
  <2>3. ASSUME o \in Consumers, told'[o] = "element", told'[o] # told[o], SolePopper(o)
        PROVE  tail < view'[o].head
    <3>1. LoadTail(o)
      BY <1>2, <2>3 DEF LoadHead
    <3>2. PICK q \in Questions, t \in TailLoads(o) : AnswerAt(o, q, t)
      BY <3>1 DEF LoadTail
    <3>3. ~EmptyAnswer(view[o].head, t)
      BY <2>3, <3>2 DEF AnswerAt, Promise, ObserversOK
    <3>4. view[o].tail = tail /\ tail <= view[o].head
      BY <2>3 DEF SoleView, SolePopper
    <3>5. t = tail /\ view'[o].head = view[o].head
      BY <1>0, <3>2, <3>4 DEF AnswerAt, TailLoads, SeesTail
    <3>6. view[o].head \in Nat
      BY <1>0
    <3>. QED
      BY <1>0, <3>3, <3>4, <3>5, <3>6 DEF EmptyAnswer
  <2>4. \A n \in Observers \ {o} : told'[n] = told[n]
    BY <1>2 DEF LoadHead, LoadTail, AnswerAt, ObserversOK
  <2>. QED
    BY <2>1, <2>2, <2>3, <2>4 DEF ElementKept, SolePopper, vars
<1>3. CASE UNCHANGED observedVars
  BY <1>3 DEF observedVars, allVars, relaxed, observers, vars, ElementKept, SolePopper
<1>. QED
  BY <1>1, <1>2, <1>3 DEF ObservedNext

LEMMA AlwaysPromiseInv == ObservedSpec => [](RelaxedInv /\ PromiseInv)
<1>1. ObservedInit => PromiseInv
  BY QueueAssumption, ObserversAssumption
     DEF ObservedInit, RelaxedInit, Init, PromiseInv, ObserversOK, ExactHead,
         ExactTail, RoomKept, ElementKept, Threads
<1>2. RelaxedInv /\ PromiseInv /\ [ObservedNext]_observedVars => PromiseInv'
  BY StepObserversOK, StepExactHead, StepExactTail, StepRoomKept, StepElementKept
     DEF RelaxedInv, IInv, PromiseInv
<1>. QED
  BY <1>1, <1>2, AlwaysRelaxedInv, PTL DEF ObservedSpec

(***************************************************************************)
(* The promises                                                            *)
(***************************************************************************)

\* A try_push that returns without a claim is one of a thread's own steps: its
\* second load, or its compare_exchange.
LEMMA RefusalOfPush ==
  ASSUME TypeOK, [ObservedNext]_observedVars, NEW p \in Threads, PushRefused(p)
  PROVE  /\ UNCHANGED <<head, tail>>
         /\ \/ pc[p] = "push_check"
               /\ \E i \in TailLoads(p) : LooksFull(index[p], i)
            \/ pc[p] = "push_cas" /\ head # index[p]
<1>0. pc \in [Threads -> Labels]
  BY DEF TypeOK
<1>. USE DEF PushRefused, Goto, Leave, Threads
<1>1. RelaxedNext
  BY DEF ObservedNext, QueueStep, LoadHead, LoadTail, observedVars, allVars, vars
<1>2. ASSUME NEW q \in Producers, LoadHeadToPush(q) PROVE FALSE
  BY <1>0, <1>2 DEF LoadHeadToPush, CallTryPushAt
<1>3. ASSUME NEW q \in Producers, LoadTailToPush(q)
      PROVE  /\ q = p /\ pc[p] = "push_check" /\ UNCHANGED <<head, tail>>
             /\ \E i \in TailLoads(p) : LooksFull(index[p], i)
  BY <1>0, <1>3 DEF LoadTailToPush, TryPushCheckAt, RefusePush
<1>4. ASSUME NEW q \in Producers, ClaimToPush(q)
      PROVE  q = p /\ pc[p] = "push_cas" /\ head # index[p] /\ UNCHANGED <<head, tail>>
  BY <1>0, <1>4 DEF ClaimToPush, TryPushClaim, ClaimHead, RefusePush
<1>5. ASSUME NEW c \in Consumers,
             LoadTailToPop(c) \/ LoadHeadToPop(c) \/ ClaimToPop(c)
      PROVE  FALSE
  BY <1>0, <1>5
     DEF LoadTailToPop, CallTryPopAt, LoadHeadToPop, TryPopCheckAt, ClaimToPop,
         TryPopClaim, ClaimTail, RefusePop
<1>6. ~SlotStep
  BY <1>0 DEF SlotStep, Store, Take, Clear
<1>. QED
  BY <1>1, <1>2, <1>3, <1>4, <1>5, <1>6 DEF RelaxedNext

\* A try_pop that returns without a claim, likewise
LEMMA RefusalOfPop ==
  ASSUME TypeOK, [ObservedNext]_observedVars, NEW c \in Threads, PopRefused(c)
  PROVE  \/ pc[c] = "pop_check" /\ index[c] \in HeadLoads(c)
         \/ pc[c] = "pop_cas" /\ tail # index[c]
<1>0. pc \in [Threads -> Labels]
  BY DEF TypeOK
<1>. USE DEF PopRefused, Goto, Leave, Threads
<1>1. RelaxedNext
  BY DEF ObservedNext, QueueStep, LoadHead, LoadTail, observedVars, allVars, vars
<1>2. ASSUME NEW q \in Producers,
             LoadHeadToPush(q) \/ LoadTailToPush(q) \/ ClaimToPush(q)
      PROVE  FALSE
  BY <1>0, <1>2
     DEF LoadHeadToPush, CallTryPushAt, LoadTailToPush, TryPushCheckAt, ClaimToPush,
         TryPushClaim, ClaimHead, RefusePush
<1>3. ASSUME NEW d \in Consumers, LoadTailToPop(d) PROVE FALSE
  BY <1>0, <1>3 DEF LoadTailToPop, CallTryPopAt
<1>4. ASSUME NEW d \in Consumers, LoadHeadToPop(d)
      PROVE  pc[c] = "pop_check" /\ index[c] \in HeadLoads(c)
  BY <1>0, <1>4 DEF LoadHeadToPop, TryPopCheckAt, RefusePop
<1>5. ASSUME NEW d \in Consumers, ClaimToPop(d)
      PROVE  pc[c] = "pop_cas" /\ tail # index[c]
  BY <1>0, <1>5 DEF ClaimToPop, TryPopClaim, ClaimTail, RefusePop
<1>6. ~SlotStep
  BY <1>0 DEF SlotStep, Store, Take, Clear
<1>. QED
  BY <1>1, <1>2, <1>3, <1>4, <1>5, <1>6 DEF RelaxedNext

\* To the only thread that pushes, a was_full that says false is a promise of room,
\* for every number of other threads and however stale its loads: try_push refuses
\* the next element only where pops have overdrawn the queue.
THEOREM NotFullIsKept == ObservedSpec => NotFullMeansRoom
<1>1. ASSUME RelaxedInv, PromiseInv, [ObservedNext]_observedVars,
             NEW o \in Observers \cap Producers,
             told[o] = "room", SolePusher(o), PushRefused(o)
      PROVE  head < tail
  <2>0. /\ TypeOK /\ o \in Threads
        /\ head \in Nat /\ tail \in Nat /\ Capacity \in Nat
        /\ view[o].tail \in Nat
    BY QueueAssumption, <1>1
       DEF RelaxedInv, IInv, TypeOK, ViewsBehind, Threads
  <2>1. head - view[o].tail < Capacity
    BY <1>1 DEF PromiseInv, RoomKept, PushRefused
  <2>2. /\ pc[o] = "push_check" => index[o] = head
        /\ pc[o] = "push_cas" => index[o] = head
    BY <1>1, <2>0 DEF PromiseInv, ExactHead
  <2>3. PICK i \in TailLoads(o) : LooksFull(head, i)
    BY <1>1, <2>0, <2>2, RefusalOfPush
  <2>. QED
    BY <2>0, <2>1, <2>3 DEF TailLoads, LooksFull
<1>2. RelaxedInv /\ PromiseInv /\ [ObservedNext]_observedVars =>
        [\A o \in Observers \cap Producers :
           told[o] = "room" /\ SolePusher(o) /\ PushRefused(o) => head < tail]_observedVars
  BY <1>1
<1>. QED
  BY <1>2, AlwaysPromiseInv, PTL DEF ObservedSpec, NotFullMeansRoom

\* To the only thread that pops, a was_empty that says false is a promise of an
\* element, for every number of other threads and however stale its loads: its next
\* try_pop is not refused.
THEOREM NotEmptyIsKept == ObservedSpec => NotEmptyMeansElement
<1>1. ASSUME RelaxedInv, PromiseInv, [ObservedNext]_observedVars,
             NEW o \in Observers \cap Consumers,
             told[o] = "element", SolePopper(o), PopRefused(o)
      PROVE  FALSE
  <2>0. /\ TypeOK /\ o \in Threads /\ o \in Consumers
        /\ head \in Nat /\ tail \in Nat /\ view[o].head \in Nat
    BY <1>1 DEF RelaxedInv, IInv, TypeOK, ViewsBehind, Threads
  <2>1. tail < view[o].head
    BY <1>1 DEF PromiseInv, ElementKept, PopRefused
  <2>2. index[o] = tail
    BY <1>1, <2>0 DEF PromiseInv, ExactTail, PopRefused
  <2>3. index[o] \in HeadLoads(o)
    BY <1>1, <2>0, <2>2, RefusalOfPop
  <2>. QED
    BY <2>0, <2>1, <2>2, <2>3 DEF HeadLoads
<1>2. RelaxedInv /\ PromiseInv /\ [ObservedNext]_observedVars =>
        [\A o \in Observers \cap Consumers :
           told[o] = "element" /\ SolePopper(o) => ~PopRefused(o)]_observedVars
  BY <1>1
<1>. QED
  BY <1>2, AlwaysPromiseInv, PTL DEF ObservedSpec, NotEmptyMeansElement

\* However stale its loads, was_size never reports too much to the only thread that
\* pops, nor too little to the only thread that pushes.
THEOREM SizeIsOnSafeSide == ObservedSpec => SizeOnSafeSide
<1>. DEFINE Size(o) == SizeAnswer(view[o].head, view'[o].tail)
            Safe(o) == /\ SolePopper(o) => 0 <= Size(o) /\ Size(o) <= head - tail
                       /\ SolePusher(o) => head - tail <= Size(o) /\ Size(o) <= Capacity
<1>1. ASSUME RelaxedInv, PromiseInv, [ObservedNext]_observedVars,
             NEW o \in Observers, Answered(o)
      PROVE  Safe(o)
  <2>0. /\ o \in Threads /\ o \in Producers \cup Consumers
        /\ head \in Nat /\ tail \in Nat /\ Capacity \in Nat
        /\ view \in [Threads -> [head : Nat, tail : Nat]]
        /\ view[o].head <= head /\ view[o].tail <= tail
        /\ poppers \subseteq Consumers
        /\ asking \in [Observers -> {"nothing", "tail", "panicked"}]
    BY QueueAssumption, ObserversAssumption, <1>1
       DEF RelaxedInv, PromiseInv, ObserversOK, IInv, TypeOK, ViewsBehind, SoleView,
           Threads
  <2>1. LoadTail(o)
    BY <1>1, <2>0
       DEF ObservedNext, QueueStep, LoadHead, LoadTail, AnswerAt, Answered,
           observedVars, observers
  <2>2. PICK t \in TailLoads(o) : view' = [view EXCEPT ![o].tail = t]
    BY <2>1 DEF LoadTail, AnswerAt, SeesTail
  <2>3. /\ view'[o].tail = t /\ t \in Nat /\ view[o].tail \in Nat /\ view[o].head \in Nat
        /\ view[o].tail <= t /\ t <= tail
    BY <2>0, <2>2 DEF TailLoads
  <2>4. Size(o) = view[o].head - t
    BY <2>3 DEF SizeAnswer
  <2>5. ASSUME SolePopper(o) PROVE 0 <= Size(o) /\ Size(o) <= head - tail
    <3>1. view[o].head >= tail /\ t = tail
      <4>1. CASE poppers = {}
        BY <2>0, <2>3, <4>1, <1>1 DEF RelaxedInv, SoleView
      <4>2. CASE o \in Consumers
        BY <2>0, <2>3, <2>5, <4>2, <1>1 DEF RelaxedInv, SoleView, SolePopper
      <4>. QED
        BY <2>0, <2>5, <4>1, <4>2 DEF SolePopper
    <3>. QED
      BY <2>0, <2>3, <2>4, <3>1
  <2>6. ASSUME SolePusher(o) PROVE head - tail <= Size(o) /\ Size(o) <= Capacity
    <3>1. view[o].head = head /\ head - view[o].tail <= Capacity
      BY <1>1, <2>0, <2>6 DEF PromiseInv, ExactHead
    <3>. QED
      BY <2>0, <2>3, <2>4, <3>1
  <2>. QED
    BY <2>5, <2>6
<1>2. RelaxedInv /\ PromiseInv /\ [ObservedNext]_observedVars =>
        [\A o \in Observers : Answered(o) => Safe(o)]_observedVars
  BY <1>1
<1>. QED
  BY <1>2, AlwaysPromiseInv, PTL DEF ObservedSpec, SizeOnSafeSide
=============================================================================
