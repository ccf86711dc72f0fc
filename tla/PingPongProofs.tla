--------------------------- MODULE PingPongProofs ---------------------------
(***************************************************************************)
(* Proofs about the two threads of PingPong, for any number of rounds,     *)
(* every capacity and both kinds of queue, that they go in lock step: no   *)
(* push ever waits, one element at most is on its way, and the threads     *)
(* never wait for each other.                                              *)
(***************************************************************************)
EXTENDS PingPongInvariant, TLAPS

\* Both queues have the same slots.
LEMMA SlotRange ==
  ASSUME NEW i \in Nat PROVE Q1!Slot(i) \in Ring /\ Q2!Slot(i) = Q1!Slot(i)
BY PingPongAssumption DEF Q1!Slot, Q2!Slot, Ring

\* A slot becomes full, and empty again.
LEMMA Fill ==
  ASSUME NEW states \in [Ring -> {"EMPTY", "FULL"}], NEW n \in Nat, OneFull(states, n, n)
  PROVE  OneFull([states EXCEPT ![Q1!Slot(n)] = "FULL"], n, n + 1)
BY SlotRange DEF OneFull

LEMMA Clear ==
  ASSUME NEW states \in [Ring -> {"EMPTY", "FULL"}], NEW n \in Nat,
         OneFull(states, n, n + 1)
  PROVE  OneFull([states EXCEPT ![Q1!Slot(n)] = "EMPTY"], n + 1, n + 1)
BY SlotRange DEF OneFull

LEMMA NoneFull ==
  ASSUME NEW states, NEW n \in Int, OneFull(states, n, n), NEW x \in DOMAIN states
  PROVE  states[x] # "FULL"
BY DEF OneFull

\* The four turns, and what tells them apart
LEMMA Turns ==
  ASSUME NEW n \in Nat
  PROVE  /\ InTurn(n, n, n, n) /\ InTurn(n, n, n, n + 1)
         /\ InTurn(n, n, n + 1, n + 1) /\ InTurn(n, n + 1, n + 1, n + 1)
BY DEF InTurn

LEMMA WhoseTurn ==
  ASSUME NEW g2 \in Nat, NEW p2 \in Int, NEW g1 \in Nat, NEW p1 \in Int,
         InTurn(g2, p2, g1, p1)
  PROVE  /\ p1 = g2 => p2 = g2 /\ g1 = g2
         /\ g1 < p1 => p2 = g2 /\ g1 = g2 /\ p1 = g2 + 1
         /\ p2 < g1 => p2 = g2 /\ g1 = g2 + 1 /\ p1 = g2 + 1
         /\ g2 < p2 => p2 = g2 + 1 /\ g1 = g2 + 1 /\ p1 = g2 + 1
BY DEF InTurn

LEMMA CountTypes ==
  ASSUME PingPongInv PROVE Puts1 \in Int /\ Gets1 \in Nat /\ Puts2 \in Int /\ Gets2 \in Nat
BY 
   DEF PingPongInv, TypeOK, FirstOK, SecondOK, QueueOK, Puts1, Gets1, Puts2, Gets2,
       One

\* What a thread that leaves its call does to the queue's variables
LEMMA LeaveTypes ==
  ASSUME NEW t \in Both, NEW pc \in [Both -> Labels], NEW index \in [Both -> Int],
         NEW element \in [Both -> Contents]
  PROVE  /\ [pc EXCEPT ![t] = "idle"] \in [Both -> Labels]
         /\ [index EXCEPT ![t] = 0] \in [Both -> Int]
         /\ [element EXCEPT ![t] = Uninit] \in [Both -> Contents]
BY DEF Labels, Contents

LEMMA MarkTypes ==
  ASSUME NEW states \in [Ring -> {"EMPTY", "FULL"}], NEW x, NEW v \in {"EMPTY", "FULL"}
  PROVE  [states EXCEPT ![x] = v] \in [Ring -> {"EMPTY", "FULL"}]
OBVIOUS

LEMMA InitInv == Init => PingPongInv
<1>. SUFFICES ASSUME Init PROVE PingPongInv
  OBVIOUS
<1>. USE PingPongAssumption DEF Init, Q1!Init, Q2!Init, Q1!Threads, Q2!Threads
<1>1. TypeOK
  BY DEF TypeOK, ThreadsOK, FirstOK, SecondOK, QueueOK, Both, Ring, Contents, Labels,
         PushLabels, PopLabels
<1>2. CountsFollowRounds
  BY DEF CountsFollowRounds, One
<1>3. OneCallEach
  BY DEF OneCallEach
<1>4. LockStep
  <2>1. Gets2 = 0 /\ Puts2 = 0 /\ Gets1 = 0 /\ Puts1 = 0
    BY DEF Puts1, Gets1, Puts2, Gets2, One, Unmarked
  <2>2. OneFull(states1, 0, 0) /\ OneFull(states2, 0, 0)
    BY DEF OneFull
  <2>. QED
    BY <2>1, <2>2, Turns DEF LockStep
<1>5. TakenWhileFull
  BY DEF TakenWhileFull
<1>. QED
  BY <1>1, <1>2, <1>3, <1>4, <1>5 DEF PingPongInv

(***************************************************************************)
(* Ping                                                                    *)
(***************************************************************************)

LEMMA PingPushStep == PingPongInv /\ PingPush => PingPongInv'
<1>. SUFFICES ASSUME PingPongInv, PingPush PROVE PingPongInv'
  OBVIOUS
<1>. USE PingPongAssumption DEF PingPongInv
<1>1. /\ at[Ping] = "push" /\ at' = [at EXCEPT ![Ping] = "pop"]
      /\ pc1[Ping] = "idle" /\ pc2[Ping] = "idle"
      /\ round[Ping] < Rounds
      /\ UNCHANGED <<round, second>>
  BY DEF PingPush, Calls
<1>2. /\ head1' = head1 + 1 /\ sent1' = Append(sent1, round[Ping])
      /\ pc1' = [pc1 EXCEPT ![Ping] = "offer"]
      /\ index1' = [index1 EXCEPT ![Ping] = head1]
      /\ element1' = [element1 EXCEPT ![Ping] = round[Ping]]
      /\ UNCHANGED <<tail1, states1, elements1, received1>>
  BY DEF PingPush, Q1!PushOf, Q1!ClaimHead, Q1!Goto
<1>3. round[Ping] \in Contents
  BY <1>1 DEF TypeOK, ThreadsOK, Both, Contents, Values
<1>4. TypeOK'
  <2>1. FirstOK'
    BY <1>1, <1>2, <1>3
       DEF TypeOK, FirstOK, QueueOK, Both, Labels, PushLabels, CountsFollowRounds
  <2>2. SecondOK'
    BY <1>1 DEF TypeOK, SecondOK, second
  <2>3. ThreadsOK'
    BY <1>1, <1>2
       DEF TypeOK, ThreadsOK, FirstOK, QueueOK, Both, second, PushLabels, PopLabels
  <2>. QED
    BY <2>1, <2>2, <2>3 DEF TypeOK
<1>5. Len(sent1') = Len(sent1) + 1
  BY <1>2, <1>3 DEF TypeOK, ThreadsOK, FirstOK, QueueOK
<1>6. CountsFollowRounds'
  BY <1>1, <1>2, <1>5
     DEF TypeOK, ThreadsOK, FirstOK, QueueOK, CountsFollowRounds, Both, second, One
<1>7. OneCallEach'
  BY <1>1, <1>2
     DEF TypeOK, ThreadsOK, FirstOK, QueueOK, CountsFollowRounds, OneCallEach, Both,
         second
<1>8. Puts1' = Puts1 /\ Gets1' = Gets1 /\ Puts2' = Puts2 /\ Gets2' = Gets2
  BY <1>1, <1>2, <1>5
     DEF TypeOK, ThreadsOK, FirstOK, QueueOK, Both, second, Puts1, Gets1, Puts2,
         Gets2, One, Unmarked
<1>9. LockStep'
  BY <1>1, <1>2, <1>8 DEF LockStep, second
<1>10. TakenWhileFull'
  BY <1>1, <1>2, <1>8
     DEF TypeOK, FirstOK, QueueOK, TakenWhileFull, Both, second
<1>. QED
  BY <1>4, <1>6, <1>7, <1>9, <1>10

LEMMA PingPopStep == PingPongInv /\ PingPop => PingPongInv'
<1>. SUFFICES ASSUME PingPongInv, PingPop PROVE PingPongInv'
  OBVIOUS
<1>. USE PingPongAssumption DEF PingPongInv
<1>1. /\ at[Ping] = "pop" /\ at' = [at EXCEPT ![Ping] = "popping"]
      /\ pc1[Ping] = "idle" /\ pc2[Ping] = "idle" /\ UNCHANGED <<round, first>>
  BY DEF PingPop, Calls
<1>2. /\ tail2' = tail2 + 1
      /\ pc2' = [pc2 EXCEPT ![Ping] = "wait"] /\ index2' = [index2 EXCEPT ![Ping] = tail2]
      /\ UNCHANGED <<head2, states2, elements2, element2, sent2, received2>>
  BY DEF PingPop, Q2!Pop, Q2!ClaimTail, Q2!Goto
<1>3. TypeOK'
  <2>1. FirstOK'
    BY <1>1 DEF TypeOK, FirstOK, first
  <2>2. SecondOK'
    BY <1>1, <1>2
       DEF TypeOK, SecondOK, QueueOK, ThreadsOK, Both, Labels, PopLabels,
           CountsFollowRounds, One
  <2>3. ThreadsOK'
    BY <1>1, <1>2
       DEF TypeOK, ThreadsOK, SecondOK, QueueOK, Both, first, PushLabels, PopLabels
  <2>. QED
    BY <2>1, <2>2, <2>3 DEF TypeOK
<1>4. CountsFollowRounds'
  BY <1>1, <1>2 DEF TypeOK, ThreadsOK, CountsFollowRounds, Both, first, One
<1>5. OneCallEach'
  BY <1>1, <1>2
     DEF TypeOK, ThreadsOK, SecondOK, QueueOK, CountsFollowRounds, OneCallEach, Both,
         first, One
<1>6. Puts1' = Puts1 /\ Gets1' = Gets1 /\ Puts2' = Puts2 /\ Gets2' = Gets2
  BY <1>1, <1>2
     DEF TypeOK, SecondOK, QueueOK, Both, first, Puts1, Gets1, Puts2, Gets2, One,
         Unmarked
<1>7. LockStep'
  BY <1>1, <1>2, <1>6 DEF LockStep, first
<1>8. TakenWhileFull'
  BY <1>1, <1>2, <1>6
     DEF TypeOK, SecondOK, QueueOK, TakenWhileFull, Both, first
<1>. QED
  BY <1>3, <1>4, <1>5, <1>7, <1>8

\* ping's push: the end of the wait
LEMMA PingAwaits ==
  ASSUME PingPongInv, Q1!AwaitEmpty(Ping), UNCHANGED <<at, round, second>>
  PROVE  PingPongInv'
<1>. USE PingPongAssumption DEF PingPongInv
<1>1. /\ pc1[Ping] = "offer" /\ pc1' = [pc1 EXCEPT ![Ping] = "write"]
      /\ states1' = IF SPSC THEN states1
                    ELSE [states1 EXCEPT ![Q1!Slot(index1[Ping])] = "FULL"]
      /\ UNCHANGED <<head1, tail1, elements1, index1, element1, sent1, received1>>
  BY DEF Q1!AwaitEmpty, Q1!Goto
<1>2. TypeOK'
  <2>1. FirstOK'
    BY <1>1 DEF TypeOK, FirstOK, QueueOK, Both, Labels, PushLabels, PopLabels
  <2>2. SecondOK'
    BY DEF TypeOK, SecondOK, second
  <2>3. ThreadsOK'
    BY <1>1
       DEF TypeOK, ThreadsOK, FirstOK, QueueOK, Both, second, PushLabels, PopLabels
  <2>. QED
    BY <2>1, <2>2, <2>3 DEF TypeOK
<1>3. CountsFollowRounds'
  BY <1>1 DEF CountsFollowRounds, second
<1>4. OneCallEach'
  BY <1>1 DEF TypeOK, FirstOK, QueueOK, OneCallEach, Both, second
<1>5. index1[Ping] = Puts1 /\ Puts1 = Gets2
  BY <1>1
     DEF TypeOK, ThreadsOK, FirstOK, QueueOK, SecondOK, Both, CountsFollowRounds,
         OneCallEach, Puts1, Gets1, Puts2, Gets2, One, Unmarked
<1>6. PICK n \in Nat : Gets2 = n /\ Puts2 = n /\ Gets1 = n /\ Puts1 = n
  BY <1>5, CountTypes, WhoseTurn DEF LockStep
<1>7. /\ Puts1' = (IF SPSC THEN n ELSE n + 1)
      /\ Gets1' = n /\ Puts2' = n /\ Gets2' = n
  BY <1>1, <1>6
     DEF TypeOK, FirstOK, SecondOK, QueueOK, Both, second, Puts1, Gets1, Puts2,
         Gets2, One, Unmarked
<1>8. OneFull(states1', Gets1', Puts1')
  <2>1. OneFull([states1 EXCEPT ![Q1!Slot(n)] = "FULL"], n, n + 1)
    BY <1>6, Fill DEF LockStep, TypeOK, FirstOK, QueueOK
  <2>. QED
    BY <1>1, <1>5, <1>6, <1>7, <2>1, SlotRange DEF LockStep
<1>9. LockStep'
  BY <1>6, <1>7, <1>8, Turns DEF LockStep, second
<1>10. TakenWhileFull'
  BY <1>1, <1>6, <1>7
     DEF TypeOK, FirstOK, SecondOK, QueueOK, ThreadsOK, TakenWhileFull, Both,
         PopLabels, second
<1>. QED
  BY <1>2, <1>3, <1>4, <1>9, <1>10

\* ping's push: the copy of the element
LEMMA PingWrites ==
  ASSUME PingPongInv, Q1!Write(Ping), UNCHANGED <<at, round, second>>
  PROVE  PingPongInv'
<1>. USE PingPongAssumption DEF PingPongInv
<1>1. /\ pc1[Ping] = "write"
      /\ pc1' = [pc1 EXCEPT ![Ping] = IF SPSC THEN "publish" ELSE "idle"]
      /\ SPSC => UNCHANGED <<index1, element1>>
      /\ ~SPSC => /\ index1' = [index1 EXCEPT ![Ping] = 0]
                  /\ element1' = [element1 EXCEPT ![Ping] = Uninit]
      /\ UNCHANGED <<head1, tail1, states1, sent1, received1>>
  BY DEF Q1!Write, Q1!Goto, Q1!Leave
<1>2. TypeOK'
  <2>0. elements1' \in [Ring -> Contents]
    <3>1. PICK v \in {element1[Ping], Torn} :
            elements1' = [elements1 EXCEPT ![Q1!Slot(index1[Ping])] = v]
      BY DEF Q1!Write
    <3>2. v \in Contents
      BY DEF TypeOK, FirstOK, QueueOK, Both, Contents
    <3>. QED
      BY <3>1, <3>2 DEF TypeOK, FirstOK, QueueOK
  <2>1. FirstOK'
    <3>. USE DEF TypeOK, FirstOK, QueueOK, Both, Labels, PushLabels, PopLabels, Contents
    <3>1. CASE SPSC
      BY <1>1, <2>0, <3>1, LeaveTypes, MarkTypes
    <3>2. CASE ~SPSC
      BY <1>1, <2>0, <3>2, LeaveTypes, MarkTypes
    <3>. QED
      BY <3>1, <3>2
  <2>2. SecondOK'
    BY DEF TypeOK, SecondOK, second
  <2>3. ThreadsOK'
    BY <1>1, <2>0
       DEF TypeOK, ThreadsOK, FirstOK, QueueOK, Both, second, PushLabels, PopLabels
  <2>. QED
    BY <2>1, <2>2, <2>3 DEF TypeOK
<1>3. CountsFollowRounds'
  BY <1>1 DEF CountsFollowRounds, second
<1>4. OneCallEach'
  BY <1>1 DEF TypeOK, ThreadsOK, FirstOK, QueueOK, SecondOK, Both, OneCallEach, second
<1>5. Puts1' = Puts1 /\ Gets1' = Gets1 /\ Puts2' = Puts2 /\ Gets2' = Gets2
  BY <1>1
     DEF TypeOK, FirstOK, SecondOK, QueueOK, Both, second, Puts1, Gets1, Puts2,
         Gets2, One, Unmarked
<1>6. LockStep'
  BY <1>1, <1>5 DEF LockStep, second
<1>7. TakenWhileFull'
  BY <1>1, <1>5 DEF TypeOK, FirstOK, QueueOK, TakenWhileFull, Both, second
<1>. QED
  BY <1>2, <1>3, <1>4, <1>6, <1>7

\* ping's push with SPSC: the store of FULL
LEMMA PingPublishes ==
  ASSUME PingPongInv, Q1!Publish(Ping), UNCHANGED <<at, round, second>>
  PROVE  PingPongInv'
<1>. USE PingPongAssumption DEF PingPongInv
<1>1. /\ pc1[Ping] = "publish" /\ pc1' = [pc1 EXCEPT ![Ping] = "idle"]
      /\ states1' = [states1 EXCEPT ![Q1!Slot(index1[Ping])] = "FULL"]
      /\ index1' = [index1 EXCEPT ![Ping] = 0]
      /\ element1' = [element1 EXCEPT ![Ping] = Uninit]
      /\ UNCHANGED <<head1, tail1, elements1, sent1, received1>>
  BY DEF Q1!Publish, Q1!Goto, Q1!Leave
<1>2. TypeOK'
  <2>1. FirstOK'
    BY <1>1, LeaveTypes, MarkTypes DEF TypeOK, FirstOK, QueueOK, Both
  <2>2. SecondOK'
    BY DEF TypeOK, SecondOK, second
  <2>3. ThreadsOK'
    BY <1>1
       DEF TypeOK, ThreadsOK, FirstOK, QueueOK, Both, second, PushLabels, PopLabels
  <2>. QED
    BY <2>1, <2>2, <2>3 DEF TypeOK
<1>3. CountsFollowRounds'
  BY <1>1 DEF CountsFollowRounds, second
<1>4. OneCallEach'
  BY <1>1 DEF TypeOK, ThreadsOK, FirstOK, QueueOK, SecondOK, Both, OneCallEach, second
<1>5. index1[Ping] = Puts1 /\ Puts1 = Gets2 /\ SPSC
  BY <1>1
     DEF TypeOK, ThreadsOK, FirstOK, QueueOK, SecondOK, Both, CountsFollowRounds,
         OneCallEach, Puts1, Gets1, Puts2, Gets2, One, Unmarked
<1>6. PICK n \in Nat : Gets2 = n /\ Puts2 = n /\ Gets1 = n /\ Puts1 = n
  BY <1>5, CountTypes, WhoseTurn DEF LockStep
<1>7. Puts1' = n + 1 /\ Gets1' = n /\ Puts2' = n /\ Gets2' = n
  BY <1>1, <1>5, <1>6
     DEF TypeOK, FirstOK, SecondOK, QueueOK, Both, second, Puts1, Gets1, Puts2,
         Gets2, One, Unmarked
<1>8. OneFull(states1', Gets1', Puts1')
  <2>1. OneFull([states1 EXCEPT ![Q1!Slot(n)] = "FULL"], n, n + 1)
    BY <1>6, Fill DEF LockStep, TypeOK, FirstOK, QueueOK
  <2>. QED
    BY <1>1, <1>5, <1>6, <1>7, <2>1, SlotRange DEF LockStep
<1>9. LockStep'
  BY <1>6, <1>7, <1>8, Turns DEF LockStep, second
<1>10. TakenWhileFull'
  BY <1>1, <1>6, <1>7
     DEF TypeOK, FirstOK, SecondOK, QueueOK, ThreadsOK, TakenWhileFull, Both,
         PopLabels, second
<1>. QED
  BY <1>2, <1>3, <1>4, <1>9, <1>10

LEMMA ReadContents1 ==
  ASSUME PingPongInv, Q1!Read(Pong)
  PROVE  \A v \in {elements1[Q1!Slot(index1[Pong])], Torn} : v \in Contents
<1>1. index1[Pong] \in Nat
  BY 
     DEF Q1!Read, PingPongInv, TypeOK, ThreadsOK, FirstOK, QueueOK, SecondOK, Both,
         CountsFollowRounds, OneCallEach, One
<1>. QED
  BY <1>1, SlotRange DEF PingPongInv, TypeOK, FirstOK, QueueOK, Contents

LEMMA ReadContents2 ==
  ASSUME PingPongInv, Q2!Read(Ping)
  PROVE  \A v \in {elements2[Q2!Slot(index2[Ping])], Torn} : v \in Contents
<1>1. index2[Ping] \in Nat
  BY 
     DEF Q2!Read, PingPongInv, TypeOK, ThreadsOK, FirstOK, QueueOK, SecondOK, Both,
         CountsFollowRounds, OneCallEach, One
<1>. QED
  BY <1>1, SlotRange DEF PingPongInv, TypeOK, SecondOK, QueueOK, Contents

\* ping's pop: the end of the wait
LEMMA PingWaits ==
  ASSUME PingPongInv, Q2!AwaitFull(Ping),
         Popping(Ping, pc2'[Ping] = "idle", 1), UNCHANGED first
  PROVE  PingPongInv'
<1>. USE PingPongAssumption DEF PingPongInv
<1>1. /\ pc2[Ping] = "wait" /\ pc2' = [pc2 EXCEPT ![Ping] = "read"]
      /\ states2[Q2!Slot(index2[Ping])] = "FULL"
      /\ states2' = IF SPSC THEN states2
                    ELSE [states2 EXCEPT ![Q2!Slot(index2[Ping])] = "EMPTY"]
      /\ UNCHANGED <<head2, tail2, elements2, index2, element2, sent2, received2>>
  BY DEF Q2!AwaitFull, Q2!Goto
<1>0. UNCHANGED <<at, round>>
  BY <1>1 DEF Popping, TypeOK, SecondOK, QueueOK, Both
<1>2. TypeOK'
  <2>1. FirstOK'
    BY DEF TypeOK, FirstOK, first
  <2>2. SecondOK'
    BY <1>0, <1>1 DEF TypeOK, SecondOK, QueueOK, Both, Labels, PushLabels, PopLabels
  <2>3. ThreadsOK'
    BY <1>0, <1>1
       DEF TypeOK, ThreadsOK, SecondOK, QueueOK, Both, first, PushLabels, PopLabels
  <2>. QED
    BY <2>1, <2>2, <2>3 DEF TypeOK
<1>3. CountsFollowRounds'
  BY <1>0, <1>1 DEF CountsFollowRounds, first
<1>4. OneCallEach'
  BY <1>0, <1>1 DEF TypeOK, SecondOK, QueueOK, OneCallEach, Both, first
<1>5. index2[Ping] = Gets2 /\ Gets2 < Puts2
  <2>1. index2[Ping] = Gets2
    BY <1>1
       DEF TypeOK, ThreadsOK, FirstOK, QueueOK, SecondOK, Both, CountsFollowRounds,
           OneCallEach, Gets2, One
  <2>2. Q2!Slot(index2[Ping]) \in DOMAIN states2
    BY <2>1, CountTypes, SlotRange DEF TypeOK, SecondOK, QueueOK
  <2>. QED
    BY <1>1, <2>1, <2>2 DEF LockStep, OneFull
<1>6. PICK n \in Nat : Gets2 = n /\ Puts2 = n + 1 /\ Gets1 = n + 1 /\ Puts1 = n + 1
  BY <1>5, CountTypes, WhoseTurn DEF LockStep
<1>7. /\ Gets2' = (IF SPSC THEN n ELSE n + 1)
      /\ Puts2' = n + 1 /\ Gets1' = n + 1 /\ Puts1' = n + 1
  BY <1>0, <1>1, <1>6
     DEF TypeOK, FirstOK, SecondOK, QueueOK, Both, first, Puts1, Gets1, Puts2,
         Gets2, One, Unmarked
<1>8. OneFull(states2', Gets2', Puts2')
  <2>1. OneFull([states2 EXCEPT ![Q1!Slot(n)] = "EMPTY"], n + 1, n + 1)
    BY <1>6, Clear DEF LockStep, TypeOK, SecondOK, QueueOK
  <2>. QED
    BY <1>1, <1>5, <1>6, <1>7, <2>1, SlotRange DEF LockStep
<1>9. LockStep'
  BY <1>6, <1>7, <1>8, Turns DEF LockStep, first
<1>10. TakenWhileFull'
  BY <1>1, <1>6, <1>7
     DEF TypeOK, FirstOK, SecondOK, QueueOK, ThreadsOK, TakenWhileFull, Both,
         PopLabels, first
<1>. QED
  BY <1>2, <1>3, <1>4, <1>9, <1>10

\* ping's pop with SPSC: the copy of the element
LEMMA PingCopies ==
  ASSUME PingPongInv, SPSC, Q2!Read(Ping),
         Popping(Ping, pc2'[Ping] = "idle", 1), UNCHANGED first
  PROVE  PingPongInv'
<1>. USE PingPongAssumption DEF PingPongInv
<1>1. /\ pc2[Ping] = "read" /\ pc2' = [pc2 EXCEPT ![Ping] = "release"]
      /\ UNCHANGED <<head2, tail2, states2, elements2, index2, sent2, received2>>
  BY DEF Q2!Read, Q2!Goto
<1>2. UNCHANGED <<at, round>>
  BY <1>1 DEF Popping, TypeOK, SecondOK, QueueOK, Both
<1>3. PICK v \in Contents : element2' = [element2 EXCEPT ![Ping] = v]
  BY ReadContents2 DEF Q2!Read
<1>4. TypeOK'
  <2>1. FirstOK'
    BY DEF TypeOK, FirstOK, first
  <2>2. SecondOK'
    BY <1>1, <1>2, <1>3
       DEF TypeOK, SecondOK, QueueOK, Both, Labels, PushLabels, PopLabels
  <2>3. ThreadsOK'
    BY <1>1, <1>2, <1>3
       DEF TypeOK, ThreadsOK, SecondOK, QueueOK, Both, first, PushLabels, PopLabels
  <2>. QED
    BY <2>1, <2>2, <2>3 DEF TypeOK
<1>5. CountsFollowRounds'
  BY <1>1, <1>2 DEF CountsFollowRounds, first
<1>6. OneCallEach'
  BY <1>1, <1>2 DEF TypeOK, SecondOK, QueueOK, OneCallEach, Both, first
<1>7. Puts1' = Puts1 /\ Gets1' = Gets1 /\ Puts2' = Puts2 /\ Gets2' = Gets2
  BY <1>1
     DEF TypeOK, FirstOK, SecondOK, QueueOK, Both, first, Puts1, Gets1, Puts2,
         Gets2, One, Unmarked
<1>8. LockStep'
  BY <1>1, <1>7 DEF LockStep, first
<1>9. TakenWhileFull'
  BY <1>1, <1>7 DEF TypeOK, SecondOK, QueueOK, TakenWhileFull, Both, first
<1>. QED
  BY <1>4, <1>5, <1>6, <1>8, <1>9

\* ping's pop: the return of v, with SPSC by the store of EMPTY
LEMMA PingGets ==
  ASSUME PingPongInv, NEW v \in Contents,
         pc2[Ping] = IF SPSC THEN "release" ELSE "read",
         pc2' = [pc2 EXCEPT ![Ping] = "idle"],
         index2' = [index2 EXCEPT ![Ping] = 0],
         element2' = [element2 EXCEPT ![Ping] = Uninit],
         received2' = Append(received2, v),
         states2' = IF SPSC THEN [states2 EXCEPT ![Q2!Slot(index2[Ping])] = "EMPTY"]
                   ELSE states2,
         UNCHANGED <<head2, tail2, elements2, sent2, first>>,
         Popping(Ping, pc2'[Ping] = "idle", 1)
  PROVE  PingPongInv'
<1>. USE PingPongAssumption DEF PingPongInv
<1>1. /\ pc2[Ping] \in {"release", "read"} /\ at[Ping] = "popping"
      /\ at' = [at EXCEPT ![Ping] = "push"]
      /\ round' = [round EXCEPT ![Ping] = @ + 1]
  BY DEF Popping, TypeOK, SecondOK, QueueOK, Both, OneCallEach
<1>2. Len(received2') = Len(received2) + 1 /\ received2' \in Seq(Contents)
  BY DEF TypeOK, SecondOK, QueueOK
<1>3. TypeOK'
  <2>1. FirstOK'
    BY DEF TypeOK, FirstOK, first
  <2>2. SecondOK'
    <3>. USE DEF TypeOK, SecondOK, QueueOK, Both
    <3>1. CASE SPSC
      BY <1>1, <1>2, <3>1, LeaveTypes, MarkTypes
    <3>2. CASE ~SPSC
      BY <1>1, <1>2, <3>2, LeaveTypes, MarkTypes
    <3>. QED
      BY <3>1, <3>2
  <2>3. ThreadsOK'
    BY <1>1, <1>2
       DEF TypeOK, ThreadsOK, SecondOK, QueueOK, Both, first, PushLabels, PopLabels
  <2>. QED
    BY <2>1, <2>2, <2>3 DEF TypeOK
<1>4. CountsFollowRounds'
  BY <1>1, <1>2
     DEF TypeOK, ThreadsOK, FirstOK, QueueOK, SecondOK, Both, CountsFollowRounds,
         first, One
<1>5. OneCallEach'
  BY <1>1
     DEF TypeOK, ThreadsOK, FirstOK, QueueOK, SecondOK, Both, CountsFollowRounds,
         OneCallEach, first
<1>6. CASE ~SPSC
  <2>1. Puts1' = Puts1 /\ Gets1' = Gets1 /\ Puts2' = Puts2 /\ Gets2' = Gets2
    BY <1>2, <1>6
       DEF TypeOK, FirstOK, SecondOK, QueueOK, Both, first, Puts1, Gets1, Puts2,
           Gets2, One, Unmarked
  <2>2. LockStep'
    BY <1>6, <2>1 DEF LockStep, first
  <2>3. TakenWhileFull'
    BY <1>6 DEF TakenWhileFull
  <2>. QED
    BY <1>3, <1>4, <1>5, <2>2, <2>3
<1>7. CASE SPSC
  <2>1. index2[Ping] = Gets2 /\ Gets2 < Puts2
    BY <1>7
       DEF TypeOK, ThreadsOK, FirstOK, QueueOK, SecondOK, Both, CountsFollowRounds,
           OneCallEach, TakenWhileFull, Gets2, One
  <2>2. PICK n \in Nat : Gets2 = n /\ Puts2 = n + 1 /\ Gets1 = n + 1 /\ Puts1 = n + 1
    BY <2>1, CountTypes, WhoseTurn DEF LockStep
  <2>3. Gets2' = n + 1 /\ Puts2' = n + 1 /\ Gets1' = n + 1 /\ Puts1' = n + 1
    BY <1>2, <1>7, <2>2
       DEF TypeOK, FirstOK, SecondOK, QueueOK, Both, first, Puts1, Gets1, Puts2,
           Gets2, One, Unmarked
  <2>4. OneFull(states2', Gets2', Puts2')
    <3>1. OneFull([states2 EXCEPT ![Q1!Slot(n)] = "EMPTY"], n + 1, n + 1)
      BY <2>2, Clear DEF LockStep, TypeOK, SecondOK, QueueOK
    <3>. QED
      BY <1>7, <2>1, <2>2, <2>3, <3>1, SlotRange
  <2>5. LockStep'
    BY <2>2, <2>3, <2>4, Turns DEF LockStep, first
  <2>6. TakenWhileFull'
    BY <2>2, <2>3 DEF TypeOK, FirstOK, SecondOK, QueueOK, TakenWhileFull, Both, first
  <2>. QED
    BY <1>3, <1>4, <1>5, <2>5, <2>6
<1>. QED
  BY <1>6, <1>7

\* pong's push: the end of the wait
LEMMA PongAwaits ==
  ASSUME PingPongInv, Q2!AwaitEmpty(Pong), UNCHANGED <<at, round, first>>
  PROVE  PingPongInv'
<1>. USE PingPongAssumption DEF PingPongInv
<1>1. /\ pc2[Pong] = "offer" /\ pc2' = [pc2 EXCEPT ![Pong] = "write"]
      /\ states2' = IF SPSC THEN states2
                    ELSE [states2 EXCEPT ![Q2!Slot(index2[Pong])] = "FULL"]
      /\ UNCHANGED <<head2, tail2, elements2, index2, element2, sent2, received2>>
  BY DEF Q2!AwaitEmpty, Q2!Goto
<1>2. TypeOK'
  <2>1. FirstOK'
    BY DEF TypeOK, FirstOK, first
  <2>2. SecondOK'
    BY <1>1 DEF TypeOK, SecondOK, QueueOK, Both, Labels, PushLabels, PopLabels
  <2>3. ThreadsOK'
    BY <1>1
       DEF TypeOK, ThreadsOK, SecondOK, QueueOK, Both, first, PushLabels, PopLabels
  <2>. QED
    BY <2>1, <2>2, <2>3 DEF TypeOK
<1>3. CountsFollowRounds'
  BY <1>1 DEF CountsFollowRounds, first
<1>4. OneCallEach'
  BY <1>1 DEF TypeOK, SecondOK, QueueOK, OneCallEach, Both, first
<1>5. index2[Pong] = Puts2 /\ Puts2 < Gets1
  BY <1>1
     DEF TypeOK, ThreadsOK, FirstOK, QueueOK, SecondOK, Both, CountsFollowRounds,
         OneCallEach, Puts1, Gets1, Puts2, Gets2, One, Unmarked
<1>6. PICK n \in Nat : Gets2 = n /\ Puts2 = n /\ Gets1 = n + 1 /\ Puts1 = n + 1
  BY <1>5, CountTypes, WhoseTurn DEF LockStep
<1>7. /\ Puts2' = (IF SPSC THEN n ELSE n + 1)
      /\ Gets1' = n + 1 /\ Puts1' = n + 1 /\ Gets2' = n
  BY <1>1, <1>6
     DEF TypeOK, FirstOK, SecondOK, QueueOK, Both, first, Puts1, Gets1, Puts2,
         Gets2, One, Unmarked
<1>8. OneFull(states2', Gets2', Puts2')
  <2>1. OneFull([states2 EXCEPT ![Q1!Slot(n)] = "FULL"], n, n + 1)
    BY <1>6, Fill DEF LockStep, TypeOK, SecondOK, QueueOK
  <2>. QED
    BY <1>1, <1>5, <1>6, <1>7, <2>1, SlotRange DEF LockStep
<1>9. LockStep'
  BY <1>6, <1>7, <1>8, Turns DEF LockStep, first
<1>10. TakenWhileFull'
  BY <1>1, <1>6, <1>7
     DEF TypeOK, FirstOK, SecondOK, QueueOK, ThreadsOK, TakenWhileFull, Both,
         PopLabels, first
<1>. QED
  BY <1>2, <1>3, <1>4, <1>9, <1>10

\* pong's push: the copy of the element
LEMMA PongWrites ==
  ASSUME PingPongInv, Q2!Write(Pong), UNCHANGED <<at, round, first>>
  PROVE  PingPongInv'
<1>. USE PingPongAssumption DEF PingPongInv
<1>1. /\ pc2[Pong] = "write"
      /\ pc2' = [pc2 EXCEPT ![Pong] = IF SPSC THEN "publish" ELSE "idle"]
      /\ SPSC => UNCHANGED <<index2, element2>>
      /\ ~SPSC => /\ index2' = [index2 EXCEPT ![Pong] = 0]
                  /\ element2' = [element2 EXCEPT ![Pong] = Uninit]
      /\ UNCHANGED <<head2, tail2, states2, sent2, received2>>
  BY DEF Q2!Write, Q2!Goto, Q2!Leave
<1>2. TypeOK'
  <2>0. elements2' \in [Ring -> Contents]
    <3>1. PICK v \in {element2[Pong], Torn} :
            elements2' = [elements2 EXCEPT ![Q2!Slot(index2[Pong])] = v]
      BY DEF Q2!Write
    <3>2. v \in Contents
      BY DEF TypeOK, SecondOK, QueueOK, Both, Contents
    <3>. QED
      BY <3>1, <3>2 DEF TypeOK, SecondOK, QueueOK
  <2>1. FirstOK'
    BY DEF TypeOK, FirstOK, first
  <2>2. SecondOK'
    <3>. USE DEF TypeOK, SecondOK, QueueOK, Both, Labels, PushLabels, PopLabels, Contents
    <3>1. CASE SPSC
      BY <1>1, <2>0, <3>1, LeaveTypes, MarkTypes
    <3>2. CASE ~SPSC
      BY <1>1, <2>0, <3>2, LeaveTypes, MarkTypes
    <3>. QED
      BY <3>1, <3>2
  <2>3. ThreadsOK'
    BY <1>1, <2>0
       DEF TypeOK, ThreadsOK, SecondOK, QueueOK, Both, first, PushLabels, PopLabels
  <2>. QED
    BY <2>1, <2>2, <2>3 DEF TypeOK
<1>3. CountsFollowRounds'
  BY <1>1 DEF CountsFollowRounds, first
<1>4. OneCallEach'
  BY <1>1 DEF TypeOK, ThreadsOK, FirstOK, QueueOK, SecondOK, Both, OneCallEach, first
<1>5. Puts1' = Puts1 /\ Gets1' = Gets1 /\ Puts2' = Puts2 /\ Gets2' = Gets2
  BY <1>1
     DEF TypeOK, FirstOK, SecondOK, QueueOK, Both, first, Puts1, Gets1, Puts2,
         Gets2, One, Unmarked
<1>6. LockStep'
  BY <1>1, <1>5 DEF LockStep, first
<1>7. TakenWhileFull'
  BY <1>1, <1>5 DEF TypeOK, SecondOK, QueueOK, TakenWhileFull, Both, first
<1>. QED
  BY <1>2, <1>3, <1>4, <1>6, <1>7

\* pong's push with SPSC: the store of FULL
LEMMA PongPublishes ==
  ASSUME PingPongInv, Q2!Publish(Pong), UNCHANGED <<at, round, first>>
  PROVE  PingPongInv'
<1>. USE PingPongAssumption DEF PingPongInv
<1>1. /\ pc2[Pong] = "publish" /\ pc2' = [pc2 EXCEPT ![Pong] = "idle"]
      /\ states2' = [states2 EXCEPT ![Q2!Slot(index2[Pong])] = "FULL"]
      /\ index2' = [index2 EXCEPT ![Pong] = 0]
      /\ element2' = [element2 EXCEPT ![Pong] = Uninit]
      /\ UNCHANGED <<head2, tail2, elements2, sent2, received2>>
  BY DEF Q2!Publish, Q2!Goto, Q2!Leave
<1>2. TypeOK'
  <2>1. FirstOK'
    BY DEF TypeOK, FirstOK, first
  <2>2. SecondOK'
    BY <1>1, LeaveTypes, MarkTypes DEF TypeOK, SecondOK, QueueOK, Both
  <2>3. ThreadsOK'
    BY <1>1
       DEF TypeOK, ThreadsOK, SecondOK, QueueOK, Both, first, PushLabels, PopLabels
  <2>. QED
    BY <2>1, <2>2, <2>3 DEF TypeOK
<1>3. CountsFollowRounds'
  BY <1>1 DEF CountsFollowRounds, first
<1>4. OneCallEach'
  BY <1>1 DEF TypeOK, ThreadsOK, FirstOK, QueueOK, SecondOK, Both, OneCallEach, first
<1>5. index2[Pong] = Puts2 /\ Puts2 < Gets1 /\ SPSC
  BY <1>1
     DEF TypeOK, ThreadsOK, FirstOK, QueueOK, SecondOK, Both, CountsFollowRounds,
         OneCallEach, Puts1, Gets1, Puts2, Gets2, One, Unmarked
<1>6. PICK n \in Nat : Gets2 = n /\ Puts2 = n /\ Gets1 = n + 1 /\ Puts1 = n + 1
  BY <1>5, CountTypes, WhoseTurn DEF LockStep
<1>7. Puts2' = n + 1 /\ Gets1' = n + 1 /\ Puts1' = n + 1 /\ Gets2' = n
  BY <1>1, <1>5, <1>6
     DEF TypeOK, FirstOK, SecondOK, QueueOK, Both, first, Puts1, Gets1, Puts2,
         Gets2, One, Unmarked
<1>8. OneFull(states2', Gets2', Puts2')
  <2>1. OneFull([states2 EXCEPT ![Q1!Slot(n)] = "FULL"], n, n + 1)
    BY <1>6, Fill DEF LockStep, TypeOK, SecondOK, QueueOK
  <2>. QED
    BY <1>1, <1>5, <1>6, <1>7, <2>1, SlotRange DEF LockStep
<1>9. LockStep'
  BY <1>6, <1>7, <1>8, Turns DEF LockStep, first
<1>10. TakenWhileFull'
  BY <1>1, <1>6, <1>7
     DEF TypeOK, FirstOK, SecondOK, QueueOK, ThreadsOK, TakenWhileFull, Both,
         PopLabels, first
<1>. QED
  BY <1>2, <1>3, <1>4, <1>9, <1>10

\* pong's pop: the end of the wait
LEMMA PongWaits ==
  ASSUME PingPongInv, Q1!AwaitFull(Pong),
         Popping(Pong, pc1'[Pong] = "idle", 0), UNCHANGED second
  PROVE  PingPongInv'
<1>. USE PingPongAssumption DEF PingPongInv
<1>1. /\ pc1[Pong] = "wait" /\ pc1' = [pc1 EXCEPT ![Pong] = "read"]
      /\ states1[Q1!Slot(index1[Pong])] = "FULL"
      /\ states1' = IF SPSC THEN states1
                    ELSE [states1 EXCEPT ![Q1!Slot(index1[Pong])] = "EMPTY"]
      /\ UNCHANGED <<head1, tail1, elements1, index1, element1, sent1, received1>>
  BY DEF Q1!AwaitFull, Q1!Goto
<1>0. UNCHANGED <<at, round>>
  BY <1>1 DEF Popping, TypeOK, FirstOK, QueueOK, Both
<1>2. TypeOK'
  <2>1. FirstOK'
    BY <1>0, <1>1 DEF TypeOK, FirstOK, QueueOK, Both, Labels, PushLabels, PopLabels
  <2>2. SecondOK'
    BY DEF TypeOK, SecondOK, second
  <2>3. ThreadsOK'
    BY <1>0, <1>1
       DEF TypeOK, ThreadsOK, FirstOK, QueueOK, Both, second, PushLabels, PopLabels
  <2>. QED
    BY <2>1, <2>2, <2>3 DEF TypeOK
<1>3. CountsFollowRounds'
  BY <1>0, <1>1 DEF CountsFollowRounds, second
<1>4. OneCallEach'
  BY <1>0, <1>1 DEF TypeOK, FirstOK, QueueOK, OneCallEach, Both, second
<1>5. index1[Pong] = Gets1 /\ Gets1 < Puts1
  <2>1. index1[Pong] = Gets1
    BY <1>1
       DEF TypeOK, ThreadsOK, FirstOK, QueueOK, SecondOK, Both, CountsFollowRounds,
           OneCallEach, Gets1, One
  <2>2. Q1!Slot(index1[Pong]) \in DOMAIN states1
    BY <2>1, CountTypes, SlotRange DEF TypeOK, FirstOK, QueueOK
  <2>. QED
    BY <1>1, <2>1, <2>2 DEF LockStep, OneFull
<1>6. PICK n \in Nat : Gets2 = n /\ Puts2 = n /\ Gets1 = n /\ Puts1 = n + 1
  BY <1>5, CountTypes, WhoseTurn DEF LockStep
<1>7. /\ Gets1' = (IF SPSC THEN n ELSE n + 1)
      /\ Puts1' = n + 1 /\ Puts2' = n /\ Gets2' = n
  BY <1>0, <1>1, <1>6
     DEF TypeOK, FirstOK, SecondOK, QueueOK, Both, second, Puts1, Gets1, Puts2,
         Gets2, One, Unmarked
<1>8. OneFull(states1', Gets1', Puts1')
  <2>1. OneFull([states1 EXCEPT ![Q1!Slot(n)] = "EMPTY"], n + 1, n + 1)
    BY <1>6, Clear DEF LockStep, TypeOK, FirstOK, QueueOK
  <2>. QED
    BY <1>1, <1>5, <1>6, <1>7, <2>1, SlotRange DEF LockStep
<1>9. LockStep'
  BY <1>6, <1>7, <1>8, Turns DEF LockStep, second
<1>10. TakenWhileFull'
  BY <1>1, <1>6, <1>7
     DEF TypeOK, FirstOK, SecondOK, QueueOK, ThreadsOK, TakenWhileFull, Both,
         PopLabels, second
<1>. QED
  BY <1>2, <1>3, <1>4, <1>9, <1>10

\* pong's pop with SPSC: the copy of the element
LEMMA PongCopies ==
  ASSUME PingPongInv, SPSC, Q1!Read(Pong),
         Popping(Pong, pc1'[Pong] = "idle", 0), UNCHANGED second
  PROVE  PingPongInv'
<1>. USE PingPongAssumption DEF PingPongInv
<1>1. /\ pc1[Pong] = "read" /\ pc1' = [pc1 EXCEPT ![Pong] = "release"]
      /\ UNCHANGED <<head1, tail1, states1, elements1, index1, sent1, received1>>
  BY DEF Q1!Read, Q1!Goto
<1>2. UNCHANGED <<at, round>>
  BY <1>1 DEF Popping, TypeOK, FirstOK, QueueOK, Both
<1>3. PICK v \in Contents : element1' = [element1 EXCEPT ![Pong] = v]
  BY ReadContents1 DEF Q1!Read
<1>4. TypeOK'
  <2>1. FirstOK'
    BY <1>1, <1>2, <1>3
       DEF TypeOK, FirstOK, QueueOK, Both, Labels, PushLabels, PopLabels
  <2>2. SecondOK'
    BY DEF TypeOK, SecondOK, second
  <2>3. ThreadsOK'
    BY <1>1, <1>2, <1>3
       DEF TypeOK, ThreadsOK, FirstOK, QueueOK, Both, second, PushLabels, PopLabels
  <2>. QED
    BY <2>1, <2>2, <2>3 DEF TypeOK
<1>5. CountsFollowRounds'
  BY <1>1, <1>2 DEF CountsFollowRounds, second
<1>6. OneCallEach'
  BY <1>1, <1>2 DEF TypeOK, FirstOK, QueueOK, OneCallEach, Both, second
<1>7. Puts1' = Puts1 /\ Gets1' = Gets1 /\ Puts2' = Puts2 /\ Gets2' = Gets2
  BY <1>1
     DEF TypeOK, FirstOK, SecondOK, QueueOK, Both, second, Puts1, Gets1, Puts2,
         Gets2, One, Unmarked
<1>8. LockStep'
  BY <1>1, <1>7 DEF LockStep, second
<1>9. TakenWhileFull'
  BY <1>1, <1>7 DEF TypeOK, FirstOK, QueueOK, TakenWhileFull, Both, second
<1>. QED
  BY <1>4, <1>5, <1>6, <1>8, <1>9

\* pong's pop: the return of v, with SPSC by the store of EMPTY
LEMMA PongGets ==
  ASSUME PingPongInv, NEW v \in Contents,
         pc1[Pong] = IF SPSC THEN "release" ELSE "read",
         pc1' = [pc1 EXCEPT ![Pong] = "idle"],
         index1' = [index1 EXCEPT ![Pong] = 0],
         element1' = [element1 EXCEPT ![Pong] = Uninit],
         received1' = Append(received1, v),
         states1' = IF SPSC THEN [states1 EXCEPT ![Q1!Slot(index1[Pong])] = "EMPTY"]
                   ELSE states1,
         UNCHANGED <<head1, tail1, elements1, sent1, second>>,
         Popping(Pong, pc1'[Pong] = "idle", 0)
  PROVE  PingPongInv'
<1>. USE PingPongAssumption DEF PingPongInv
<1>1. /\ pc1[Pong] \in {"release", "read"} /\ at[Pong] = "popping"
      /\ at' = [at EXCEPT ![Pong] = "push"]
      /\ round' = [round EXCEPT ![Pong] = @ + 0]
  BY DEF Popping, TypeOK, FirstOK, QueueOK, Both, OneCallEach
<1>2. Len(received1') = Len(received1) + 1 /\ received1' \in Seq(Contents)
  BY DEF TypeOK, FirstOK, QueueOK
<1>3. TypeOK'
  <2>1. FirstOK'
    <3>. USE DEF TypeOK, FirstOK, QueueOK, Both
    <3>1. CASE SPSC
      BY <1>1, <1>2, <3>1, LeaveTypes, MarkTypes
    <3>2. CASE ~SPSC
      BY <1>1, <1>2, <3>2, LeaveTypes, MarkTypes
    <3>. QED
      BY <3>1, <3>2
  <2>2. SecondOK'
    BY DEF TypeOK, SecondOK, second
  <2>3. ThreadsOK'
    BY <1>1, <1>2
       DEF TypeOK, ThreadsOK, FirstOK, QueueOK, Both, second, PushLabels, PopLabels
  <2>. QED
    BY <2>1, <2>2, <2>3 DEF TypeOK
<1>4. CountsFollowRounds'
  BY <1>1, <1>2
     DEF TypeOK, ThreadsOK, FirstOK, QueueOK, SecondOK, Both, CountsFollowRounds,
         second, One
<1>5. OneCallEach'
  BY <1>1
     DEF TypeOK, ThreadsOK, FirstOK, QueueOK, SecondOK, Both, CountsFollowRounds,
         OneCallEach, second
<1>6. CASE ~SPSC
  <2>1. Puts1' = Puts1 /\ Gets1' = Gets1 /\ Puts2' = Puts2 /\ Gets2' = Gets2
    BY <1>2, <1>6
       DEF TypeOK, FirstOK, SecondOK, QueueOK, Both, second, Puts1, Gets1, Puts2,
           Gets2, One, Unmarked
  <2>2. LockStep'
    BY <1>6, <2>1 DEF LockStep, second
  <2>3. TakenWhileFull'
    BY <1>6 DEF TakenWhileFull
  <2>. QED
    BY <1>3, <1>4, <1>5, <2>2, <2>3
<1>7. CASE SPSC
  <2>1. index1[Pong] = Gets1 /\ Gets1 < Puts1
    BY <1>7
       DEF TypeOK, ThreadsOK, FirstOK, QueueOK, SecondOK, Both, CountsFollowRounds,
           OneCallEach, TakenWhileFull, Gets1, One
  <2>2. PICK n \in Nat : Gets2 = n /\ Puts2 = n /\ Gets1 = n /\ Puts1 = n + 1
    BY <2>1, CountTypes, WhoseTurn DEF LockStep
  <2>3. Gets1' = n + 1 /\ Puts1' = n + 1 /\ Puts2' = n /\ Gets2' = n
    BY <1>2, <1>7, <2>2
       DEF TypeOK, FirstOK, SecondOK, QueueOK, Both, second, Puts1, Gets1, Puts2,
           Gets2, One, Unmarked
  <2>4. OneFull(states1', Gets1', Puts1')
    <3>1. OneFull([states1 EXCEPT ![Q1!Slot(n)] = "EMPTY"], n + 1, n + 1)
      BY <2>2, Clear DEF LockStep, TypeOK, FirstOK, QueueOK
    <3>. QED
      BY <1>7, <2>1, <2>2, <2>3, <3>1, SlotRange
  <2>5. LockStep'
    BY <2>2, <2>3, <2>4, Turns DEF LockStep, second
  <2>6. TakenWhileFull'
    BY <2>2, <2>3 DEF TypeOK, FirstOK, SecondOK, QueueOK, TakenWhileFull, Both, second
  <2>. QED
    BY <1>3, <1>4, <1>5, <2>5, <2>6
<1>. QED
  BY <1>6, <1>7

LEMMA PongPopStep == PingPongInv /\ PongPop => PingPongInv'
<1>. SUFFICES ASSUME PingPongInv, PongPop PROVE PingPongInv'
  OBVIOUS
<1>. USE PingPongAssumption DEF PingPongInv
<1>1. /\ at[Pong] = "pop" /\ at' = [at EXCEPT ![Pong] = "popping"]
      /\ pc1[Pong] = "idle" /\ pc2[Pong] = "idle" /\ UNCHANGED <<round, second>>
  BY DEF PongPop, Calls
<1>2. /\ tail1' = tail1 + 1
      /\ pc1' = [pc1 EXCEPT ![Pong] = "wait"] /\ index1' = [index1 EXCEPT ![Pong] = tail1]
      /\ UNCHANGED <<head1, states1, elements1, element1, sent1, received1>>
  BY DEF PongPop, Q1!Pop, Q1!ClaimTail, Q1!Goto
<1>3. TypeOK'
  <2>1. FirstOK'
    BY <1>1, <1>2
       DEF TypeOK, FirstOK, QueueOK, ThreadsOK, Both, Labels, PopLabels,
           CountsFollowRounds, One
  <2>2. SecondOK'
    BY <1>1 DEF TypeOK, SecondOK, second
  <2>3. ThreadsOK'
    BY <1>1, <1>2
       DEF TypeOK, ThreadsOK, FirstOK, QueueOK, Both, second, PushLabels, PopLabels
  <2>. QED
    BY <2>1, <2>2, <2>3 DEF TypeOK
<1>4. CountsFollowRounds'
  BY <1>1, <1>2 DEF TypeOK, ThreadsOK, CountsFollowRounds, Both, second, One
<1>5. OneCallEach'
  BY <1>1, <1>2
     DEF TypeOK, ThreadsOK, FirstOK, QueueOK, CountsFollowRounds, OneCallEach, Both,
         second, One
<1>6. Puts1' = Puts1 /\ Gets1' = Gets1 /\ Puts2' = Puts2 /\ Gets2' = Gets2
  BY <1>1, <1>2
     DEF TypeOK, FirstOK, QueueOK, Both, second, Puts1, Gets1, Puts2, Gets2, One,
         Unmarked
<1>7. LockStep'
  BY <1>1, <1>2, <1>6 DEF LockStep, second
<1>8. TakenWhileFull'
  BY <1>1, <1>2, <1>6
     DEF TypeOK, FirstOK, QueueOK, TakenWhileFull, Both, second
<1>. QED
  BY <1>3, <1>4, <1>5, <1>7, <1>8

LEMMA PongPushStep == PingPongInv /\ PongPush => PingPongInv'
<1>. SUFFICES ASSUME PingPongInv, PongPush PROVE PingPongInv'
  OBVIOUS
<1>. USE PingPongAssumption DEF PingPongInv
<1>1. /\ at[Pong] = "push" /\ at' = [at EXCEPT ![Pong] = "pop"]
      /\ pc1[Pong] = "idle" /\ pc2[Pong] = "idle"
      /\ round' = [round EXCEPT ![Pong] = @ + 1] /\ UNCHANGED first
  BY DEF PongPush, Calls
<1>2. PICK v \in Contents : v = Last(received1)
  <2>1. Len(received1) > 0
    BY <1>1 DEF TypeOK, ThreadsOK, FirstOK, QueueOK, CountsFollowRounds, Both, One
  <2>. QED
    BY <2>1 DEF Last, TypeOK, FirstOK, QueueOK
<1>3. /\ head2' = head2 + 1 /\ sent2' = Append(sent2, v)
      /\ pc2' = [pc2 EXCEPT ![Pong] = "offer"]
      /\ index2' = [index2 EXCEPT ![Pong] = head2]
      /\ element2' = [element2 EXCEPT ![Pong] = v]
      /\ UNCHANGED <<tail2, states2, elements2, received2>>
  BY <1>2 DEF PongPush, Q2!PushOf, Q2!ClaimHead, Q2!Goto
<1>4. TypeOK'
  <2>1. FirstOK'
    BY <1>1 DEF TypeOK, FirstOK, first
  <2>2. SecondOK'
    BY <1>1, <1>2, <1>3
       DEF TypeOK, SecondOK, QueueOK, Both, Labels, PushLabels, CountsFollowRounds
  <2>3. ThreadsOK'
    BY <1>1, <1>3
       DEF TypeOK, ThreadsOK, SecondOK, QueueOK, Both, first, PushLabels, PopLabels
  <2>. QED
    BY <2>1, <2>2, <2>3 DEF TypeOK
<1>5. Len(sent2') = Len(sent2) + 1
  BY <1>3 DEF TypeOK, SecondOK, QueueOK
<1>6. CountsFollowRounds'
  BY <1>1, <1>3, <1>5 DEF TypeOK, ThreadsOK, CountsFollowRounds, Both, first, One
<1>7. OneCallEach'
  BY <1>1, <1>3
     DEF TypeOK, ThreadsOK, SecondOK, QueueOK, CountsFollowRounds, OneCallEach,
         Both, first
<1>8. Puts1' = Puts1 /\ Gets1' = Gets1 /\ Puts2' = Puts2 /\ Gets2' = Gets2
  BY <1>1, <1>3, <1>5
     DEF TypeOK, SecondOK, QueueOK, Both, first, Puts1, Gets1, Puts2, Gets2, One,
         Unmarked
<1>9. LockStep'
  BY <1>1, <1>3, <1>8 DEF LockStep, first
<1>10. TakenWhileFull'
  BY <1>1, <1>3, <1>8
     DEF TypeOK, SecondOK, QueueOK, TakenWhileFull, Both, first
<1>. QED
  BY <1>4, <1>6, <1>7, <1>9, <1>10

(***************************************************************************)
(* Both threads                                                            *)
(***************************************************************************)

\* A thread that pushes is at no label of a pop, nor of a call to try_push.
LEMMA PingStepInv == PingPongInv /\ PingStep => PingPongInv'
<1>. SUFFICES ASSUME PingPongInv, PingStep PROVE PingPongInv'
  OBVIOUS
<1>1. ASSUME Q1!PushStep(Ping), UNCHANGED <<at, round, second>> PROVE PingPongInv'
  <2>1. pc1[Ping] \in Labels
    BY DEF PingPongInv, TypeOK, FirstOK, QueueOK, Both
  <2>2. ~Q1!TryPushCheck(Ping) /\ ~Q1!TryPushClaim(Ping)
    BY <2>1 DEF Q1!TryPushCheck, Q1!TryPushClaim, Labels, PushLabels, PopLabels
  <2>. QED
    BY <1>1, <2>2, PingAwaits, PingWrites, PingPublishes DEF Q1!PushStep
<1>2. ASSUME Q2!PopStep(Ping), Popping(Ping, pc2'[Ping] = "idle", 1), UNCHANGED first
      PROVE  PingPongInv'
  <2>1. pc2[Ping] \in Labels
    BY DEF PingPongInv, TypeOK, SecondOK, QueueOK, Both
  <2>2. ~Q2!TryPopCheck(Ping) /\ ~Q2!TryPopClaim(Ping)
    BY <2>1 DEF Q2!TryPopCheck, Q2!TryPopClaim, Labels, PushLabels, PopLabels
  <2>3. CASE Q2!Read(Ping) /\ ~SPSC
    <3>1. PICK v \in {elements2[Q2!Slot(index2[Ping])], Torn} :
            Q2!Leave(Ping, "idle") /\ received2' = Append(received2, v)
      BY <2>3 DEF Q2!Read
    <3>2. v \in Contents
      BY <2>3, <3>1, ReadContents2
    <3>. QED
      BY <1>2, <2>3, <3>1, <3>2, PingGets DEF Q2!Read, Q2!Leave, Q2!Goto
  <2>4. CASE Q2!Release(Ping)
    <3>1. SPSC /\ element2[Ping] \in Contents
      BY <2>4 DEF Q2!Release, PingPongInv, TypeOK, ThreadsOK, SecondOK, QueueOK, Both
    <3>. QED
      BY <1>2, <2>4, <3>1, PingGets DEF Q2!Release, Q2!Leave, Q2!Goto
  <2>. QED
    BY <1>2, <2>2, <2>3, <2>4, PingWaits, PingCopies DEF Q2!PopStep
<1>. QED
  BY <1>1, <1>2 DEF PingStep

LEMMA PongStepInv == PingPongInv /\ PongStep => PingPongInv'
<1>. SUFFICES ASSUME PingPongInv, PongStep PROVE PingPongInv'
  OBVIOUS
<1>1. ASSUME Q2!PushStep(Pong), UNCHANGED <<at, round, first>> PROVE PingPongInv'
  <2>1. pc2[Pong] \in Labels
    BY DEF PingPongInv, TypeOK, SecondOK, QueueOK, Both
  <2>2. ~Q2!TryPushCheck(Pong) /\ ~Q2!TryPushClaim(Pong)
    BY <2>1 DEF Q2!TryPushCheck, Q2!TryPushClaim, Labels, PushLabels, PopLabels
  <2>. QED
    BY <1>1, <2>2, PongAwaits, PongWrites, PongPublishes DEF Q2!PushStep
<1>2. ASSUME Q1!PopStep(Pong), Popping(Pong, pc1'[Pong] = "idle", 0), UNCHANGED second
      PROVE  PingPongInv'
  <2>1. pc1[Pong] \in Labels
    BY DEF PingPongInv, TypeOK, FirstOK, QueueOK, Both
  <2>2. ~Q1!TryPopCheck(Pong) /\ ~Q1!TryPopClaim(Pong)
    BY <2>1 DEF Q1!TryPopCheck, Q1!TryPopClaim, Labels, PushLabels, PopLabels
  <2>3. CASE Q1!Read(Pong) /\ ~SPSC
    <3>1. PICK v \in {elements1[Q1!Slot(index1[Pong])], Torn} :
            Q1!Leave(Pong, "idle") /\ received1' = Append(received1, v)
      BY <2>3 DEF Q1!Read
    <3>2. v \in Contents
      BY <2>3, <3>1, ReadContents1
    <3>. QED
      BY <1>2, <2>3, <3>1, <3>2, PongGets DEF Q1!Read, Q1!Leave, Q1!Goto
  <2>4. CASE Q1!Release(Pong)
    <3>1. SPSC /\ element1[Pong] \in Contents
      BY <2>4 DEF Q1!Release, PingPongInv, TypeOK, ThreadsOK, FirstOK, QueueOK, Both
    <3>. QED
      BY <1>2, <2>4, <3>1, PongGets DEF Q1!Release, Q1!Leave, Q1!Goto
  <2>. QED
    BY <1>2, <2>2, <2>3, <2>4, PongWaits, PongCopies DEF Q1!PopStep
<1>. QED
  BY <1>1, <1>2 DEF PongStep

LEMMA StepInv == PingPongInv /\ [PingThread \/ PongThread]_vars => PingPongInv'
<1>. SUFFICES ASSUME PingPongInv, [PingThread \/ PongThread]_vars PROVE PingPongInv'
  OBVIOUS
<1>1. CASE UNCHANGED vars
  BY <1>1
     DEF vars, first, second, PingPongInv, TypeOK, ThreadsOK, FirstOK, SecondOK,
         QueueOK, CountsFollowRounds, OneCallEach, LockStep, TakenWhileFull, Puts1,
         Gets1, Puts2, Gets2
<1>. QED
  BY <1>1, PingPushStep, PingPopStep, PingStepInv, PongPopStep, PongPushStep,
     PongStepInv DEF PingThread, PongThread

(***************************************************************************)
(* What follows                                                            *)
(***************************************************************************)

\* The invariant of the two threads, whatever the number of rounds, the capacity
\* of the queues, and whether they are built with SPSC.
THEOREM PingPongInvariance == Spec => []PingPongInv
BY InitInv, StepInv, PTL DEF Spec

\* The threads go in lock step, which is the heart of the invariant.
THEOREM ThreadsInLockStep == Spec => []LockStep
<1>1. PingPongInv => LockStep
  BY DEF PingPongInv
<1>. QED
  BY <1>1, PingPongInvariance, PTL

\* The two queues together never hold more than one element: a latency benchmark
\* that measures one exchange at a time.
THEOREM AtMostOneInFlight == Spec => []OneInFlight
<1>1. PingPongInv => OneInFlight
  <2>. SUFFICES ASSUME PingPongInv PROVE OneInFlight
    OBVIOUS
  <2>1. Len(sent1) - Len(received1) + (Len(sent2) - Len(received2)) =
          One(at[Ping] # "push") - One(at[Pong] = "push")
    BY 
       DEF PingPongInv, TypeOK, ThreadsOK, Both, CountsFollowRounds, One,
           PingPongAssumption
  <2>2. ASSUME at[Ping] = "push", at[Pong] = "push" PROVE FALSE
    <3>1. Puts1 = round[Ping] /\ Gets2 = round[Ping]
      BY <2>2
         DEF PingPongInv, OneCallEach, CountsFollowRounds, Puts1, Gets2, One,
             Unmarked
    <3>2. Gets1 = round[Pong] + 1 /\ Puts2 = round[Pong]
      BY <2>2
         DEF PingPongInv, OneCallEach, CountsFollowRounds, Gets1, Puts2, One,
             Unmarked
    <3>. QED
      BY <3>1, <3>2, CountTypes, WhoseTurn DEF PingPongInv, LockStep
  <2>. QED
    BY <2>1, <2>2 DEF OneInFlight, One
<1>. QED
  BY <1>1, PingPongInvariance, PTL

\* No push ever waits for its slot, although its index may have gone round the
\* queue any number of times.
THEOREM NoPushWaits == Spec => []PushNeverWaits
<1>1. PingPongInv => PushNeverWaits
  <2>. SUFFICES ASSUME PingPongInv PROVE PushNeverWaits
    OBVIOUS
  <2>. USE PingPongAssumption DEF PingPongInv
  <2>1. ASSUME pc1[Ping] = "offer" PROVE states1[Q1!Slot(index1[Ping])] = "EMPTY"
    <3>1. index1[Ping] = Puts1 /\ Puts1 = Gets2
      BY <2>1
         DEF TypeOK, ThreadsOK, FirstOK, SecondOK, QueueOK, Both, CountsFollowRounds,
             OneCallEach, Puts1, Gets2, One, Unmarked
    <3>2. PICK n \in Nat : Gets2 = n /\ Puts2 = n /\ Gets1 = n /\ Puts1 = n
      BY <3>1, CountTypes, WhoseTurn DEF LockStep
    <3>3. Q1!Slot(n) \in Ring /\ states1 \in [Ring -> {"EMPTY", "FULL"}]
      BY SlotRange DEF TypeOK, FirstOK, QueueOK
    <3>. QED
      BY <3>1, <3>2, <3>3, NoneFull DEF LockStep
  <2>2. ASSUME pc2[Pong] = "offer" PROVE states2[Q2!Slot(index2[Pong])] = "EMPTY"
    <3>1. index2[Pong] = Puts2 /\ Puts2 < Gets1
      BY <2>2
         DEF TypeOK, ThreadsOK, FirstOK, SecondOK, QueueOK, Both, CountsFollowRounds,
             OneCallEach, Puts2, Gets1, One, Unmarked
    <3>2. PICK n \in Nat : Gets2 = n /\ Puts2 = n
      BY <3>1, CountTypes, WhoseTurn DEF LockStep
    <3>3. /\ Q2!Slot(n) \in Ring /\ states2 \in [Ring -> {"EMPTY", "FULL"}]
      BY SlotRange DEF TypeOK, SecondOK, QueueOK
    <3>. QED
      BY <3>1, <3>2, <3>3, NoneFull DEF LockStep
  <2>. QED
    BY <2>1, <2>2 DEF PushNeverWaits
<1>. QED
  BY <1>1, PingPongInvariance, PTL

(***************************************************************************)
(* The two threads never wait for each other                               *)
(***************************************************************************)

\* A thread that is inside its loop has a round to go; pong's last push is made
\* after its last round is counted.
InLoop ==
  /\ round[Ping] <= Rounds /\ round[Pong] <= Rounds
  /\ at[Ping] # "push" => round[Ping] < Rounds
  /\ at[Pong] # "pop" => round[Pong] < Rounds

LEMMA StepInLoop == PingPongInv /\ InLoop /\ [PingThread \/ PongThread]_vars => InLoop'
<1>. SUFFICES ASSUME PingPongInv, InLoop, [PingThread \/ PongThread]_vars PROVE InLoop'
  OBVIOUS
<1>0. /\ at \in [Both -> {"push", "pop", "popping"}] /\ round \in [Both -> Nat]
      /\ Ping \in Both /\ Pong \in Both /\ Ping # Pong /\ Rounds \in Nat
  BY PingPongAssumption DEF PingPongInv, TypeOK, ThreadsOK, Both
<1>1. CASE UNCHANGED <<at, round>>
  BY <1>1 DEF InLoop
<1>2. ASSUME NEW t \in Both, round[t] < Rounds, NEW l \in {"push", "pop", "popping"},
             at' = [at EXCEPT ![t] = l], round' = round
      PROVE  InLoop'
  BY <1>0, <1>2 DEF InLoop, Both
<1>3. CASE PingPush \/ PingPop \/ PongPop
  <2>1. round' = round
    BY <1>3 DEF PingPush, PingPop, PongPop
  <2>2. CASE PingPush
    BY <1>0, <1>2, <2>1, <2>2 DEF PingPush, Calls
  <2>3. CASE PingPop
    BY <1>0, <1>2, <2>1, <2>3 DEF PingPop, Calls
  <2>4. CASE PongPop
    BY <1>0, <1>2, <2>1, <2>4 DEF PongPop, Calls
  <2>. QED
    BY <1>3, <2>2, <2>3, <2>4
<1>4. CASE PongPush
  <2>1. /\ at' = [at EXCEPT ![Pong] = "pop"] /\ round[Pong] < Rounds
        /\ round' = [round EXCEPT ![Pong] = @ + 1]
    BY <1>4 DEF PongPush, Calls
  <2>. QED
    BY <1>0, <2>1 DEF InLoop
<1>5. CASE PingStep
  <2>1. CASE Popping(Ping, pc2'[Ping] = "idle", 1) /\ Q2!PopStep(Ping)
    <3>1. at[Ping] = "popping"
      BY <2>1
         DEF PingPongInv, OneCallEach, Q2!PopStep, Q2!TryPopCheck, Q2!TryPopClaim,
             Q2!AwaitFull, Q2!Read, Q2!Release
    <3>. QED
      BY <1>0, <1>1, <2>1, <3>1 DEF Popping, InLoop
  <2>. QED
    BY <1>1, <1>5, <2>1 DEF PingStep
<1>6. CASE PongStep
  <2>1. CASE Popping(Pong, pc1'[Pong] = "idle", 0) /\ Q1!PopStep(Pong)
    <3>1. at[Pong] = "popping"
      BY <2>1
         DEF PingPongInv, OneCallEach, Q1!PopStep, Q1!TryPopCheck, Q1!TryPopClaim,
             Q1!AwaitFull, Q1!Read, Q1!Release
    <3>. QED
      BY <1>0, <1>1, <2>1, <3>1 DEF Popping, InLoop
  <2>. QED
    BY <1>1, <1>6, <2>1 DEF PongStep
<1>. QED
  BY <1>1, <1>3, <1>4, <1>5, <1>6 DEF PingThread, PongThread, vars

LEMMA InitInLoop == Init => InLoop
BY PingPongAssumption DEF Init, InLoop

\* What a thread that waits says of the counts
LEMMA PongStuckCounts ==
  ASSUME PingPongInv, PongStuck
  PROVE  /\ at[Pong] = "popping" /\ pc2[Pong] = "idle"
         /\ Gets1 = round[Pong] /\ Puts1 = Gets1 /\ Puts2 = round[Pong]
<1>1. /\ pc1[Pong] = "wait" /\ at[Pong] = "popping" /\ pc2[Pong] = "idle"
      /\ index1[Pong] = tail1 - 1
  BY DEF PingPongInv, OneCallEach, PongStuck
<1>2. round[Pong] \in Nat /\ tail1 = round[Pong] + 1 /\ Len(received1) = round[Pong]
  BY <1>1 DEF PingPongInv, CountsFollowRounds, TypeOK, ThreadsOK, Both, One
<1>3. Gets1 = round[Pong] /\ index1[Pong] = Gets1 /\ Puts2 = round[Pong]
  BY <1>1, <1>2 DEF Gets1, Puts2, One, Unmarked, PingPongInv, CountsFollowRounds
<1>4. ~(Gets1 < Puts1)
  <2>1. Q1!Slot(Gets1) \in DOMAIN states1
    BY <1>2, <1>3, SlotRange DEF PingPongInv, TypeOK, FirstOK, QueueOK
  <2>. QED
    BY <1>3, <2>1 DEF PongStuck, PingPongInv, LockStep, OneFull
<1>5. Gets1 <= Puts1
  BY DEF PingPongInv, LockStep, InTurn
<1>. QED
  BY <1>1, <1>3, <1>4, <1>5, CountTypes

LEMMA PingStuckCounts ==
  ASSUME PingPongInv, PingStuck
  PROVE  /\ at[Ping] = "popping" /\ pc1[Ping] = "idle"
         /\ Gets2 = round[Ping] /\ Puts2 = Gets2 /\ Puts1 = round[Ping] + 1
<1>1. /\ pc2[Ping] = "wait" /\ at[Ping] = "popping" /\ pc1[Ping] = "idle"
      /\ index2[Ping] = tail2 - 1
  BY DEF PingPongInv, OneCallEach, PingStuck
<1>2. /\ round[Ping] \in Nat /\ tail2 = round[Ping] + 1 /\ Len(received2) = round[Ping]
      /\ Len(sent1) = round[Ping] + 1
  BY <1>1 DEF PingPongInv, CountsFollowRounds, TypeOK, ThreadsOK, Both, One
<1>3. Gets2 = round[Ping] /\ index2[Ping] = Gets2 /\ Puts1 = round[Ping] + 1
  BY <1>1, <1>2 DEF Gets2, Puts1, One, Unmarked
<1>4. ~(Gets2 < Puts2)
  <2>1. Q2!Slot(Gets2) \in DOMAIN states2 /\ Q2!Slot(Gets2) = Q1!Slot(Gets2)
    BY <1>2, <1>3, SlotRange DEF PingPongInv, TypeOK, SecondOK, QueueOK
  <2>. QED
    BY <1>3, <2>1 DEF PingStuck, PingPongInv, LockStep, OneFull
<1>5. Gets2 <= Puts2
  BY DEF PingPongInv, LockStep, InTurn
<1>. QED
  BY <1>1, <1>3, <1>4, <1>5, CountTypes

LEMMA StuckAlone == PingPongInv /\ InLoop => NoDeadlock
<1>. SUFFICES ASSUME PingPongInv, InLoop PROVE NoDeadlock
  OBVIOUS
<1>0. round[Ping] \in Nat /\ round[Pong] \in Nat /\ Rounds \in Nat
  BY PingPongAssumption DEF PingPongInv, TypeOK, ThreadsOK, Both
<1>1. ~(PingStuck /\ PongStuck)
  BY <1>0, PingStuckCounts, PongStuckCounts
<1>2. ASSUME PongStuck PROVE round[Ping] < Rounds
  <2>1. CASE at[Ping] # "push"
    BY <2>1 DEF InLoop
  <2>2. CASE at[Ping] = "push"
    <3>1. Puts1 = round[Ping]
      <4>1. pc1[Ping] = "idle" /\ Len(sent1) = round[Ping]
        BY <1>0, <2>2 DEF PingPongInv, OneCallEach, CountsFollowRounds, One
      <4>. QED
        BY <1>0, <4>1 DEF Puts1, One, Unmarked
    <3>2. round[Pong] < Rounds /\ Puts1 = round[Pong]
      BY <1>2, PongStuckCounts DEF InLoop
    <3>. QED
      BY <3>1, <3>2
  <2>. QED
    BY <2>1, <2>2
<1>3. ASSUME PingStuck, pc2[Pong] = "idle" PROVE round[Pong] < Rounds
  <2>1. Puts2 = round[Pong]
    BY <1>0, <1>3 DEF Puts2, One, Unmarked, PingPongInv, CountsFollowRounds
  <2>2. Puts2 = round[Ping] /\ round[Ping] < Rounds
    BY <1>3, PingStuckCounts DEF InLoop
  <2>. QED
    BY <2>1, <2>2
<1>. QED
  BY <1>1, <1>2, <1>3 DEF NoDeadlock

\* Ping and pong never wait for each other, and neither waits for a thread that
\* has ended: with NoPushWaits, the safety behind BothComplete.
THEOREM NeverDeadlocked == Spec => []NoDeadlock
<1>1. Spec => []InLoop
  BY StepInLoop, InitInLoop, PingPongInvariance, PTL DEF Spec
<1>. QED
  BY <1>1, StuckAlone, PingPongInvariance, PTL
=============================================================================
