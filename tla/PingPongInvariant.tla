-------------------------- MODULE PingPongInvariant --------------------------
(***************************************************************************)
(* The inductive invariant behind the lock step of the two threads of      *)
(* PingPong.  TLC checks it on a small instance and PingPongProofs proves  *)
(* it.                                                                     *)
(***************************************************************************)
EXTENDS PingPong

Both == {Ping, Pong}
Ring == 0 .. (Capacity - 1)
Contents == Values \cup {Uninit, Torn}

\* The labels of a push and of a pop in progress
PushLabels == {"offer", "write", "publish"}
PopLabels == {"wait", "read", "release"}
Labels == {"idle"} \cup PushLabels \cup PopLabels

\* The ranges of a queue's variables
QueueOK(states, elements, pc, index, element, sent, received) ==
  /\ states \in [Ring -> {"EMPTY", "FULL"}] /\ elements \in [Ring -> Contents]
  /\ pc \in [Both -> Labels] /\ index \in [Both -> Int]
  /\ element \in [Both -> Contents]
  /\ sent \in Seq(Contents) /\ received \in Seq(Contents)

FirstOK == QueueOK(states1, elements1, pc1, index1, element1, sent1, received1)
SecondOK == QueueOK(states2, elements2, pc2, index2, element2, sent2, received2)

\* The threads' places, and the labels each can be at
ThreadsOK ==
  /\ at \in [Both -> {"push", "pop", "popping"}] /\ round \in [Both -> Nat]
  /\ pc1[Ping] \notin PopLabels /\ pc1[Pong] \notin PushLabels
  /\ pc2[Pong] \notin PopLabels /\ pc2[Ping] \notin PushLabels
  /\ ~SPSC => /\ pc1[Ping] # "publish" /\ pc1[Pong] # "release"
              /\ pc2[Pong] # "publish" /\ pc2[Ping] # "release"

TypeOK == ThreadsOK /\ FirstOK /\ SecondOK

\* At this label a push has not yet set its slot's state.
Unmarked(label) == label = "offer" \/ (SPSC /\ label \in {"write", "publish"})

One(condition) == IF condition THEN 1 ELSE 0

\* How often a slot of each queue has become full, and how often empty again
Puts1 == Len(sent1) - One(Unmarked(pc1[Ping]))
Gets1 == Len(received1) + One(~SPSC /\ pc1[Pong] = "read")
Puts2 == Len(sent2) - One(Unmarked(pc2[Pong]))
Gets2 == Len(received2) + One(~SPSC /\ pc2[Ping] = "read")

\* The counters and the lengths of the histories follow from where the threads
\* are in their loops.
CountsFollowRounds ==
  /\ head1 = Len(sent1) /\ Len(sent1) = round[Ping] + One(at[Ping] # "push")
  /\ tail1 = round[Pong] + One(at[Pong] # "pop")
  /\ Len(received1) = round[Pong] + One(at[Pong] = "push")
  /\ head2 = Len(sent2) /\ Len(sent2) = round[Pong]
  /\ tail2 = round[Ping] + One(at[Ping] = "popping") /\ Len(received2) = round[Ping]

\* A thread is in one call at a time, that of its place in the loop, and has
\* claimed that call's index.
OneCallEach ==
  /\ pc1[Ping] # "idle" => at[Ping] = "pop" /\ index1[Ping] = head1 - 1
  /\ pc2[Ping] # "idle" <=> at[Ping] = "popping"
  /\ pc2[Ping] # "idle" => index2[Ping] = tail2 - 1
  /\ pc1[Pong] # "idle" <=> at[Pong] = "popping"
  /\ pc1[Pong] # "idle" => index1[Pong] = tail1 - 1
  /\ pc2[Pong] # "idle" => at[Pong] = "pop" /\ index2[Pong] = head2 - 1

\* All slots are empty, but for that of index gets when one more put than gets has
\* happened.
OneFull(states, gets, puts) ==
  \A x \in DOMAIN states : states[x] = "FULL" <=> gets < puts /\ x = Q1!Slot(gets)

\* The order in which an element goes through the two queues, one at a time
InTurn(gets2, puts2, gets1, puts1) ==
  gets2 <= puts2 /\ puts2 <= gets1 /\ gets1 <= puts1 /\ puts1 <= gets2 + 1

\* The threads go in lock step: one element at most has become visible and not
\* been taken, in the first queue or in the second, and its slot alone is full.
LockStep ==
  /\ InTurn(Gets2, Puts2, Gets1, Puts1)
  /\ OneFull(states1, Gets1, Puts1) /\ OneFull(states2, Gets2, Puts2)

\* With SPSC the slot is still full while its element is copied.
TakenWhileFull ==
  SPSC => /\ pc1[Pong] \in {"read", "release"} => Gets1 < Puts1
          /\ pc2[Ping] \in {"read", "release"} => Gets2 < Puts2

\* The inductive invariant
PingPongInv == TypeOK /\ CountsFollowRounds /\ OneCallEach /\ LockStep /\ TakenWhileFull
=============================================================================
