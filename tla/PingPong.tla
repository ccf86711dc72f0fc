------------------------------ MODULE PingPong -------------------------------
(***************************************************************************)
(* The latency benchmark (src/examples/benchmark.rs, and for each queue    *)
(* type src/benches/latency.rs): two threads and two queues of the type    *)
(* AtomicQueue2.  Ping pushes to the first queue and waits in pop for the  *)
(* answer on the second; pong pops the first and pushes what it got to the *)
(* second.                                                                 *)
(***************************************************************************)
EXTENDS Integers, Sequences, SequencesExt

CONSTANTS
  Ping, Pong,      \* the two threads
  Rounds,          \* PING_PONG_ITERATIONS
  Uninit, Torn,    \* what unwritten and half-written slots hold
  Capacity,        \* the capacity of both queues
  TotalOrder, SPSC, OverflowChecks

ASSUME PingPongAssumption ==
  /\ Rounds \in Nat /\ Ping # Pong
  /\ Capacity \in Nat \ {0} /\ SPSC \in BOOLEAN

Values == 0 .. (Rounds - 1)

VARIABLES
  at,       \* each thread's next call, "push" or "pop", or "popping"
  round,    \* how many times each thread has been through its loop
  head1, tail1, states1, elements1, pc1, index1, element1,
  unsent1, sent1, received1, dropped1,
  head2, tail2, states2, elements2, pc2, index2, element2,
  unsent2, sent2, received2, dropped2

first == <<head1, tail1, states1, elements1, pc1, index1, element1,
           unsent1, sent1, received1, dropped1>>
second == <<head2, tail2, states2, elements2, pc2, index2, element2,
            unsent2, sent2, received2, dropped2>>
vars == <<at, round, first, second>>

Q1 == INSTANCE AtomicQueue2
        WITH Producers <- {Ping}, Consumers <- {Pong}, Elements <- Values,
             Calls <- {"push", "pop"}, head <- head1, tail <- tail1,
             states <- states1, elements <- elements1, pc <- pc1, index <- index1,
             element <- element1, unsent <- unsent1, sent <- sent1,
             received <- received1, dropped <- dropped1

Q2 == INSTANCE AtomicQueue2
        WITH Producers <- {Pong}, Consumers <- {Ping}, Elements <- Values,
             Calls <- {"push", "pop"}, head <- head2, tail <- tail2,
             states <- states2, elements <- elements2, pc <- pc2, index <- index2,
             element <- element2, unsent <- unsent2, sent <- sent2,
             received <- received2, dropped <- dropped2

Init ==
  /\ Q1!Init /\ Q2!Init
  /\ at = [t \in {Ping, Pong} |-> IF t = Ping THEN "push" ELSE "pop"]
  /\ round = [t \in {Ping, Pong} |-> 0]

\* Thread t makes its next call, once the one before has returned.
Calls(t, call, then) ==
  /\ at[t] = call
  /\ round[t] < Rounds
  /\ pc1[t] = "idle" /\ pc2[t] = "idle"
  /\ at' = [at EXCEPT ![t] = then]

\* A pop that t makes at the end (ping) or the beginning (pong) of its loop goes
\* on; done is whether it returns in this step.
Popping(t, done, rounds) ==
  IF done
  THEN /\ at' = [at EXCEPT ![t] = "push"]
       /\ round' = [round EXCEPT ![t] = @ + rounds]
  ELSE UNCHANGED <<at, round>>

\* ping: push(i)
PingPush ==
  /\ Calls(Ping, "push", "pop")
  /\ Q1!PushOf(Ping, round[Ping])
  /\ UNCHANGED <<unsent1, round, second>>

PingPop ==
  /\ Calls(Ping, "pop", "popping")
  /\ Q2!Pop(Ping)
  /\ UNCHANGED <<round, first>>

PingStep ==
  \/ Q1!PushStep(Ping) /\ UNCHANGED <<at, round, second>>
  \/ Q2!PopStep(Ping) /\ Popping(Ping, pc2'[Ping] = "idle", 1) /\ UNCHANGED first

PongPop ==
  /\ Calls(Pong, "pop", "popping")
  /\ Q1!Pop(Pong)
  /\ UNCHANGED <<round, second>>

\* pong: push of what the pop has returned, whatever that is
PongPush ==
  /\ Calls(Pong, "push", "pop")
  /\ Q2!PushOf(Pong, Last(received1))
  /\ round' = [round EXCEPT ![Pong] = @ + 1]
  /\ UNCHANGED <<unsent2, first>>

PongStep ==
  \/ Q1!PopStep(Pong) /\ Popping(Pong, pc1'[Pong] = "idle", 0) /\ UNCHANGED second
  \/ Q2!PushStep(Pong) /\ UNCHANGED <<at, round, first>>

PingThread == PingPush \/ PingPop \/ PingStep
PongThread == PongPop \/ PongPush \/ PongStep

\* The scheduler runs both threads.
Spec == Init /\ [][PingThread \/ PongThread]_vars
             /\ WF_vars(PingThread) /\ WF_vars(PongThread)

(***************************************************************************)
(* Properties                                                              *)
(***************************************************************************)

\* Each thread waits for the other in its pop, so the two queues together never
\* hold more than one element, although push itself never waits for an answer.
OneInFlight ==
  (Len(sent1) - Len(received1)) + (Len(sent2) - Len(received2)) \in {0, 1}

\* No push waits: its slot is always free again, also when the indices have gone
\* round the queue, because the pop of the lap before has set its state.
PushNeverWaits ==
  /\ pc1[Ping] = "offer" => states1[Q1!Slot(index1[Ping])] = "EMPTY"
  /\ pc2[Pong] = "offer" => states2[Q2!Slot(index2[Pong])] = "EMPTY"

\* A thread in pop whose slot has not become full yet
PingStuck == pc2[Ping] = "wait" /\ states2[Q2!Slot(index2[Ping])] # "FULL"
PongStuck == pc1[Pong] = "wait" /\ states1[Q1!Slot(index1[Pong])] # "FULL"

\* The threads never wait for each other, and the one that a thread waits for has
\* not ended: it has a round to go or is in its last push.
NoDeadlock ==
  /\ ~(PingStuck /\ PongStuck)
  /\ PongStuck => round[Ping] < Rounds
  /\ PingStuck => round[Pong] < Rounds \/ pc2[Pong] # "idle"

\* "Wait for both threads to complete" (benchmark.rs:198) comes to an end.
BothComplete ==
  <>(\A t \in {Ping, Pong} : round[t] = Rounds /\ pc1[t] = "idle" /\ pc2[t] = "idle")
=============================================================================
