----------------------- MODULE AtomicQueue2Invariant ------------------------
(***************************************************************************)
(* The inductive invariant behind the safety of a queue built with SPSC.   *)
(* TLC checks it on a small instance and AtomicQueue2Proofs proves it.     *)
(***************************************************************************)
EXTENDS AtomicQueue2Properties

PushLabels == {"push_check", "push_claim", "offer", "write", "publish"}
PopLabels == {"pop_check", "pop_claim", "wait", "read", "release"}

\* The producer has claimed index head - 1 and has yet to publish it; the
\* consumer has claimed index tail - 1 and has yet to return it.
Pushing == \E p \in Producers : pc[p] \in {"offer", "write", "publish"}
Popping == \E c \in Consumers : pc[c] \in {"wait", "read", "release"}

Returned == Len(received)
Visible == IF Pushing THEN head - 1 ELSE head

\* What the producer's locals and labels say of the counters and of its slot
ProducerOK(p) ==
  /\ pc[p] \notin PopLabels
  /\ pc[p] \in {"push_check", "push_claim"} => index[p] = head /\ element[p] \in Elements
  /\ pc[p] \in {"offer", "write", "publish"} =>
       head > 0 /\ index[p] = head - 1 /\ element[p] = sent[head]
  /\ pc[p] \in {"write", "publish"} => Visible - Returned < Capacity
  /\ pc[p] = "publish" => elements[Slot(index[p])] = element[p]

\* What the consumer's do
ConsumerOK(c) ==
  /\ pc[c] \notin PushLabels
  /\ pc[c] \in {"pop_check", "pop_claim"} => index[c] = tail
  /\ pc[c] \in {"wait", "read", "release"} => index[c] = Returned
  /\ pc[c] \in {"read", "release"} => Returned < Visible
  /\ pc[c] = "release" => element[c] = sent[Returned + 1]

\* The full slots are those of the visible indices that have not returned, at
\* most Capacity in a row, and hold what was sent for them.
SlotsOK ==
  /\ Returned <= Visible /\ Visible - Returned <= Capacity
  /\ \A s \in DOMAIN states :
       states[s] = "FULL" <=> \E i \in Returned .. (Visible - 1) : Slot(i) = s
  /\ \A i \in Returned .. (Visible - 1) : elements[Slot(i)] = sent[i + 1]

\* The inductive invariant of an SPSC queue
SpscInv ==
  /\ TypeOK
  /\ \A p \in Producers : ProducerOK(p)
  /\ \A c \in Consumers : ConsumerOK(c)
  /\ tail = IF Popping THEN Returned + 1 ELSE Returned
  /\ SlotsOK
  /\ \A i \in 1 .. Returned : received[i] = sent[i]
=============================================================================
