----------------------------- MODULE BoundedFifo -----------------------------
(***************************************************************************)
(* What a bounded queue promises: a put appends an element when there is   *)
(* room, a get removes and returns the oldest element when there is one.   *)
(***************************************************************************)
EXTENDS Naturals, Sequences

CONSTANTS
  Values,   \* what the queue may hold
  Bound     \* how many elements it may hold at once

VARIABLES
  queue,    \* the elements in the queue, oldest first
  output    \* the elements the gets have returned, in order

Init == queue = <<>> /\ output = <<>>

Put(v) ==
  /\ Len(queue) < Bound
  /\ queue' = Append(queue, v)
  /\ UNCHANGED output

Get ==
  /\ queue # <<>>
  /\ output' = Append(output, Head(queue))
  /\ queue' = Tail(queue)

Next == Get \/ \E v \in Values : Put(v)

Spec == Init /\ [][Next]_<<queue, output>>
=============================================================================
