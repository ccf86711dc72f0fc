----------------------- MODULE QueueLifecycleInvariant -----------------------
(***************************************************************************)
(* The inductive invariant behind the clean-up that drop and a failed new  *)
(* of QueueLifecycle do.  TLC checks it on the sizes of MCQueueLifecycle   *)
(* and QueueLifecycleProofs proves it.                                     *)
(***************************************************************************)
EXTENDS QueueLifecycle

\* The slot that drop's loop visits in round i
SlotVisited(i) == IF TwoBlocks THEN Slot(i) ELSE i

Done(s) == \E i \in 0 .. (cursor - 1) : SlotVisited(i) = s

\* Before drop nothing has been destroyed, and new has made what its progress says.
BeforeDrop ==
  /\ phase \in {"new", "second", "ready", "aborted", "panicked"} =>
       held = {} /\ destroyed = All(0) /\ cursor = 0
  /\ phase = "new" => \A b \in DOMAIN blocks : blocks[b] = "none"
  /\ phase \in {"second", "ready"} => kind # "AtomicQueue" /\ cells = All("live")
  /\ phase = "second" => TwoBlocks /\ blocks["elements"] = "none"
  /\ phase = "aborted" /\ ~Boxed => \A b \in DOMAIN blocks : blocks[b] # "live"
  /\ ~TwoBlocks => full = {}

\* In the middle of drop the slots that the loop has visited, and no others, are
\* dropped: their atomics, unless boxes do it, and the elements they held.
InDrop ==
  phase = "dropping" =>
    /\ full = held
    /\ \A s \in Slots :
         /\ destroyed[s] = IF s \in held /\ Done(s) THEN 1 ELSE 0
         /\ cells[s] = IF ~Boxed /\ Done(s) THEN "dropped" ELSE "live"

\* After drop
AfterDrop ==
  phase = "gone" =>
    /\ \A s \in held : destroyed[s] = 1
    /\ \A b \in DOMAIN blocks : blocks[b] # "live"

\* The inductive invariant
LifeInv ==
  /\ TypeOK /\ FillsRing(kind, capacity, bits)
  /\ \A s \in Slots : destroyed[s] <= (IF s \in held THEN 1 ELSE 0)
  /\ BeforeDrop /\ InDrop /\ AfterDrop
=============================================================================
