-------------------------- MODULE MCQueueLifecycle ---------------------------
(***************************************************************************)
(* The lives of queues built with the arithmetic of Geometry, and what     *)
(* that arithmetic promises for the queues that are built.                 *)
(***************************************************************************)
EXTENDS QueueLifecycleInvariant, Geometry, Digits

ASSUME SizesAssumption == Sizes \subseteq 0 .. 2^(Width - 1)

\* The smearing shifts of round_up_to_power_of_2 find the least power of two
\* that is not below their argument, for every word up to the greatest power of
\* two, and wrap to zero above it.
RoundUpIsLeast ==
  phase = "new" => \A n \in Words : IsLeastPowerOfTwo(RoundUp(n), n)

\* remap_index swaps the two lowest bits-wide digits of its argument, which is
\* what its comment and its test say of it, and so is its own inverse.
RemapSwapsDigits ==
  phase = "new" => \A i \in Words :
    Remap(i, bits) = DigitsSwapped(i, 2^bits) /\ Remap(Remap(i, bits), bits) = i

\* Capacity consecutive indices fall into Capacity different slots of the
\* array, so that two indices share a slot only when they are a lap apart.  The
\* counter's wrap from 2^Width - 1 to 0 keeps this true for a capacity that is
\* a power of two; a plain AtomicQueue2 of another size loses it there.
LapFillsEverySlot ==
  phase = "new" => RingsFill /\ \A i \in Words :
    (IsPowerOfTwo(capacity) \/ i + capacity <= 2^Width) =>
      LapFrom(kind, capacity, bits, i) = Slots
=============================================================================
