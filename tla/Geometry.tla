------------------------------ MODULE Geometry -------------------------------
(***************************************************************************)
(* How the four queues choose their capacity and map an index to a slot:   *)
(* the index arithmetic of src/src/arch.rs and its use in the constructors *)
(* and in get_element and get_slot.  Every operator is a function of its   *)
(* arguments; QueueLifecycle builds queues with them.                      *)
(***************************************************************************)
EXTENDS Integers, Bitwise

CONSTANT
  Width            \* bits of a machine word

ASSUME WidthAssumption == Width \in {8, 16}

Words == 0 .. (2^Width - 1)

(***************************************************************************)
(* arch.rs                                                                 *)
(***************************************************************************)

\* n |= n >> s
Smear(n, s) == n | shiftR(n, s)

\* A misreading: the decrement that makes a power of two its own image is lost.
RoundUpStrictly(n) ==
  IF n = 0 THEN 1
  ELSE (Smear(Smear(Smear(Smear(n, 1), 2), 4), 8) + 1) % 2^Width

\* A slip: without the guard, the decrement of 0 wraps to the greatest word.
RoundUpUnguarded(n) ==
  (Smear(Smear(Smear(Smear((n - 1) % 2^Width, 1), 2), 4), 8) + 1) % 2^Width

\* round_up_to_power_of_2; its further shifts, by 16 and 32, change no word of
\* at most 16 bits.  The last addition wraps, as a release build does.
RoundUp(n) ==
  IF n = 0 THEN 1
  ELSE (Smear(Smear(Smear(Smear(n - 1, 1), 2), 4), 8) + 1) % 2^Width

\* get_cache_line_index_bits
CacheLineIndexBits(n) ==
  IF \E b \in 1 .. 8 : n = 2^b THEN CHOOSE b \in 1 .. 8 : n = 2^b ELSE 0

\* A slip: the array is compared with one line instead of a square of lines.
ShuffleBitsEager(n, lines) ==
  LET b == CacheLineIndexBits(lines) IN IF n < 2^b THEN 0 ELSE b

\* get_index_shuffle_bits, for minimize_contention
ShuffleBits(n, lines) ==
  LET b == CacheLineIndexBits(lines) IN IF n < 2^(b * 2) THEN 0 ELSE b

\* A slip: the mixed bits are folded back into the high field only.
RemapHalf(i, b) ==
  LET mask == 2^b - 1
      mix  == (i ^^ shiftR(i, b)) & mask
  IN  IF b = 0 THEN i ELSE i ^^ (mix * 2^b)

\* remap_index
Remap(i, b) ==
  LET mask == 2^b - 1
      mix  == (i ^^ shiftR(i, b)) & mask
  IN  IF b = 0 THEN i ELSE (i ^^ mix) ^^ (mix * 2^b)

(***************************************************************************)
(* The constructors and the slot of an index                               *)
(***************************************************************************)

\* new, the part that fixes the capacity.
CapacityOf(k, n) ==
  CASE k \in {"AtomicQueue", "AtomicQueue2", "AtomicQueueB2"} -> RoundUp(n)
    [] k = "AtomicQueueB" -> RoundUp(IF n > 2 THEN n ELSE 2)
    [] k = "AtomicQueue2Plain" -> n

\* new, the part that fixes shuffle_bits.
BitsOf(k, cap, lines) ==
  IF k \in {"AtomicQueue2", "AtomicQueueB2"} THEN ShuffleBits(cap, lines) ELSE 0

\* SimpleIndex::get_index
Modulo(i, cap) == i % cap

\* PowerOf2Index::get_index
Mask(i, cap) == i & (cap - 1)

\* get_element, and get_slot of the element-by-state queues
SlotOf(k, cap, b, i) ==
  Remap(IF k \in {"AtomicQueue2", "AtomicQueue2Plain"} THEN Modulo(i, cap)
        ELSE Mask(i, cap), b)

(***************************************************************************)
(* Properties of the arithmetic                                            *)
(***************************************************************************)

IsPowerOfTwo(n) == \E k \in 0 .. Width : n = 2^k

\* r is the least power of two that is not below n; above the greatest power of
\* two the addition wraps to zero.
IsLeastPowerOfTwo(r, n) ==
  IF n > 2^(Width - 1)
  THEN r = 0
  ELSE IsPowerOfTwo(r) /\ r >= n /\ (r > 1 => r \div 2 < n)

\* The slots of the cap indices from i on, across the wrap of the counter
LapFrom(k, cap, b, i) == {SlotOf(k, cap, b, (i + n) % 2^Width) : n \in 0 .. (cap - 1)}
=============================================================================
