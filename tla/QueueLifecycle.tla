--------------------------- MODULE QueueLifecycle ----------------------------
(***************************************************************************)
(* The life of one queue, from new to the end of drop: the constructors    *)
(* and destructors of AtomicQueueB, AtomicQueue2 and AtomicQueueB2, with   *)
(* allocations that fail, layouts that overflow and element destructors    *)
(* that panic.  AtomicQueueB2 keeps two raw blocks and manages both by     *)
(* hand; AtomicQueue2 keeps boxes, which free themselves.                  *)
(*                                                                         *)
(* Between new and drop the queue is used by any calls; what is left of    *)
(* them for drop is the set of slots whose state is FULL.  The arithmetic  *)
(* of capacities and slots is a parameter, which MCQueueLifecycle gives    *)
(* the operators of Geometry.                                              *)
(***************************************************************************)
EXTENDS Integers

CONSTANTS
  NewCapacity(_, _),       \* the capacity of a kind of queue for a size
  NewBits(_, _, _),        \* the shuffle_bits of a kind for a capacity and a line
  SlotIndex(_, _, _, _),   \* the slot of an index, by kind, capacity and bits
  Sizes,           \* the sizes queues are built with
  LineElements,    \* CACHE_LINE_SIZE / size_of::<CachePadded<AtomicU8>>()
  LifeBound        \* a queue of a larger capacity is not followed beyond new

ASSUME LifecycleAssumption ==
  Sizes \subseteq Nat /\ LineElements \subseteq Nat /\ LifeBound \in Nat

Kinds == {"AtomicQueue", "AtomicQueueB", "AtomicQueue2",
          "AtomicQueue2Plain", "AtomicQueueB2"}

VARIABLES
  kind,        \* the queue type, with MINIMIZE_CONTENTION for AtomicQueue2
  size,        \* the requested size
  capacity,    \* the capacity field
  bits,        \* the shuffle_bits field; the word-element queues have none
  phase,       \* how far the queue's life has got
  blocks,      \* each block of memory: "none", "live" or "freed"
  cells,       \* each state (AtomicQueueB: value): "raw", "live" or "dropped"
  full,        \* the slots whose state is FULL
  cursor,      \* the i of drop's loop
  destroyed,   \* history: how often each slot's element has been destroyed
  held         \* history: what was full when drop began

parameters == <<kind, size, capacity, bits>>
vars == <<kind, size, capacity, bits, phase, blocks, cells, full, cursor, destroyed, held>>

Slots == 0 .. (capacity - 1)

\* The queues with an array of states
TwoBlocks == kind \in {"AtomicQueue2", "AtomicQueue2Plain", "AtomicQueueB2"}

\* The queues whose blocks are boxes
Boxed == kind \in {"AtomicQueue2", "AtomicQueue2Plain"}

Slot(i) == SlotIndex(kind, capacity, bits, i)

\* The first capacity indices fall into all the slots, and so each into its own.
FillsRing(k, cap, b) == {SlotIndex(k, cap, b, i) : i \in 0 .. (cap - 1)} = 0 .. (cap - 1)

\* What the arithmetic must give for every queue that can be built
RingsFill ==
  \A k \in Kinds, n \in Sizes : (k = "AtomicQueue2Plain" => n > 0) =>
    /\ NewCapacity(k, n) \in Nat \ {0}
    /\ \A lines \in LineElements :
         LET b == NewBits(k, NewCapacity(k, n), lines)
         IN  b \in 0 .. 8 /\ FillsRing(k, NewCapacity(k, n), b)

All(value) == [s \in Slots |-> value]

\* Every live block becomes what is given.
Turn(value) ==
  blocks' = [b \in DOMAIN blocks |-> IF blocks[b] = "live" THEN value ELSE blocks[b]]

Init ==
  /\ kind \in Kinds
  /\ size \in Sizes
  \* get_slot of a plain queue of size 0 divides by zero.
  /\ kind = "AtomicQueue2Plain" => size > 0
  /\ capacity = NewCapacity(kind, size)
  /\ \E lines \in LineElements : bits = NewBits(kind, capacity, lines)
  /\ phase = "new"
  /\ blocks = [b \in {"states", "elements"} |-> "none"]
  /\ cells = All("raw")
  /\ full = {}
  /\ cursor = 0
  /\ destroyed = All(0)
  /\ held = {}

(***************************************************************************)
(* new                                                                     *)
(***************************************************************************)

\* The first block: that of the states, or the only one of AtomicQueueB.  When
\* the layout overflows new panics, and when the allocation fails it aborts,
\* before there is anything to release.
AllocateFirst ==
  /\ phase = "new" /\ capacity <= LifeBound /\ kind # "AtomicQueue"
  /\ \/ /\ phase' = IF TwoBlocks THEN "second" ELSE "ready"
        /\ blocks' =
             [blocks EXCEPT ![IF TwoBlocks THEN "states" ELSE "elements"] = "live"]
        /\ cells' = All("live")
     \/ phase' = "panicked" /\ UNCHANGED <<blocks, cells>>
     \/ phase' = "aborted" /\ UNCHANGED <<blocks, cells>>
  /\ UNCHANGED <<parameters, full, cursor, destroyed, held>>

\* The second block, that of the elements, which stay uninitialised.
AllocateSecond ==
  /\ phase = "second"
  /\ phase' = "ready"
  /\ blocks' = [blocks EXCEPT !["elements"] = "live"]
  /\ UNCHANGED <<parameters, cells, full, cursor, destroyed, held>>

\* A slip: the abort without the clean-up.
FailSecondHastily ==
  /\ phase = "second"
  /\ phase' = "aborted"
  /\ UNCHANGED <<parameters, blocks, cells, full, cursor, destroyed, held>>

\* The second allocation fails.  AtomicQueueB2 drops the states and frees their
\* block, and then aborts; a Vec aborts at once.
FailSecond ==
  /\ phase = "second"
  /\ phase' = "aborted"
  /\ IF Boxed THEN UNCHANGED <<blocks, cells>>
     ELSE Turn("freed") /\ cells' = All("dropped")
  /\ UNCHANGED <<parameters, full, cursor, destroyed, held>>

\* The layout of the second block overflows and new panics: a box frees the
\* states while it unwinds; the raw block of AtomicQueueB2 is left.
OverflowSecond ==
  /\ phase = "second"
  /\ phase' = "panicked"
  /\ IF Boxed THEN Turn("freed") /\ cells' = All("dropped")
     ELSE UNCHANGED <<blocks, cells>>
  /\ UNCHANGED <<parameters, full, cursor, destroyed, held>>

(***************************************************************************)
(* Use, and drop                                                           *)
(***************************************************************************)

\* A push into, or a pop from, the slot of index i, seen from after its return.
Use(i) ==
  /\ phase = "ready" /\ TwoBlocks
  /\ full' = IF Slot(i) \in full THEN full \ {Slot(i)} ELSE full \cup {Slot(i)}
  /\ UNCHANGED <<parameters, phase, blocks, cells, cursor, destroyed, held>>

BeginDrop ==
  /\ phase = "ready"
  /\ phase' = "dropping"
  /\ held' = full
  /\ UNCHANGED <<parameters, blocks, cells, full, cursor, destroyed>>

\* The slot that drop's loop visits: AtomicQueueB's loop takes i as it is.
Visited == IF TwoBlocks THEN Slot(cursor) ELSE cursor

\* One round of the loop: the element is destroyed if the slot is full.  The two
\* raw queues then drop the atomic itself, which changes none of its bytes.
DropSlot ==
  /\ phase = "dropping" /\ cursor < capacity
  /\ destroyed' = IF Visited \in full
                  THEN [destroyed EXCEPT ![Visited] = @ + 1] ELSE destroyed
  /\ cells' = IF Boxed THEN cells ELSE [cells EXCEPT ![Visited] = "dropped"]
  /\ cursor' = cursor + 1
  /\ UNCHANGED <<parameters, phase, blocks, full, held>>

\* The element's destructor panics.  The loop ends there; boxes are still freed.
DestructorPanics ==
  /\ phase = "dropping" /\ cursor < capacity
  /\ Visited \in full
  /\ destroyed' = [destroyed EXCEPT ![Visited] = @ + 1]
  /\ phase' = "unwound"
  /\ IF Boxed THEN Turn("freed") /\ cells' = All("dropped")
     ELSE UNCHANGED <<blocks, cells>>
  /\ UNCHANGED <<parameters, full, cursor, held>>

\* The deallocations at the end of drop, or the boxes' own drop after it.
EndDrop ==
  /\ phase = "dropping" /\ cursor = capacity
  /\ phase' = "gone"
  /\ Turn("freed")
  /\ cells' = IF Boxed THEN All("dropped") ELSE cells
  /\ UNCHANGED <<parameters, full, cursor, destroyed, held>>

Next ==
  \/ AllocateFirst \/ AllocateSecond \/ FailSecond \/ OverflowSecond
  \/ \E i \in Slots : Use(i)
  \/ BeginDrop \/ DropSlot \/ DestructorPanics \/ EndDrop

Spec == Init /\ [][Next]_vars

(***************************************************************************)
(* Properties                                                              *)
(***************************************************************************)

TypeOK ==
  /\ kind \in Kinds /\ size \in Sizes
  /\ capacity \in Nat \ {0} /\ bits \in 0 .. 8
  /\ phase \in {"new", "second", "ready", "dropping", "gone",
                "aborted", "panicked", "unwound"}
  /\ blocks \in [{"states", "elements"} -> {"none", "live", "freed"}]
  /\ cells \in [Slots -> {"raw", "live", "dropped"}]
  /\ full \subseteq Slots /\ held \subseteq Slots
  /\ cursor \in 0 .. capacity
  /\ destroyed \in [Slots -> Nat]

\* Whatever the remapping, drop's loop visits only slots of the array, and each
\* atomic it loads or drops has been initialised and not dropped before.
VisitsLiveCells ==
  phase = "dropping" /\ cursor < capacity =>
    Visited \in Slots /\ cells[Visited] = "live"

\* No element is destroyed twice, even when a destructor panics in the middle,
\* and a drop that ends normally has destroyed exactly what was full.
DestroyedOnce ==
  /\ \A s \in Slots : destroyed[s] <= (IF s \in held THEN 1 ELSE 0)
  /\ phase = "gone" => \A s \in held : destroyed[s] = 1

\* Once a queue's drop has ended, and when new of a raw queue gives up, each
\* block it allocated has been freed: nothing is left of a failed second
\* allocation.  (A layout that overflows for the elements, and a destructor that
\* panics, leave the raw blocks.)
NoBlockLeft ==
  phase = "gone" \/ (phase = "aborted" /\ ~Boxed) =>
    \A b \in DOMAIN blocks : blocks[b] # "live"
=============================================================================
