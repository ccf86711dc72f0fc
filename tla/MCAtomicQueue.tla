---------------------------- MODULE MCAtomicQueue ----------------------------
(***************************************************************************)
(* Instances of AtomicQueue for TLC.                                       *)
(***************************************************************************)
EXTENDS AtomicQueueInvariant, FiniteSets, TLC

CONSTANT Suspended   \* threads that may stop between any two steps, for ever

\* Every other thread goes on with its call.
SuspendingSpec == Spec /\ FairnessOf(Threads \ Suspended)

\* Each element is pushed at most once, so every claimed index is below this.
Pushes == Cardinality(Elements)

EveryServedUntilLapped == ServedUntilLapped(Pushes, Suspended)

\* For safety, threads and nonzero elements are interchangeable.
Symmetry ==
  Permutations(Producers) \cup Permutations(Consumers)
    \cup Permutations(Elements \ {Zero})
=============================================================================
