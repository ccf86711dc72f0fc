--------------------------- MODULE MCAtomicQueue2 ----------------------------
(***************************************************************************)
(* Instances of AtomicQueue2 for TLC.                                      *)
(***************************************************************************)
EXTENDS AtomicQueue2Invariant

\* Each element is pushed at most once, so every claimed index is below this.
EveryPairServed == PairsServed(Cardinality(Elements))
=============================================================================
