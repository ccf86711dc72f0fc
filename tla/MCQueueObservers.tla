-------------------------- MODULE MCQueueObservers ---------------------------
(***************************************************************************)
(* Instances of RelaxedCounters and QueueObservers for TLC.                *)
(***************************************************************************)
EXTENDS QueueObservers, TLC

\* The threads that do not ask are interchangeable, and so are nonzero elements.
Symmetry ==
  Permutations(Producers \ Observers) \cup Permutations(Consumers \ Observers)
    \cup Permutations(Elements \ {Zero})
=============================================================================
