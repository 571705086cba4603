------------------------- MODULE MCCollectorHistory -------------------------
(***************************************************************************)
(* One market with two outcomes under two poll intervals and two backfill  *)
(* tasks: two polls of one market in flight after its interval changed,    *)
(* two downloads of one history, partial answers, and the market deleted   *)
(* and tracked again under its old id.                                     *)
(***************************************************************************)
EXTENDS CollectorHistory, TLC

CONSTANT MaxTicks   \* bound on stored ticks

\* Backfill tasks are interchangeable; sound for the safety runs, which use no liveness.
Symmetry == Permutations(Slot)

Bounded == Cardinality(ticks) <= MaxTicks /\ resolved = {}
=============================================================================
