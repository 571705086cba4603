----------------------------- MODULE MCCollector -----------------------------
(***************************************************************************)
(* Small instances of Collector.  A second condition makes id reuse        *)
(* possible (delete the newest market, track the other one), and a second  *)
(* slot lets the newcomer queue its own backfill while the download of its *)
(* predecessor is still in flight.                                         *)
(***************************************************************************)
EXTENDS Collector, TLC

CONSTANT MaxTicks   \* bound on stored ticks

\* Conditions and slots are interchangeable; sound for the safety runs, which use no
\* liveness.
Symmetry == Permutations(Cond) \cup Permutations(Slot)

\* States past this are still checked, but not explored from.  An answer may omit any
\* token whether or not its book is gone, so safety loses nothing to `resolved` = {}; a
\* start request sets one tracking flag, as TrackKnown does, and is followed with polls in
\* flight but not with backfills.
Bounded ==
    /\ Cardinality(ticks) <= MaxTicks
    /\ resolved = {}
    /\ starting = {} \/ tasks = << >>
=============================================================================
