--------------------------- MODULE MCCollectorLive ---------------------------
(***************************************************************************)
(* Collector under fairness, with finitely many disturbances: somebody who *)
(* adds and deletes a market in every poll, or restarts the process, for   *)
(* ever can keep a resolved market from ever reaching its third miss.      *)
(***************************************************************************)
EXTENDS Collector

CONSTANT MaxDisturbances   \* bound on requests and restarts

VARIABLE disturbances

LiveNext ==
    \/ /\ disturbances < MaxDisturbances
       /\ disturbances' = disturbances + 1
       /\ Request \/ Restart
    \/ /\ UNCHANGED disturbances
       /\ \/ \E m \in Id : StartCommit(m)
          \/ Poll
          \/ Backfill
          \/ AdvanceTime
          \/ \E c \in Cond : Resolve(c)

LiveSpec ==
    /\ Init /\ disturbances = 0
    /\ [][LiveNext]_<<vars, disturbances>>
    /\ Fairness
=============================================================================
