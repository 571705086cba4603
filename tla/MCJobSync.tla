------------------------------ MODULE MCJobSync ------------------------------
(***************************************************************************)
(* Callers that meet over something shared: the syncs of the polling jobs  *)
(* that race over three intervals, and the page's requests that queue at   *)
(* the lock of one match.  The two share no state, so a behaviour runs one *)
(* of them, chosen at the start.                                           *)
(***************************************************************************)
EXTENDS JobSync, TraderSync

VARIABLE part

raceVars == <<part, vars, syncVars>>

RaceInit ==
    /\ part \in {"jobs", "match"}
    /\ Init /\ SyncInit
    /\ part = "match" => Wanted = {}

RaceNext ==
    /\ UNCHANGED part
    /\ \/ part = "jobs" /\ Next /\ UNCHANGED syncVars
       \/ part = "match" /\ SyncNext /\ UNCHANGED vars

\* TraderSync's fairness: the holder of the lock goes on, the syncs need not.
RaceSpec == RaceInit /\ [][RaceNext]_raceVars /\ WF_syncVars(MatchStep)
=============================================================================
