------------------------------- MODULE JobSync -------------------------------
(***************************************************************************)
(* scheduler.sync_jobs: keeping one APScheduler polling job per interval   *)
(* that some tracked market uses.                                          *)
(*                                                                         *)
(* It is called from the event loop (poll, track, sync_mlb_intervals) and  *)
(* from the worker threads of the start / stop / patch / delete handlers,  *)
(* with no lock: it reads the database, then the job list, then adds and   *)
(* removes jobs one by one.  An actor is one of those callers; the event   *)
(* loop counts as one actor, because sync_jobs does not await.             *)
(*                                                                         *)
(* Abstractions: the database is reduced to what the query returns, the    *)
(* interval of every tracked market; a job id is the interval it polls, or *)
(* a member of Named for the collector's other jobs.                       *)
(***************************************************************************)
EXTENDS Naturals, FiniteSets

CONSTANTS Market, Interval, Named, Actor, Off

ASSUME DisjointIdsAssumption == Named \cap Interval = {}
ASSUME OffAssumption == Off \notin Interval

VARIABLES
    interval,  \* interval[m]: poll interval of a tracked market, Off when not tracked
    jobs,      \* ids of the scheduled jobs
    pc,        \* where each actor is
    wanted,    \* sync_jobs' first local
    adds,      \* wanted - current, what is left of it
    drops,     \* current - wanted without the named jobs, what is left of it
    alone      \* history: no other actor has been active since this sync began

vars == <<interval, jobs, pc, wanted, adds, drops, alone>>
locals == <<wanted, adds, drops>>

Wanted == {interval[m] : m \in Market} \ {Off}

\* start(): sync_jobs and then the named jobs, before the first request is served.
Init ==
    /\ interval \in [Market -> Interval \cup {Off}]
    /\ jobs = Wanted \cup Named
    /\ pc = [a \in Actor |-> "idle"]
    /\ wanted = [a \in Actor |-> {}]
    /\ adds = [a \in Actor |-> {}]
    /\ drops = [a \in Actor |-> {}]
    /\ alone = [a \in Actor |-> FALSE]

Return(a) ==
    /\ pc' = [pc EXCEPT ![a] = "idle"]
    /\ wanted' = [wanted EXCEPT ![a] = {}]
    /\ adds' = [adds EXCEPT ![a] = {}]
    /\ drops' = [drops EXCEPT ![a] = {}]
    /\ alone' = [alone EXCEPT ![a] = FALSE]

\* A caller commits its change of one market (track, start, stop, patch, delete, close,
\* MLB speed change) and is about to call sync_jobs.
Change(a, m, i) ==
    /\ pc[a] = "idle"
    /\ interval' = [interval EXCEPT ![m] = i]
    /\ pc' = [pc EXCEPT ![a] = "called"]
    /\ alone' = [b \in Actor |-> b = a /\ \A x \in Actor : pc[x] = "idle"]
    /\ UNCHANGED <<jobs, locals>>

ReadWanted(a) ==
    /\ pc[a] = "called"
    /\ wanted' = [wanted EXCEPT ![a] = Wanted]
    /\ pc' = [pc EXCEPT ![a] = "read"]
    /\ UNCHANGED <<interval, jobs, adds, drops, alone>>

\* A mutant of Removable: no prefix guard.
RemovableAny(current, w) == current \ w

\* A mutant of Removable: jobs are added and never removed.
RemovableNone(current, w) == {}

\* "Only ever remove the collector's own per-interval poll jobs."
Removable(current, w) == (current \ w) \cap Interval

ReadJobs(a) ==
    /\ pc[a] = "read"
    /\ adds' = [adds EXCEPT ![a] = wanted[a] \ jobs]
    /\ drops' = [drops EXCEPT ![a] = Removable(jobs, wanted[a])]
    /\ pc' = [pc EXCEPT ![a] = "apply"]
    /\ UNCHANGED <<interval, jobs, wanted, alone>>

\* add_job; an id that another actor added meanwhile raises ConflictingIdError, and the
\* caller is left in the middle of its sync.
AddJob(a, j) ==
    /\ pc[a] = "apply"
    /\ j \in adds[a]
    /\ IF j \in jobs
         THEN Return(a) /\ UNCHANGED jobs
         ELSE /\ jobs' = jobs \cup {j}
              /\ adds' = [adds EXCEPT ![a] = @ \ {j}]
              /\ UNCHANGED <<pc, wanted, drops, alone>>
    /\ UNCHANGED interval

\* remove_job, after every addition; an id that is gone raises JobLookupError.
RemoveJob(a, j) ==
    /\ pc[a] = "apply"
    /\ adds[a] = {}
    /\ j \in drops[a]
    /\ IF j \notin jobs
         THEN Return(a) /\ UNCHANGED jobs
         ELSE /\ jobs' = jobs \ {j}
              /\ drops' = [drops EXCEPT ![a] = @ \ {j}]
              /\ UNCHANGED <<pc, wanted, adds, alone>>
    /\ UNCHANGED interval

Finish(a) ==
    /\ pc[a] = "apply"
    /\ adds[a] = {}
    /\ drops[a] = {}
    /\ Return(a)
    /\ UNCHANGED <<interval, jobs>>

Next ==
    \E a \in Actor :
        \/ \E m \in Market, i \in Interval \cup {Off} : Change(a, m, i)
        \/ ReadWanted(a)
        \/ ReadJobs(a)
        \/ \E j \in Interval \cup Named : AddJob(a, j) \/ RemoveJob(a, j)
        \/ Finish(a)

Spec == Init /\ [][Next]_vars

-----------------------------------------------------------------------------
TypeOK ==
    /\ interval \in [Market -> Interval \cup {Off}]
    /\ jobs \subseteq Interval \cup Named
    /\ pc \in [Actor -> {"idle", "called", "read", "apply"}]
    /\ wanted \in [Actor -> SUBSET Interval]
    /\ adds \in [Actor -> SUBSET Interval]
    /\ drops \in [Actor -> SUBSET Interval]
    /\ alone \in [Actor -> BOOLEAN]

\* No interleaving of syncs ever removes a named background job ("without this guard a
\* market closing would wipe them out"; /health exists because it once happened).
NamedJobsKept == Named \subseteq jobs

\* Whatever earlier races left behind, a sync that nobody disturbs repairs it: when it is
\* about to return, there is exactly one job per interval in use.
LoneSyncRepairs ==
    \A a \in Actor :
        (alone[a] /\ pc[a] = "apply" /\ adds[a] = {} /\ drops[a] = {})
            => jobs \cap Interval = Wanted

\* sync_jobs: "Add or remove polling jobs so they match what the database says is
\* tracked", when every caller has returned.
SyncedWhenIdle ==
    (\A a \in Actor : pc[a] = "idle") => jobs \cap Interval = Wanted
=============================================================================
