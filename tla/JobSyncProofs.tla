---------------------------- MODULE JobSyncProofs ----------------------------
(***************************************************************************)
(* Proofs about JobSync, for any markets, intervals, named jobs and        *)
(* concurrent callers.                                                     *)
(***************************************************************************)
EXTENDS JobSync, TLAPS

\* The type invariant: what a sync still has to add or remove are per-interval poll jobs,
\* never one of the named ones.
THEOREM TypeCorrect == Spec => []TypeOK
<1> USE OffAssumption DEF TypeOK
<1>1. Init => TypeOK
  BY DEF Init, Wanted
<1>2. TypeOK /\ [Next]_vars => TypeOK'
  <2> SUFFICES ASSUME TypeOK, [Next]_vars PROVE TypeOK'
    OBVIOUS
  <2> USE DEF locals
  <2>1. ASSUME NEW a \in Actor, NEW m \in Market, NEW i \in Interval \cup {Off}, Change(a, m, i)
        PROVE  TypeOK'
    BY <2>1 DEF Change
  <2>2. ASSUME NEW a \in Actor, ReadWanted(a) PROVE TypeOK'
    BY <2>2 DEF ReadWanted, Wanted
  <2>3. ASSUME NEW a \in Actor, ReadJobs(a) PROVE TypeOK'
    BY <2>3 DEF ReadJobs, Removable
  <2>4. ASSUME NEW a \in Actor, Return(a), UNCHANGED <<interval, jobs>> PROVE TypeOK'
    BY <2>4 DEF Return
  <2>5. ASSUME NEW a \in Actor, NEW j \in Interval \cup Named, AddJob(a, j) PROVE TypeOK'
    <3>1. CASE Return(a) /\ UNCHANGED jobs
      BY <2>5, <2>4, <3>1 DEF AddJob
    <3>2. CASE j \notin jobs
      BY <2>5, <3>2 DEF AddJob
    <3> QED
      BY <2>5, <3>1, <3>2 DEF AddJob
  <2>6. ASSUME NEW a \in Actor, NEW j \in Interval \cup Named, RemoveJob(a, j) PROVE TypeOK'
    <3>1. CASE Return(a) /\ UNCHANGED jobs
      BY <2>6, <2>4, <3>1 DEF RemoveJob
    <3>2. CASE j \in jobs
      BY <2>6, <3>2 DEF RemoveJob
    <3> QED
      BY <2>6, <3>1, <3>2 DEF RemoveJob
  <2>7. ASSUME NEW a \in Actor, Finish(a) PROVE TypeOK'
    BY <2>7, <2>4 DEF Finish
  <2>8. CASE UNCHANGED vars
    BY <2>8 DEF vars
  <2> QED
    BY <2>1, <2>2, <2>3, <2>5, <2>6, <2>7, <2>8 DEF Next
<1> QED
  BY <1>1, <1>2, PTL DEF Spec

\* No interleaving of any number of syncs removes a named background job.
THEOREM NamedJobsKeptCorrect == Spec => []NamedJobsKept
<1>1. Init => NamedJobsKept
  BY DEF Init, NamedJobsKept
<1>2. TypeOK /\ NamedJobsKept /\ [Next]_vars => NamedJobsKept'
  <2> SUFFICES ASSUME TypeOK, NamedJobsKept, [Next]_vars PROVE NamedJobsKept'
    OBVIOUS
  <2>1. ASSUME NEW a \in Actor, NEW j \in Interval \cup Named, RemoveJob(a, j)
        PROVE  NamedJobsKept'
    <3>1. j \notin Named
      BY <2>1, DisjointIdsAssumption DEF RemoveJob, TypeOK
    <3> QED
      BY <2>1, <3>1 DEF RemoveJob, NamedJobsKept
  <2>2. CASE jobs \subseteq jobs'
    BY <2>2 DEF NamedJobsKept
  <2> QED
    BY <2>1, <2>2 DEF Next, Change, ReadWanted, ReadJobs, AddJob, Finish, vars
<1> QED
  BY <1>1, <1>2, TypeCorrect, PTL DEF Spec

\* While nobody else is active, a sync's locals are exact: what it still has to add and to
\* remove is the difference between the jobs and the intervals in use.
LoneExact ==
    \A a \in Actor : alone[a] =>
        /\ \A b \in Actor \ {a} : pc[b] = "idle"
        /\ pc[a] \in {"read", "apply"} => wanted[a] = Wanted
        /\ pc[a] = "apply" => /\ adds[a] = Wanted \ jobs
                              /\ drops[a] = (jobs \cap Interval) \ Wanted

LEMMA LoneStaysExact == TypeOK /\ LoneExact /\ [Next]_vars => LoneExact'
<1> SUFFICES ASSUME TypeOK, LoneExact, [Next]_vars PROVE LoneExact'
  OBVIOUS
<1> USE DEF TypeOK
<1>1. ASSUME NEW a \in Actor, NEW m \in Market, NEW i \in Interval \cup {Off}, Change(a, m, i)
      PROVE  LoneExact'
  BY <1>1 DEF Change, LoneExact
<1>2. ASSUME NEW a \in Actor, ReadWanted(a) PROVE LoneExact'
  <2>1. \A b \in Actor \ {a} : ~ alone[b]
    BY <1>2 DEF LoneExact, ReadWanted
  <2> QED
    BY <1>2, <2>1 DEF LoneExact, ReadWanted, Wanted
<1>3. ASSUME NEW a \in Actor, ReadJobs(a) PROVE LoneExact'
  <2>1. \A b \in Actor \ {a} : ~ alone[b]
    BY <1>3 DEF LoneExact, ReadJobs
  <2> QED
    <3>1. /\ adds'[a] = wanted[a] \ jobs /\ drops'[a] = (jobs \ wanted[a]) \cap Interval
          /\ wanted' = wanted /\ alone' = alone /\ jobs' = jobs /\ Wanted' = Wanted
          /\ \A b \in Actor \ {a} : pc'[b] = pc[b]
      BY <1>3 DEF ReadJobs, Removable, Wanted
    <3>2. alone[a] => wanted[a] = Wanted /\ \A b \in Actor \ {a} : pc[b] = "idle"
      BY <1>3 DEF ReadJobs, LoneExact
    <3>3. alone[a] => /\ adds'[a] = Wanted \ jobs
                      /\ drops'[a] = (jobs \cap Interval) \ Wanted
      BY <3>1, <3>2
    <3> QED
      BY <2>1, <3>1, <3>2, <3>3 DEF LoneExact
<1>4. ASSUME NEW a \in Actor, UNCHANGED <<interval, jobs>>, Return(a) PROVE LoneExact'
  BY <1>4 DEF LoneExact, Return, Wanted
<1>5. ASSUME NEW a \in Actor, NEW j \in Interval \cup Named, AddJob(a, j) PROVE LoneExact'
  <2>1. \A b \in Actor \ {a} : ~ alone[b]
    BY <1>5 DEF LoneExact, AddJob
  <2> QED
    BY <1>4, <1>5, <2>1 DEF LoneExact, AddJob, Wanted
<1>6. ASSUME NEW a \in Actor, NEW j \in Interval \cup Named, RemoveJob(a, j) PROVE LoneExact'
  <2>1. \A b \in Actor \ {a} : ~ alone[b]
    BY <1>6 DEF LoneExact, RemoveJob
  <2> QED
    BY <1>4, <1>6, <2>1 DEF LoneExact, RemoveJob, Wanted
<1>7. ASSUME NEW a \in Actor, Finish(a) PROVE LoneExact'
  BY <1>4, <1>7 DEF Finish
<1>8. CASE UNCHANGED vars
  BY <1>8 DEF LoneExact, vars, Wanted
<1> QED
  BY <1>1, <1>2, <1>3, <1>5, <1>6, <1>7, <1>8 DEF Next

\* Whatever races came before, a sync that runs alone ends with exactly one job per
\* interval in use.
THEOREM LoneSyncRepairsCorrect == Spec => []LoneSyncRepairs
<1>1. Init => LoneExact
  BY DEF Init, LoneExact
<1>2. TypeOK /\ LoneExact => LoneSyncRepairs
  <2> SUFFICES ASSUME TypeOK, LoneExact, NEW a \in Actor, alone[a], pc[a] = "apply",
                      adds[a] = {}, drops[a] = {}
               PROVE  jobs \cap Interval = Wanted
    BY DEF LoneSyncRepairs
  <2>1. Wanted \ jobs = {} /\ (jobs \cap Interval) \ Wanted = {}
    BY DEF LoneExact
  <2>2. Wanted \subseteq Interval
    BY DEF TypeOK, Wanted
  <2> QED
    BY <2>1, <2>2
<1> QED
  BY <1>1, <1>2, TypeCorrect, LoneStaysExact, PTL DEF Spec
=============================================================================
