--------------------------- MODULE CollectorProofs ---------------------------
(***************************************************************************)
(* Proofs about Collector, for every set of conditions, every number of    *)
(* outcomes, intervals, ids, backfill tasks and clock values.              *)
(***************************************************************************)
EXTENDS CollectorHistory, FiniteSetTheorems, TLAPS

\* There are finitely many possible ticks, so every set of them has a cardinality.
LEMMA TickFinite == IsFiniteSet(Tick)
<1> DEFINE Key == ((Id \X Pos) \X Time) \X (Cond \X {"live", "history"})
<1> DEFINE key == [t \in Tick |-> <<<<<<t.mid, t.pos>>, t.ts>>, <<t.cond, t.kind>>>>]
<1>1. IsFiniteSet(Id) /\ IsFiniteSet(Pos) /\ IsFiniteSet(Time)
  BY FS_Interval, NumPosAssumption, MaxIdAssumption, MaxTimeAssumption DEF Id, Pos, Time
<1>2. IsFiniteSet({"live", "history"})
  <2>1. IsFiniteSet({"live"})
    BY FS_Singleton
  <2>2. IsFiniteSet({"live"} \cup {"history"})
    BY <2>1, FS_AddElement
  <2>3. {"live", "history"} = {"live"} \cup {"history"}
    OBVIOUS
  <2> QED
    BY <2>2, <2>3
<1>3. IsFiniteSet(Id \X Pos)
  BY <1>1, FS_Product
<1>4. IsFiniteSet((Id \X Pos) \X Time)
  BY <1>1, <1>3, FS_Product
<1>5. IsFiniteSet(Cond \X {"live", "history"})
  BY <1>2, CondAssumption, FS_Product
<1>6. IsFiniteSet(Key)
  BY <1>4, <1>5, FS_Product
<1>7. key \in Injection(Tick, Key)
  <2>1. key \in [Tick -> Key]
    BY DEF Tick
  <2>2. ASSUME NEW t \in Tick, NEW u \in Tick, key[t] = key[u] PROVE t = u
    BY <2>2 DEF Tick
  <2> QED
    BY <2>1, <2>2 DEF Injection, IsInjective
<1> QED
  BY <1>6, <1>7, FS_Injection

LEMMA TicksCardinality ==
  ASSUME NEW S \in SUBSET Tick
  PROVE  IsFiniteSet(S) /\ Cardinality(S) \in Nat
BY TickFinite, FS_Subset, FS_CardinalityType

\* Queueing a backfill task keeps the task table well typed.
LEMMA QueueBackfillTyped ==
  ASSUME TypeOK, NEW m \in Id, NEW c \in Cond, QueueBackfill(m, c)
  PROVE  DOMAIN tasks' \subseteq Slot /\ tasks' \in [DOMAIN tasks' -> Task]
BY NumPosAssumption, MaxTimeAssumption DEF TypeOK, QueueBackfill, NewTask, Task, Pos, Time

\* insert_ticks keeps ticks and running totals well typed.
LEMMA InsertTicksTyped ==
  ASSUME TypeOK, NEW rows \in SUBSET Tick, InsertTicks(rows)
  PROVE  ticks' \subseteq Tick /\ counts' \in [Id \X Pos -> Nat]
<1>1. \A o \in Id \X Pos : Cardinality(Of(Inserted(rows), o)) \in Nat
  <2> TAKE o \in Id \X Pos
  <2>1. Of(Inserted(rows), o) \in SUBSET Tick
    BY DEF Of, Inserted
  <2> QED
    BY <2>1, TicksCardinality
<1> QED
  BY <1>1 DEF InsertTicks, Inserted, TypeOK

\* The rows a poll builds are ticks at the current time of the markets it asked about.
LEMMA LiveRowsTyped ==
  ASSUME TypeOK, NEW i \in Interval, NEW quoted
  PROVE  /\ LiveRows(polls[i], quoted) \in SUBSET Tick
         /\ \A r \in LiveRows(polls[i], quoted) : r.ts = now /\ r.kind = "live"
<1> SUFFICES ASSUME NEW r \in LiveRows(polls[i], quoted)
             PROVE  r \in Tick /\ r.ts = now /\ r.kind = "live"
  OBVIOUS
<1>1. PICK q \in polls[i] \X Pos :
        r = [mid |-> q[1][1], pos |-> q[2], ts |-> now, cond |-> q[1][2], kind |-> "live"]
  BY DEF LiveRows
<1>2. q[1] \in Id \X Cond /\ q[2] \in Pos
  BY DEF TypeOK
<1>3. q[1][1] \in Id /\ q[1][2] \in Cond /\ now \in Time
  BY <1>2 DEF TypeOK
<1> QED
  BY <1>1, <1>2, <1>3 DEF Tick

\* The rows a backfill task builds are ticks before the boundary it carries.
LEMMA HistoryRowsTyped ==
  ASSUME TypeOK, NEW s \in DOMAIN tasks, NEW times \in SUBSET (0..now)
  PROVE  /\ HistoryRows(tasks[s], times) \in SUBSET Tick
         /\ \A r \in HistoryRows(tasks[s], times) :
              r.mid = tasks[s].mid /\ r.ts < tasks[s].since /\ r.kind = "history"
<1>1. tasks[s] \in Task /\ 0..now \subseteq Time
  BY MaxTimeAssumption DEF TypeOK, Time
<1> QED
  BY <1>1 DEF HistoryRows, Task, Tick

\* Counting misses keeps the counters below CLOSE_AFTER_MISSES and the rows well typed.
LEMMA CountMissesTyped ==
  ASSUME TypeOK, NEW asked, NEW absent, CountMisses(asked, absent)
  PROVE  /\ misses' \in [Id -> 0..(CloseAfter - 1)]
         /\ DOMAIN market' = DOMAIN market
         /\ market' \in [DOMAIN market -> MarketRow]
<1>1. misses' \in [Id -> 0..(CloseAfter - 1)]
  <2> SUFFICES ASSUME NEW m \in Id PROVE misses'[m] \in 0..(CloseAfter - 1)
    BY DEF CountMisses
  <2> DEFINE closing == {x \in absent : misses[x] + 1 >= CloseAfter}
  <2>1. misses[m] \in 0..(CloseAfter - 1)
    BY DEF TypeOK
  <2>2. CASE m \in absent \ closing
    <3>1. misses'[m] = misses[m] + 1
      BY <2>2 DEF CountMisses
    <3> QED
      BY <2>1, <2>2, <3>1, CloseAfterAssumption
  <2>3. CASE m \notin absent \ closing
    <3>1. misses'[m] = 0 \/ misses'[m] = misses[m]
      BY <2>3 DEF CountMisses
    <3> QED
      BY <2>1, <3>1, CloseAfterAssumption
  <2> QED
    BY <2>2, <2>3
<1>2. DOMAIN market' = DOMAIN market /\ market' \in [DOMAIN market -> MarketRow]
  BY DEF TypeOK, CountMisses, MarketRow
<1> QED
  BY <1>1, <1>2

\* The type invariant of the collector: every table row, dictionary entry and in-flight
\* operation keeps its shape, and a miss counter never reaches CLOSE_AFTER_MISSES.
THEOREM TypeCorrect == Spec => []TypeOK
<1> USE NumPosAssumption, MaxIdAssumption, MaxTimeAssumption, CloseAfterAssumption
<1>1. Init => TypeOK
  BY DEF Init, TypeOK, Id, Pos, Time
<1>2. TypeOK /\ [Next]_vars => TypeOK'
  <2> SUFFICES ASSUME TypeOK, [Next]_vars PROVE TypeOK'
    OBVIOUS
  <2> USE DEF TypeOK
  <2>1. ASSUME NEW c \in Cond, NEW i \in Interval, TrackNew(c, i) PROVE TypeOK'
    BY <2>1 DEF TrackNew, QueueBackfill, NewTask, MarketRow, Task, Pos, Time
  <2>2. ASSUME NEW m \in Id, TrackKnown(m) PROVE TypeOK'
    <3>1. DOMAIN tasks' \subseteq Slot /\ tasks' \in [DOMAIN tasks' -> Task]
      BY <2>2, QueueBackfillTyped DEF TrackKnown, MarketRow
    <3> QED
      BY <2>2, <3>1 DEF TrackKnown, SetTracking, MarketRow
  <2>3. ASSUME NEW m \in Id, StartCheck(m) PROVE TypeOK'
    BY <2>3 DEF StartCheck, db
  <2>4. ASSUME NEW m \in Id, StartCommit(m) PROVE TypeOK'
    BY <2>4 DEF StartCommit, SetTracking, MarketRow
  <2>5. ASSUME NEW m \in Id, StopMarket(m) PROVE TypeOK'
    BY <2>5 DEF StopMarket, SetTracking, MarketRow, process
  <2>6. ASSUME NEW m \in Id, NEW i \in Interval, SetPollInterval(m, i) PROVE TypeOK'
    BY <2>6 DEF SetPollInterval, MarketRow, process
  <2>7. ASSUME NEW m \in Id, DeleteMarket(m) PROVE TypeOK'
    BY <2>7 DEF DeleteMarket, process
  <2>8. ASSUME NEW i \in Interval, PollBegin(i) PROVE TypeOK'
    BY <2>8 DEF PollBegin, Tracked, MarketRow, db
  <2>9. ASSUME NEW i \in Interval, PollSkip(i) PROVE TypeOK'
    BY <2>9 DEF PollSkip, db
  <2>10. ASSUME NEW i \in Interval, NEW quoted, PollAnswer(i, quoted) PROVE TypeOK'
    <3> DEFINE rows == LiveRows(polls[i], quoted)
    <3>1. polls' \in [Interval -> SUBSET (Id \X Cond)]
      BY <2>10 DEF PollAnswer
    <3>2. CASE BreaksForeignKey(rows)
      BY <2>10, <3>1, <3>2 DEF PollAnswer, db
    <3>3. CASE ~ BreaksForeignKey(rows)
      <4>1. InsertTicks(rows) /\ CountMisses(polls[i], Absent(polls[i], quoted))
        BY <2>10, <3>3 DEF PollAnswer
      <4>2. ticks' \subseteq Tick /\ counts' \in [Id \X Pos -> Nat]
        BY <4>1, LiveRowsTyped, InsertTicksTyped
      <4> QED
        BY <2>10, <3>1, <4>1, <4>2, CountMissesTyped DEF PollAnswer
    <3> QED
      BY <3>2, <3>3
  <2>11. ASSUME NEW s \in Slot, BackfillBegin(s) PROVE TypeOK'
    <3>1. tasks[s].mid \in Id
      BY <2>11 DEF BackfillBegin, Task
    <3>2. DOMAIN tasks' \subseteq Slot /\ tasks' \in [DOMAIN tasks' -> Task]
      <4>1. CASE tasks' = [x \in DOMAIN tasks \ {s} |-> tasks[x]]
        BY <4>1
      <4>2. CASE /\ tasks[s].mid \in DOMAIN market
                 /\ tasks' = [tasks EXCEPT ![s] =
                      [mid |-> tasks[s].mid, begun |-> TRUE, pos |-> 1,
                       cond |-> market[tasks[s].mid].cond, since |-> market[tasks[s].mid].since]]
        <5>1. market[tasks[s].mid] \in MarketRow
          BY <4>2
        <5>2. [mid |-> tasks[s].mid, begun |-> TRUE, pos |-> 1,
               cond |-> market[tasks[s].mid].cond, since |-> market[tasks[s].mid].since] \in Task
          BY <3>1, <5>1 DEF MarketRow, Task, Pos
        <5> QED
          BY <4>2, <5>2
      <4> QED
        BY <2>11, <4>1, <4>2 DEF BackfillBegin, EndTask
    <3> QED
      BY <2>11, <3>2 DEF BackfillBegin, db
  <2>12. ASSUME NEW s \in Slot, BackfillOutcome(s) PROVE TypeOK'
    <3>1. PICK times \in SUBSET (0..now) :
            IF BreaksForeignKey(HistoryRows(tasks[s], times)) THEN UNCHANGED <<ticks, counts>>
            ELSE InsertTicks(HistoryRows(tasks[s], times))
      BY <2>12 DEF BackfillOutcome
    <3>2. ticks' \subseteq Tick /\ counts' \in [Id \X Pos -> Nat]
      BY <2>12, <3>1, HistoryRowsTyped, InsertTicksTyped DEF BackfillOutcome
    <3>3. DOMAIN tasks' \subseteq Slot /\ tasks' \in [DOMAIN tasks' -> Task]
      BY <2>12 DEF BackfillOutcome, NextOutcome, EndTask, Task, Pos
    <3> QED
      BY <2>12, <3>2, <3>3 DEF BackfillOutcome
  <2>13. ASSUME NEW s \in Slot, BackfillFail(s) PROVE TypeOK'
    BY <2>13 DEF BackfillFail, NextOutcome, EndTask, Task, Pos, db
  <2>14. CASE Restart
    BY <2>14 DEF Restart, db
  <2>15. CASE AdvanceTime
    BY <2>15 DEF AdvanceTime, db, process, Time
  <2>16. ASSUME NEW c \in Cond, Resolve(c) PROVE TypeOK'
    BY <2>16 DEF Resolve, db, process
  <2>17. CASE UNCHANGED vars
    BY <2>17 DEF vars
  <2> QED
    BY <2>1, <2>2, <2>3, <2>4, <2>5, <2>6, <2>7, <2>8, <2>9, <2>10, <2>11, <2>12, <2>13,
       <2>14, <2>15, <2>16, <2>17 DEF Next, Request, Poll, PollAnswered, Backfill, Environment
<1> QED
  BY <1>1, <1>2, PTL DEF Spec

-----------------------------------------------------------------------------
(* Which rows a step keeps *)

RowsKept == /\ DOMAIN market' = DOMAIN market
            /\ \A m \in DOMAIN market : market'[m].since = market[m].since

Stores(rows) == InsertTicks(rows) /\ ~ BreaksForeignKey(rows)

\* Every step does one of these to the tables: it adds one row, deletes one row, or keeps
\* the rows and either keeps the ticks or stores a batch of live or of history rows.
LEMMA TableSteps ==
  ASSUME TypeOK, [Next]_vars
  PROVE  \/ /\ \E m \in Id \ DOMAIN market :
                 /\ DOMAIN market' = DOMAIN market \cup {m}
                 /\ market'[m].since = now
                 /\ \A x \in DOMAIN market : market'[x] = market[x]
            /\ UNCHANGED <<ticks, counts, now>>
         \/ \E m \in DOMAIN market : DeleteMarket(m)
         \/ /\ RowsKept
            /\ \/ UNCHANGED <<ticks, counts>>
               \/ /\ UNCHANGED now
                  /\ \/ \E i \in Interval : \E quoted : Stores(LiveRows(polls[i], quoted))
                     \/ \E s \in DOMAIN tasks : \E times \in SUBSET (0..now) :
                          Stores(HistoryRows(tasks[s], times))
<1> DEFINE Goal ==
     \/ /\ \E m \in Id \ DOMAIN market :
             /\ DOMAIN market' = DOMAIN market \cup {m}
             /\ market'[m].since = now
             /\ \A x \in DOMAIN market : market'[x] = market[x]
        /\ UNCHANGED <<ticks, counts, now>>
     \/ \E m \in DOMAIN market : DeleteMarket(m)
     \/ /\ RowsKept
        /\ \/ UNCHANGED <<ticks, counts>>
           \/ /\ UNCHANGED now
              /\ \/ \E i \in Interval : \E quoted : Stores(LiveRows(polls[i], quoted))
                 \/ \E s \in DOMAIN tasks : \E times \in SUBSET (0..now) :
                      Stores(HistoryRows(tasks[s], times))
<1> SUFFICES Goal
  OBVIOUS
<1> USE DEF RowsKept
<1>1. ASSUME NEW c \in Cond, NEW i \in Interval, TrackNew(c, i) PROVE Goal
  <2>1. PICK m \in Id :
          /\ IsNewId(m)
          /\ market' = [x \in DOMAIN market \cup {m} |->
                          IF x = m THEN [cond |-> c, tracking |-> TRUE, closed |-> FALSE,
                                         interval |-> i, since |-> now]
                          ELSE market[x]]
    BY <1>1 DEF TrackNew
  <2>2. m \notin DOMAIN market
    BY <2>1, MaxIdAssumption DEF IsNewId, Id
  <2>3. UNCHANGED <<ticks, counts, now>>
    BY <1>1 DEF TrackNew
  <2> QED
    BY <2>1, <2>2, <2>3
<1>2. ASSUME NEW m \in Id, TrackKnown(m) \/ StartCommit(m) \/ StopMarket(m) PROVE Goal
  <2>1. \E v : SetTracking(m, v)
    BY <1>2 DEF TrackKnown, StartCommit, StopMarket, SetTracking
  <2>2. RowsKept
    BY <2>1 DEF SetTracking, TypeOK, MarketRow
  <2>3. UNCHANGED <<ticks, counts>>
    BY <1>2 DEF TrackKnown, StartCommit, StopMarket
  <2> QED
    BY <2>2, <2>3
<1>3. ASSUME NEW m \in Id, NEW i \in Interval, SetPollInterval(m, i) PROVE Goal
  BY <1>3 DEF SetPollInterval, TypeOK, MarketRow
<1>4. ASSUME NEW m \in Id, DeleteMarket(m) PROVE Goal
  BY <1>4 DEF DeleteMarket
<1>5. ASSUME UNCHANGED <<market, ticks, counts>> PROVE Goal
  BY <1>5
<1>6. ASSUME NEW i \in Interval, NEW quoted, PollAnswer(i, quoted) PROVE Goal
  <2>1. CASE BreaksForeignKey(LiveRows(polls[i], quoted))
    BY <1>6, <2>1 DEF PollAnswer, db
  <2>2. CASE ~ BreaksForeignKey(LiveRows(polls[i], quoted))
    <3>1. InsertTicks(LiveRows(polls[i], quoted))
          /\ CountMisses(polls[i], Absent(polls[i], quoted)) /\ UNCHANGED now
      BY <1>6, <2>2 DEF PollAnswer
    <3>2. RowsKept
      BY <3>1 DEF CountMisses, TypeOK, MarketRow
    <3>3. Stores(LiveRows(polls[i], quoted))
      BY <2>2, <3>1 DEF Stores
    <3> QED
      BY <3>1, <3>2, <3>3
  <2> QED
    BY <2>1, <2>2
<1>7. ASSUME NEW s \in Slot, BackfillOutcome(s) PROVE Goal
  <2>1. s \in DOMAIN tasks /\ RowsKept /\ UNCHANGED now
    BY <1>7 DEF BackfillOutcome
  <2>2. PICK times \in SUBSET (0..now) :
          IF BreaksForeignKey(HistoryRows(tasks[s], times)) THEN UNCHANGED <<ticks, counts>>
          ELSE InsertTicks(HistoryRows(tasks[s], times))
    BY <1>7 DEF BackfillOutcome
  <2> QED
    BY <2>1, <2>2 DEF Stores
<1>8. CASE UNCHANGED vars
  BY <1>5, <1>8 DEF vars
<1>9. ASSUME \/ \E m \in Id : StartCheck(m)
             \/ \E i \in Interval : PollBegin(i) \/ PollSkip(i)
             \/ \E s \in Slot : BackfillBegin(s) \/ BackfillFail(s)
             \/ Environment
      PROVE  Goal
  BY <1>5, <1>9 DEF StartCheck, PollBegin, PollSkip, BackfillBegin, BackfillFail, Environment,
                    Restart, AdvanceTime, Resolve, db
<1> QED
  BY <1>1, <1>2, <1>3, <1>4, <1>6, <1>7, <1>8, <1>9
     DEF Next, Request, Poll, PollAnswered, Backfill

\* The same, for one row: a row after the step is an old one with its created_at, or new
\* now; time never goes back.
LEMMA RowSteps ==
  ASSUME TypeOK, [Next]_vars
  PROVE  /\ now' \in Nat /\ now <= now'
         /\ \A m \in DOMAIN market' :
              \/ m \in DOMAIN market /\ market'[m].since = market[m].since
              \/ m \notin DOMAIN market /\ market'[m].since = now
<1>1. now \in Nat /\ now' \in Nat /\ now <= now'
  <2>1. now' = now \/ AdvanceTime
    BY DEF Next, Request, Poll, PollAnswered, Backfill, Environment, vars, TrackNew, TrackKnown,
       StartCheck, StartCommit, StopMarket, SetPollInterval, DeleteMarket, PollBegin, PollSkip,
       PollAnswer, BackfillBegin, BackfillOutcome, BackfillFail, Restart, Resolve
  <2>2. now \in Nat
    BY MaxTimeAssumption DEF TypeOK, Time
  <2> QED
    BY <2>1, <2>2 DEF AdvanceTime
<1>2. CASE \E m \in Id \ DOMAIN market :
              /\ DOMAIN market' = DOMAIN market \cup {m}
              /\ market'[m].since = now
              /\ \A x \in DOMAIN market : market'[x] = market[x]
  BY <1>1, <1>2
<1>3. CASE \E m \in DOMAIN market : DeleteMarket(m)
  BY <1>1, <1>3 DEF DeleteMarket
<1>4. CASE RowsKept
  BY <1>1, <1>4 DEF RowsKept
<1> QED
  BY <1>2, <1>3, <1>4, TableSteps

\* What a step does to the backfill tasks: a task after it is an old one, a fresh one with
\* boundary 0, or one that has just noted its market's created_at.
LEMMA TaskSteps ==
  ASSUME TypeOK, [Next]_vars
  PROVE  \A s \in DOMAIN tasks' :
           \/ s \in DOMAIN tasks /\ tasks'[s].mid = tasks[s].mid
                                /\ tasks'[s].since = tasks[s].since
           \/ tasks'[s].since = 0
           \/ /\ tasks'[s].mid \in DOMAIN market
              /\ tasks'[s].since = market[tasks'[s].mid].since
<1> DEFINE Goal ==
     \A s \in DOMAIN tasks' :
       \/ s \in DOMAIN tasks /\ tasks'[s].mid = tasks[s].mid /\ tasks'[s].since = tasks[s].since
       \/ tasks'[s].since = 0
       \/ tasks'[s].mid \in DOMAIN market /\ tasks'[s].since = market[tasks'[s].mid].since
<1> SUFFICES Goal
  OBVIOUS
<1>1. ASSUME NEW m \in Id, NEW c, QueueBackfill(m, c) PROVE Goal
  BY <1>1 DEF QueueBackfill, NewTask
<1>2. ASSUME NEW s \in Slot, s \in DOMAIN tasks, EndTask(s) \/ NextOutcome(s) PROVE Goal
  BY <1>2 DEF EndTask, NextOutcome, TypeOK, Task
<1>3. ASSUME NEW s \in Slot, BackfillBegin(s) PROVE Goal
  <2>1. tasks[s] \in Task
    BY <1>3 DEF BackfillBegin, TypeOK
  <2>2. CASE EndTask(s)
    BY <1>2, <1>3, <2>2 DEF BackfillBegin
  <2>3. CASE ~ EndTask(s)
    <3>1. /\ tasks[s].mid \in DOMAIN market
          /\ tasks' = [tasks EXCEPT ![s] = [mid |-> tasks[s].mid, begun |-> TRUE, pos |-> 1,
                         cond |-> market[tasks[s].mid].cond,
                         since |-> market[tasks[s].mid].since]]
      BY <1>3, <2>3 DEF BackfillBegin
    <3> QED
      BY <3>1
  <2> QED
    BY <2>2, <2>3
<1>4. CASE UNCHANGED tasks
  BY <1>4
<1>5. CASE tasks' = << >>
  BY <1>5
<1> QED
  BY <1>1, <1>2, <1>3, <1>4, <1>5
     DEF Next, Request, Poll, PollAnswered, Backfill, Environment, vars, process, TrackNew,
         TrackKnown, StartCheck, StartCommit, StopMarket, SetPollInterval, DeleteMarket, PollBegin,
         PollSkip, PollAnswer, BackfillOutcome, BackfillFail, Restart, Resolve, AdvanceTime

-----------------------------------------------------------------------------
(* The safety invariants *)

\* No boundary lies ahead of the row that holds its id now.
THEOREM BoundariesOrderedCorrect == Spec => []BoundariesOrdered
<1>1. Init => BoundariesOrdered
  BY DEF Init, BoundariesOrdered
<1>2. TypeOK /\ BoundariesOrdered /\ [Next]_vars => BoundariesOrdered'
  <2> SUFFICES ASSUME TypeOK, BoundariesOrdered, [Next]_vars PROVE BoundariesOrdered'
    OBVIOUS
  <2>1. now \in Nat /\ now' \in Nat /\ now <= now'
    BY RowSteps, MaxTimeAssumption DEF TypeOK, Time
  <2>2. \A m \in DOMAIN market : market[m].since \in Nat
    BY MaxTimeAssumption DEF TypeOK, MarketRow, Time
  <2>3. \A s \in DOMAIN tasks : tasks[s].since \in Nat
    BY MaxTimeAssumption DEF TypeOK, Task, Time
  <2>4. \A m \in DOMAIN market' : market'[m].since \in Nat /\ market'[m].since <= now'
    BY <2>1, <2>2, RowSteps DEF BoundariesOrdered
  <2>5. ASSUME NEW s \in DOMAIN tasks'
        PROVE  /\ tasks'[s].since <= now'
               /\ tasks'[s].mid \in DOMAIN market' =>
                    tasks'[s].since <= market'[tasks'[s].mid].since
    <3> DEFINE k == tasks'[s].mid
    <3>1. CASE s \in DOMAIN tasks /\ k = tasks[s].mid /\ tasks'[s].since = tasks[s].since
      <4>1. tasks[s].since \in Nat /\ tasks[s].since <= now
        BY <2>3, <3>1 DEF BoundariesOrdered
      <4>2. k \in DOMAIN market => tasks[s].since <= market[k].since
        BY <3>1 DEF BoundariesOrdered
      <4>3. k \in DOMAIN market' =>
              \/ k \in DOMAIN market /\ market'[k].since = market[k].since
              \/ market'[k].since = now
        BY RowSteps
      <4> QED
        BY <2>1, <3>1, <4>1, <4>2, <4>3
    <3>2. CASE tasks'[s].since = 0
      BY <2>1, <2>4, <3>2
    <3>3. CASE k \in DOMAIN market /\ tasks'[s].since = market[k].since
      <4>1. market[k].since \in Nat /\ market[k].since <= now
        BY <2>2, <3>3 DEF BoundariesOrdered
      <4>2. k \in DOMAIN market' => market'[k].since = market[k].since
        BY <3>3, RowSteps
      <4> QED
        BY <2>1, <3>3, <4>1, <4>2
    <3> QED
      BY <3>1, <3>2, <3>3, TaskSteps
  <2> QED
    BY <2>4, <2>5 DEF BoundariesOrdered
<1> QED
  BY <1>1, <1>2, TypeCorrect, PTL DEF Spec

\* What storing a batch does to the ticks: it adds rows of the batch, all of markets that
\* exist, none with a key that is taken.
LEMMA StoresSteps ==
  ASSUME NEW rows, Stores(rows)
  PROVE  /\ ticks' = ticks \cup Inserted(rows)
         /\ \A r \in Inserted(rows) :
              /\ r \in rows /\ r.mid \in DOMAIN market
              /\ \A t \in ticks : ~ (t.mid = r.mid /\ t.pos = r.pos /\ t.ts = r.ts)
BY DEF Stores, InsertTicks, Inserted, BreaksForeignKey

\* No poll, backfill or deletion leaves a tick without its market.
THEOREM TicksHaveMarketCorrect == Spec => []TicksHaveMarket
<1>1. Init => TicksHaveMarket
  BY DEF Init, TicksHaveMarket
<1>2. TypeOK /\ TicksHaveMarket /\ [Next]_vars => TicksHaveMarket'
  <2> SUFFICES ASSUME TypeOK, TicksHaveMarket, [Next]_vars PROVE TicksHaveMarket'
    OBVIOUS
  <2>1. ASSUME NEW rows, RowsKept, Stores(rows) PROVE TicksHaveMarket'
    BY <2>1, StoresSteps DEF TicksHaveMarket, RowsKept
  <2>2. ASSUME NEW m \in DOMAIN market, DeleteMarket(m) PROVE TicksHaveMarket'
    BY <2>2 DEF TicksHaveMarket, DeleteMarket
  <2>3. ASSUME UNCHANGED ticks, DOMAIN market \subseteq DOMAIN market' PROVE TicksHaveMarket'
    BY <2>3 DEF TicksHaveMarket
  <2> QED
    BY <2>1, <2>2, <2>3, TableSteps DEF RowsKept
<1> QED
  BY <1>1, <1>2, TypeCorrect, PTL DEF Spec

\* Live collection and backfill never overlap, for any interleaving of polls, backfills,
\* deletions, reused ids and restarts.
THEOREM HistoryBeforeLiveCorrect == Spec => []HistoryBeforeLive
<1> DEFINE IInv == TypeOK /\ TicksHaveMarket /\ BoundariesOrdered
<1>1. Init => HistoryBeforeLive
  BY DEF Init, HistoryBeforeLive
<1>2. IInv /\ HistoryBeforeLive /\ [Next]_vars => HistoryBeforeLive'
  <2> SUFFICES ASSUME IInv, HistoryBeforeLive, [Next]_vars PROVE HistoryBeforeLive'
    OBVIOUS
  <2>1. ASSUME NEW m \in Id \ DOMAIN market,
               \A x \in DOMAIN market : market'[x] = market[x], UNCHANGED ticks
        PROVE  HistoryBeforeLive'
    BY <2>1 DEF HistoryBeforeLive, TicksHaveMarket
  <2>2. ASSUME NEW m \in DOMAIN market, DeleteMarket(m) PROVE HistoryBeforeLive'
    BY <2>2 DEF HistoryBeforeLive, DeleteMarket
  <2>3. ASSUME RowsKept, UNCHANGED ticks PROVE HistoryBeforeLive'
    BY <2>3 DEF HistoryBeforeLive, RowsKept
  <2>4. ASSUME NEW rows, RowsKept, Stores(rows),
               \A r \in rows : r.mid \in DOMAIN market =>
                  IF r.kind = "history" THEN r.ts < market[r.mid].since
                                        ELSE r.ts >= market[r.mid].since
        PROVE  HistoryBeforeLive'
    BY <2>4, StoresSteps DEF HistoryBeforeLive, RowsKept
  <2>5. ASSUME NEW i \in Interval, NEW quoted, RowsKept, Stores(LiveRows(polls[i], quoted))
        PROVE  HistoryBeforeLive'
    <3>1. \A r \in LiveRows(polls[i], quoted) :
            /\ r.kind # "history" /\ r.ts = now
            /\ r.mid \in DOMAIN market => market[r.mid].since <= now
      BY LiveRowsTyped DEF BoundariesOrdered
    <3>2. now \in Nat /\ \A m \in DOMAIN market : market[m].since \in Nat
      BY MaxTimeAssumption DEF TypeOK, MarketRow, Time
    <3> QED
      BY <2>4, <2>5, <3>1, <3>2
  <2>6. ASSUME NEW s \in DOMAIN tasks, NEW times \in SUBSET (0..now), RowsKept,
               Stores(HistoryRows(tasks[s], times))
        PROVE  HistoryBeforeLive'
    <3>1. \A r \in HistoryRows(tasks[s], times) :
            /\ r \in Tick /\ r.kind = "history" /\ r.mid = tasks[s].mid
            /\ r.ts < tasks[s].since
            /\ r.mid \in DOMAIN market => tasks[s].since <= market[r.mid].since
      BY HistoryRowsTyped DEF BoundariesOrdered
    <3>2. tasks[s].since \in Nat /\ \A m \in DOMAIN market : market[m].since \in Nat
      BY MaxTimeAssumption DEF TypeOK, MarketRow, Task, Time
    <3>3. \A r \in HistoryRows(tasks[s], times) : r.ts \in Nat
      BY <3>1, MaxTimeAssumption DEF Tick, Time
    <3>4. \A r \in HistoryRows(tasks[s], times) : r.mid \in DOMAIN market =>
            r.kind = "history" /\ r.ts < market[r.mid].since
      BY <3>1, <3>2, <3>3
    <3> QED
      BY <2>4, <2>6, <3>4
  <2> QED
    BY <2>1, <2>2, <2>3, <2>5, <2>6, TableSteps
<1> QED
  BY <1>1, <1>2, TypeCorrect, TicksHaveMarketCorrect, BoundariesOrderedCorrect, PTL DEF Spec

\* A poll in flight asked about one condition per market id, because it read them in one
\* query of a table whose ids are unique.
PollsConsistent == \A i \in Interval : \A a, b \in polls[i] : a[1] = b[1] => a = b

LEMMA PollsStayConsistent == TypeOK /\ PollsConsistent /\ [Next]_vars => PollsConsistent'
<1> SUFFICES ASSUME TypeOK, PollsConsistent, [Next]_vars PROVE PollsConsistent'
  OBVIOUS
<1>1. ASSUME NEW i \in Interval, PollBegin(i) PROVE PollsConsistent'
  <2> DEFINE asked == {<<m, market[m].cond>> : m \in {x \in Tracked : market[x].interval = i}}
  <2>1. polls' = [polls EXCEPT ![i] = asked]
    BY <1>1 DEF PollBegin
  <2>2. \A a, b \in asked : a[1] = b[1] => a = b
    OBVIOUS
  <2> HIDE DEF asked
  <2> QED
    BY <2>1, <2>2 DEF PollsConsistent, TypeOK
<1>2. ASSUME NEW i \in Interval, polls' = [polls EXCEPT ![i] = {}] PROVE PollsConsistent'
  BY <1>2 DEF PollsConsistent, TypeOK
<1>3. CASE polls' = [i \in Interval |-> {}]
  BY <1>3 DEF PollsConsistent
<1>4. CASE UNCHANGED polls
  BY <1>4 DEF PollsConsistent
<1> QED
  BY <1>1, <1>2, <1>3, <1>4
     DEF Next, Request, Poll, PollAnswered, Backfill, Environment, vars, process, TrackNew,
         TrackKnown, StartCheck, StartCommit, StopMarket, SetPollInterval, DeleteMarket, PollSkip,
         PollAnswer, BackfillBegin, BackfillOutcome, BackfillFail, Restart, Resolve, AdvanceTime

\* No outcome ever holds two prices for one timestamp.
THEOREM OnePricePerTimeCorrect == Spec => []OnePricePerTime
<1>1. Init => OnePricePerTime /\ PollsConsistent
  BY DEF Init, OnePricePerTime, PollsConsistent
<1>2. TypeOK /\ PollsConsistent /\ OnePricePerTime /\ [Next]_vars => OnePricePerTime'
  <2> SUFFICES ASSUME TypeOK, PollsConsistent, OnePricePerTime, [Next]_vars
               PROVE  OnePricePerTime'
    OBVIOUS
  <2>1. ASSUME NEW rows, Stores(rows),
               \A r, u \in rows : r.mid = u.mid /\ r.pos = u.pos /\ r.ts = u.ts => r = u
        PROVE  OnePricePerTime'
    BY <2>1, StoresSteps DEF OnePricePerTime
  <2>2. CASE ticks' \subseteq ticks
    BY <2>2 DEF OnePricePerTime
  <2>3. ASSUME NEW i \in Interval, NEW quoted, Stores(LiveRows(polls[i], quoted))
        PROVE  OnePricePerTime'
    <3>1. ASSUME NEW r \in LiveRows(polls[i], quoted), NEW u \in LiveRows(polls[i], quoted),
                 r.mid = u.mid, r.pos = u.pos
          PROVE  r = u
      <4>1. PICK q \in polls[i] \X Pos :
              r = [mid |-> q[1][1], pos |-> q[2], ts |-> now, cond |-> q[1][2], kind |-> "live"]
        BY DEF LiveRows
      <4>2. PICK v \in polls[i] \X Pos :
              u = [mid |-> v[1][1], pos |-> v[2], ts |-> now, cond |-> v[1][2], kind |-> "live"]
        BY DEF LiveRows
      <4>3. q[1] = v[1]
        BY <3>1, <4>1, <4>2 DEF PollsConsistent
      <4> QED
        BY <3>1, <4>1, <4>2, <4>3
    <3> QED
      BY <2>1, <2>3, <3>1
  <2>4. ASSUME NEW s \in DOMAIN tasks, NEW times \in SUBSET (0..now),
               Stores(HistoryRows(tasks[s], times))
        PROVE  OnePricePerTime'
    <3>1. \A r, u \in HistoryRows(tasks[s], times) : r.ts = u.ts => r = u
      BY DEF HistoryRows
    <3> QED
      BY <2>1, <2>4, <3>1
  <2> QED
    BY <2>2, <2>3, <2>4, TableSteps DEF DeleteMarket
<1> QED
  BY <1>1, <1>2, TypeCorrect, PollsStayConsistent, PTL DEF Spec

\* The running totals always equal the number of stored ticks.
THEOREM CountsMatchTicksCorrect == Spec => []CountsMatchTicks
<1>1. Init => CountsMatchTicks
  BY FS_EmptySet DEF Init, CountsMatchTicks, Of
<1>2. TypeOK /\ CountsMatchTicks /\ [Next]_vars => CountsMatchTicks'
  <2> SUFFICES ASSUME TypeOK, CountsMatchTicks, [Next]_vars PROVE CountsMatchTicks'
    OBVIOUS
  <2>1. ASSUME NEW rows \in SUBSET Tick, Stores(rows) PROVE CountsMatchTicks'
    <3> SUFFICES ASSUME NEW o \in Id \X Pos PROVE counts'[o] = Cardinality(Of(ticks', o))
      BY DEF CountsMatchTicks
    <3> DEFINE old == Of(ticks, o)
               new == Of(Inserted(rows), o)
    <3>1. /\ IsFiniteSet(old) /\ Cardinality(old) \in Nat
          /\ IsFiniteSet(new) /\ Cardinality(new) \in Nat
      <4>1. old \in SUBSET Tick /\ new \in SUBSET Tick
        BY <2>1 DEF TypeOK, Of, Inserted
      <4> QED
        BY <4>1, TicksCardinality
    <3>2. Of(ticks', o) = old \cup new
      BY <2>1, StoresSteps DEF Of
    <3>3. old \cap new = {}
      BY DEF Of, Inserted
    <3>4. Cardinality(old \cup new) = Cardinality(old) + Cardinality(new)
      <4>1. Cardinality(old \cup new)
              = Cardinality(old) + Cardinality(new) - Cardinality(old \cap new)
        BY <3>1, FS_Union
      <4>2. Cardinality(old \cap new) = 0
        BY <3>3, FS_EmptySet
      <4> HIDE DEF old, new
      <4> QED
        BY <3>1, <4>1, <4>2
    <3>5. counts'[o] = counts[o] + Cardinality(new)
      BY <2>1 DEF Stores, InsertTicks
    <3>6. counts[o] = Cardinality(old)
      BY DEF CountsMatchTicks
    <3> QED
      BY <3>2, <3>4, <3>5, <3>6
  <2>2. CASE UNCHANGED <<ticks, counts>>
    BY <2>2 DEF CountsMatchTicks
  <2>3. ASSUME NEW m \in DOMAIN market, DeleteMarket(m) PROVE CountsMatchTicks'
    <3> SUFFICES ASSUME NEW o \in Id \X Pos PROVE counts'[o] = Cardinality(Of(ticks', o))
      BY DEF CountsMatchTicks
    <3>1. CASE o[1] = m
      <4>1. Of(ticks', o) = {}
        BY <2>3, <3>1 DEF DeleteMarket, Of
      <4>2. counts'[o] = 0
        BY <2>3, <3>1 DEF DeleteMarket
      <4> QED
        BY <4>1, <4>2, FS_EmptySet
    <3>2. CASE o[1] # m
      <4>1. Of(ticks', o) = Of(ticks, o)
        BY <2>3, <3>2 DEF DeleteMarket, Of
      <4>2. counts'[o] = counts[o]
        BY <2>3, <3>2 DEF DeleteMarket
      <4> QED
        BY <4>1, <4>2 DEF CountsMatchTicks
    <3> QED
      BY <3>1, <3>2
  <2> QED
    BY <2>1, <2>2, <2>3, TableSteps, LiveRowsTyped, HistoryRowsTyped
<1> QED
  BY <1>1, <1>2, TypeCorrect, PTL DEF Spec

-----------------------------------------------------------------------------
(***************************************************************************)
(* Collector implements TickLog under the refinement mapping of            *)
(* Collector!LogSpec: whatever polls, backfills, requests and restarts do, *)
(* a reader of the database sees logs that open, grow and are erased.      *)
(***************************************************************************)
View(t) == [pos |-> t.pos, ts |-> t.ts, kind |-> t.kind]
PointsOf(rows, m) == {View(t) : t \in {u \in rows : u.mid = m}}

\* The refinement mapping, named.
LogOf(mk, tk) == [m \in DOMAIN mk |-> [since |-> mk[m].since, points |-> PointsOf(tk, m)]]

\* A batch that passes the unique index and the foreign keys adds, to each log, the points
\* of its rows whose key is free there.
LEMMA StoredPoints ==
  ASSUME NEW rows, Stores(rows), NEW m \in DOMAIN market
  PROVE  PointsOf(ticks', m) = PointsOf(ticks, m) \cup PointsOf(Inserted(rows), m)
BY StoresSteps DEF PointsOf

\* A key is free in a log exactly when no stored row has it.
LEMMA FreeInLog ==
  ASSUME NEW m, NEW p, NEW u
  PROVE  (\E q \in PointsOf(ticks, m) : q.pos = p /\ q.ts = u)
           <=> (\E t \in ticks : t.mid = m /\ t.pos = p /\ t.ts = u)
<1>1. ASSUME NEW t \in ticks, t.mid = m, t.pos = p, t.ts = u
      PROVE  \E q \in PointsOf(ticks, m) : q.pos = p /\ q.ts = u
  <2>1. View(t) \in PointsOf(ticks, m) /\ View(t).pos = p /\ View(t).ts = u
    BY <1>1 DEF PointsOf, View
  <2> QED
    BY <2>1
<1>2. ASSUME NEW q \in PointsOf(ticks, m), q.pos = p, q.ts = u
      PROVE  \E t \in ticks : t.mid = m /\ t.pos = p /\ t.ts = u
  <2>1. PICK t \in ticks : t.mid = m /\ q = View(t)
    BY DEF PointsOf
  <2> QED
    BY <1>2, <2>1 DEF View
<1> QED
  BY <1>1, <1>2

\* A poll answer is one AppendLive: the batch is the set of outcomes it stores.
LEMMA LiveIsAppend ==
  ASSUME TypeOK, BoundariesOrdered, NEW i \in Interval, NEW quoted, RowsKept, UNCHANGED now,
         Stores(LiveRows(polls[i], quoted))
  PROVE  Log!AppendLive
<1> DEFINE rows == LiveRows(polls[i], quoted)
           batch == {<<r.mid, r.pos>> : r \in rows}
           log == LogOf(market, ticks)
           logP == LogOf(market', ticks')
           keys(m) == {<<b[2], now>> : b \in {x \in batch : x[1] = m}}
           free(m) == {k \in keys(m) : ~ \E q \in log[m].points : q.pos = k[1] /\ q.ts = k[2]}
           added(m) == {[pos |-> k[1], ts |-> k[2], kind |-> "live"] : k \in free(m)}
<1>1. batch \in SUBSET ((DOMAIN market) \X Pos)
  <2> SUFFICES ASSUME NEW r \in rows PROVE r.mid \in DOMAIN market /\ r.pos \in Pos
    OBVIOUS
  <2> QED
    BY LiveRowsTyped DEF Stores, BreaksForeignKey, Tick
<1>2. ASSUME NEW m \in DOMAIN market
      PROVE  logP[m] = [log[m] EXCEPT !.points = @ \cup added(m)]
  <2>1. logP[m].since = log[m].since /\ logP[m] = [since |-> market[m].since,
                                                   points |-> PointsOf(ticks', m)]
    BY <1>2 DEF RowsKept, LogOf
  <2>2. PointsOf(Inserted(rows), m) = added(m)
    <3>1. ASSUME NEW x \in PointsOf(Inserted(rows), m) PROVE x \in added(m)
      <4>1. PICK r \in Inserted(rows) : r.mid = m /\ x = View(r)
        BY <3>1 DEF PointsOf
      <4>2. r \in rows /\ r.ts = now /\ r.kind = "live"
        BY <4>1, LiveRowsTyped DEF Inserted
      <4>3. <<r.pos, now>> \in keys(m)
        <5> DEFINE b == <<r.mid, r.pos>>
        <5>1. b \in {y \in batch : y[1] = m} /\ b[2] = r.pos
          BY <4>1, <4>2
        <5> HIDE DEF b, batch
        <5> QED
          BY <5>1
      <4>4. ~ \E t \in ticks : t.mid = m /\ t.pos = r.pos /\ t.ts = now
        BY <4>1, <4>2 DEF Inserted
      <4>5. <<r.pos, now>> \in free(m)
        <5>1. ~ \E q \in PointsOf(ticks, m) : q.pos = r.pos /\ q.ts = now
          BY <4>4, FreeInLog
        <5>2. log[m].points = PointsOf(ticks, m)
          BY DEF LogOf
        <5> HIDE DEF keys, log
        <5> QED
          BY <4>3, <5>1, <5>2
      <4>6. x = [pos |-> r.pos, ts |-> now, kind |-> "live"]
        BY <4>1, <4>2 DEF View
      <4>7. x = [pos |-> <<r.pos, now>>[1], ts |-> <<r.pos, now>>[2], kind |-> "live"]
        BY <4>6
      <4> HIDE DEF free
      <4> QED
        BY <4>5, <4>7
    <3>2. ASSUME NEW x \in added(m) PROVE x \in PointsOf(Inserted(rows), m)
      <4>1. PICK k \in free(m) : x = [pos |-> k[1], ts |-> k[2], kind |-> "live"]
        OBVIOUS
      <4>2. PICK r \in rows : r.mid = m /\ k = <<r.pos, now>>
        BY <4>1
      <4>3. r.ts = now /\ r.kind = "live"
        BY <4>2, LiveRowsTyped
      <4>4. ~ \E t \in ticks : t.mid = m /\ t.pos = r.pos /\ t.ts = now
        BY <4>2, FreeInLog DEF LogOf
      <4>5. r \in Inserted(rows)
        BY <4>2, <4>3, <4>4 DEF Inserted
      <4>6. x = View(r)
        BY <4>1, <4>2, <4>3 DEF View
      <4> QED
        BY <4>2, <4>5, <4>6 DEF PointsOf
    <3> QED
      BY <3>1, <3>2
  <2>3. log[m] = [since |-> market[m].since, points |-> PointsOf(ticks, m)]
    BY DEF LogOf
  <2>4. PointsOf(ticks', m) = PointsOf(ticks, m) \cup added(m)
    BY <2>2, StoredPoints
  <2> HIDE DEF added
  <2> QED
    BY <2>1, <2>3, <2>4
<1>3. logP = [m \in DOMAIN market |-> [log[m] EXCEPT !.points = @ \cup added(m)]]
  <2>1. DOMAIN logP = DOMAIN market /\ logP = [m \in DOMAIN market |-> logP[m]]
    BY DEF LogOf, RowsKept
  <2> HIDE DEF logP, added, log
  <2> QED
    BY <1>2, <2>1
<1>4. \A m \in DOMAIN market : market[m].since <= now
  BY DEF BoundariesOrdered
<1> QED
  BY <1>1, <1>3, <1>4 DEF Log!AppendLive, Log!Points, Log!FreeKeys, LogOf, PointsOf, View

\* The history of one outcome is one FillHistory: its times are those of the rows kept.
LEMMA HistoryIsFill ==
  ASSUME TypeOK, BoundariesOrdered, NEW s \in DOMAIN tasks, NEW times \in SUBSET (0..now),
         RowsKept, UNCHANGED now, Stores(HistoryRows(tasks[s], times)),
         HistoryRows(tasks[s], times) # {}
  PROVE  \E x \in Id, y \in Pos : Log!FillHistory(x, y)
<1> DEFINE rows == HistoryRows(tasks[s], times)
           m == tasks[s].mid
           p == tasks[s].pos
           kept == {t \in times : t < tasks[s].since}
           log == LogOf(market, ticks)
           logP == LogOf(market', ticks')
           keys == {<<p, t>> : t \in kept}
           free == {k \in keys : ~ \E q \in log[m].points : q.pos = k[1] /\ q.ts = k[2]}
           added == {[pos |-> k[1], ts |-> k[2], kind |-> "history"] : k \in free}
<1>1. m \in Id /\ p \in Pos /\ tasks[s].since \in Time /\ 0..now \subseteq Time
  BY MaxTimeAssumption DEF TypeOK, Task, Time
<1>2. \A r \in rows : /\ r.mid = m /\ r.pos = p /\ r.ts \in kept /\ r.kind = "history"
  BY DEF HistoryRows
<1>3. ASSUME NEW t \in kept
      PROVE  \E r \in rows : r.mid = m /\ r.pos = p /\ r.ts = t /\ r.kind = "history"
  <2> DEFINE r == [mid |-> m, pos |-> p, ts |-> t, cond |-> tasks[s].cond, kind |-> "history"]
  <2>1. r \in rows
    BY DEF HistoryRows
  <2> QED
    BY <2>1
<1>4. m \in DOMAIN market
  BY <1>2 DEF Stores, BreaksForeignKey
<1>5. log[m].points = PointsOf(ticks, m) /\ log[m].since = market[m].since
  BY <1>4 DEF LogOf
<1>6. kept \in SUBSET {t \in Time : t < log[m].since}
  <2>1. tasks[s].since <= market[m].since
    BY <1>4 DEF BoundariesOrdered
  <2>2. market[m].since \in Nat /\ tasks[s].since \in Nat /\ Time \subseteq Nat
    BY <1>1, <1>4, MaxTimeAssumption DEF TypeOK, MarketRow, Time
  <2>3. SUFFICES ASSUME NEW t \in kept PROVE t \in Time /\ t < log[m].since
    OBVIOUS
  <2>4. t \in times /\ t < tasks[s].since
    BY <2>3
  <2>5. t \in Time /\ t \in Nat
    BY <1>1, <2>2, <2>4
  <2>6. t < market[m].since
    <3> HIDE DEF m
    <3> QED
      BY <2>1, <2>2, <2>4, <2>5
  <2> QED
    BY <1>5, <2>5, <2>6
<1>7. PointsOf(Inserted(rows), m) = added
  <2>1. ASSUME NEW x \in PointsOf(Inserted(rows), m) PROVE x \in added
    <3>1. PICK r \in Inserted(rows) : r.mid = m /\ x = View(r)
      BY DEF PointsOf
    <3>2. r.pos = p /\ r.ts \in kept /\ r.kind = "history"
      BY <1>2, <3>1 DEF Inserted
    <3>3. ~ \E t \in ticks : t.mid = m /\ t.pos = p /\ t.ts = r.ts
      BY <3>1, <3>2 DEF Inserted
    <3>4. ~ \E q \in PointsOf(ticks, m) : q.pos = p /\ q.ts = r.ts
      BY <3>3, FreeInLog
    <3>5. <<p, r.ts>> \in free
      <4> HIDE DEF kept, log, p, m
      <4> QED
        BY <1>5, <3>2, <3>4
    <3>6. x = [pos |-> <<p, r.ts>>[1], ts |-> <<p, r.ts>>[2], kind |-> "history"]
      BY <3>1, <3>2 DEF View
    <3> HIDE DEF free
    <3> QED
      BY <3>5, <3>6
  <2>2. ASSUME NEW x \in added PROVE x \in PointsOf(Inserted(rows), m)
    <3>1. PICK k \in free : x = [pos |-> k[1], ts |-> k[2], kind |-> "history"]
      OBVIOUS
    <3>2. PICK t \in kept : k = <<p, t>>
      BY <3>1
    <3>3. ~ \E q \in PointsOf(ticks, m) : q.pos = p /\ q.ts = t
      <4> HIDE DEF keys, log, p, m
      <4> QED
        BY <1>5, <3>1, <3>2
    <3>4. ~ \E u \in ticks : u.mid = m /\ u.pos = p /\ u.ts = t
      <4> HIDE DEF kept, free, m, p
      <4> QED
        BY <3>3, FreeInLog
    <3>5. PICK r \in rows : r.mid = m /\ r.pos = p /\ r.ts = t /\ r.kind = "history"
      <4> HIDE DEF kept, rows, m, p
      <4> QED
        BY <1>3
    <3>6. r \in Inserted(rows)
      BY <3>4, <3>5 DEF Inserted
    <3>7. x = View(r)
      BY <3>1, <3>2, <3>5 DEF View
    <3> QED
      BY <3>5, <3>6, <3>7 DEF PointsOf
  <2> QED
    BY <2>1, <2>2
<1>8. logP = [log EXCEPT ![m].points = @ \cup added]
  <2>1. ASSUME NEW x \in DOMAIN market, x # m PROVE logP[x] = log[x]
    <3>1. PointsOf(Inserted(rows), x) = {}
      BY <1>2, <2>1 DEF PointsOf, Inserted
    <3>2. PointsOf(ticks', x) = PointsOf(ticks, x)
      BY <3>1, StoredPoints
    <3> QED
      BY <3>2 DEF LogOf, RowsKept
  <2>2. logP[m] = [since |-> market[m].since, points |-> PointsOf(ticks, m) \cup added]
    <3>1. PointsOf(ticks', m) = PointsOf(ticks, m) \cup added
      BY <1>4, <1>7, StoredPoints
    <3> QED
      BY <1>4, <3>1 DEF LogOf, RowsKept
  <2>3. log[m] = [since |-> market[m].since, points |-> PointsOf(ticks, m)]
    BY <1>4 DEF LogOf
  <2>4. /\ DOMAIN logP = DOMAIN market /\ DOMAIN log = DOMAIN market
        /\ logP = [x \in DOMAIN market |-> logP[x]]
        /\ log = [x \in DOMAIN market |-> log[x]]
    BY DEF LogOf, RowsKept
  <2>5. [log[m] EXCEPT !.points = log[m].points \cup added] = logP[m]
    <3> HIDE DEF logP, log, added, m
    <3> QED
      BY <2>2, <2>3
  <2>6. [log EXCEPT ![m].points = @ \cup added]
          = [x \in DOMAIN market |->
               IF x = m THEN [log[m] EXCEPT !.points = log[m].points \cup added] ELSE log[x]]
    <3> HIDE DEF logP, log, added, m
    <3> QED
      BY <1>4, <2>4
  <2> HIDE DEF logP, log, added, m
  <2> QED
    BY <1>4, <2>1, <2>4, <2>5, <2>6
<1>9. ASSUME NEW x \in Id, NEW y \in Pos, x = m, y = p PROVE Log!FillHistory(x, y)
  <2> DEFINE freeAt(ts) == {k \in {<<y, t>> : t \in ts} :
                              ~ \E q \in log[x].points : q.pos = k[1] /\ q.ts = k[2]}
             addedAt(ts) == {[pos |-> k[1], ts |-> k[2], kind |-> "history"] : k \in freeAt(ts)}
  <2>1. x \in DOMAIN log /\ kept \in SUBSET {t \in Time : t < log[x].since}
    BY <1>4, <1>6, <1>9 DEF LogOf
  <2>2. logP = [log EXCEPT ![x].points = @ \cup addedAt(kept)]
    BY <1>8, <1>9
  <2>3. /\ x \in DOMAIN log
        /\ \E ts \in SUBSET {t \in Time : t < log[x].since} :
             logP = [log EXCEPT ![x].points = @ \cup addedAt(ts)]
        /\ UNCHANGED now
    <3> HIDE DEF kept, log, logP, addedAt
    <3> QED
      BY <2>1, <2>2
  <2> QED
    BY <2>3 DEF Log!FillHistory, Log!Points, Log!FreeKeys, Log!Time, LogOf, PointsOf, View, Time
<1>10. PICK x \in Id, y \in Pos : x = m /\ y = p
  BY <1>1
<1> HIDE DEF m, p
<1> QED
  BY <1>9, <1>10

\* Collector implements TickLog.
THEOREM ImplementsTickLog == Spec => LogSpec
<1> DEFINE log == LogOf(market, ticks)
<1>1. Init => Log!Init
  BY DEF Init, Log!Init
<1>2. TypeOK /\ TicksHaveMarket /\ BoundariesOrdered /\ [Next]_vars
        => [Log!Next]_<<now, log>>
  <2> SUFFICES ASSUME TypeOK, TicksHaveMarket, BoundariesOrdered, [Next]_vars
               PROVE  Log!Next \/ UNCHANGED <<now, log>>
    OBVIOUS
  <2>1. ASSUME NEW m \in Id \ DOMAIN market, DOMAIN market' = DOMAIN market \cup {m},
               market'[m].since = now, UNCHANGED <<ticks, now>>,
               \A x \in DOMAIN market : market'[x] = market[x]
        PROVE  Log!Open(m)
    <3>1. PointsOf(ticks, m) = {}
      BY <2>1 DEF PointsOf, TicksHaveMarket
    <3>2. log' = [x \in DOMAIN market \cup {m} |->
                    IF x = m THEN [since |-> now, points |-> {}] ELSE log[x]]
      BY <2>1, <3>1 DEF LogOf
    <3> QED
      BY <2>1, <3>2 DEF Log!Open, LogOf, PointsOf, View
  <2>2. ASSUME NEW m \in DOMAIN market, DeleteMarket(m) PROVE Log!Erase(m)
    <3>1. \A x \in DOMAIN market \ {m} : PointsOf(ticks', x) = PointsOf(ticks, x)
      BY <2>2 DEF DeleteMarket, PointsOf
    <3>2. log' = [x \in DOMAIN market \ {m} |-> log[x]]
      BY <2>2, <3>1 DEF LogOf, DeleteMarket
    <3> QED
      BY <2>2, <3>2 DEF Log!Erase, LogOf, PointsOf, View, DeleteMarket
  <2>3. ASSUME RowsKept, UNCHANGED ticks PROVE UNCHANGED log
    BY <2>3 DEF RowsKept, LogOf
  <2>4. now' = now \/ Log!Advance \/ ~ UNCHANGED log
    <3>1. now' = now \/ AdvanceTime
      BY DEF Next, Request, Poll, PollAnswered, Backfill, Environment, vars, TrackNew, TrackKnown,
         StartCheck, StartCommit, StopMarket, SetPollInterval, DeleteMarket, PollBegin, PollSkip,
         PollAnswer, BackfillBegin, BackfillOutcome, BackfillFail, Restart, Resolve
    <3>2. AdvanceTime => now' \in Time /\ now' = now + 1 /\ UNCHANGED log
      BY MaxTimeAssumption DEF AdvanceTime, TypeOK, Time, db, LogOf
    <3> QED
      BY <3>1, <3>2 DEF Log!Advance, Log!Time, LogOf, PointsOf, View, Time
  <2>5. ASSUME NEW s \in DOMAIN tasks, NEW times \in SUBSET (0..now),
               Stores(HistoryRows(tasks[s], times)), HistoryRows(tasks[s], times) = {}, RowsKept
        PROVE  UNCHANGED log
    <3>1. UNCHANGED ticks
      BY <2>5, StoresSteps DEF Inserted
    <3> QED
      BY <2>3, <2>5, <3>1
  <2>6. DOMAIN market \subseteq Id
    BY DEF TypeOK
  <2> QED
    <3>1. CASE \E m \in Id : Log!Open(m) \/ Log!Erase(m) \/ \E p \in Pos : Log!FillHistory(m, p)
      BY <3>1 DEF Log!Next
    <3>2. CASE Log!AppendLive
      BY <3>2 DEF Log!Next
    <3>3. CASE UNCHANGED log
      BY <2>4, <3>3 DEF Log!Next
    <3> HIDE DEF log
    <3> QED
      BY <2>1, <2>2, <2>3, <2>5, <2>6, <3>1, <3>2, <3>3, TableSteps, LiveIsAppend, HistoryIsFill
<1> QED
  BY <1>1, <1>2, TypeCorrect, TicksHaveMarketCorrect, BoundariesOrderedCorrect, PTL
     DEF Spec, LogSpec, Log!Spec, LogOf, PointsOf, View

-----------------------------------------------------------------------------
(***************************************************************************)
(* CollectorHistory.  An id that has never been deleted has had one row, so*)
(* whatever a poll in flight asked about under it is that row's, and the   *)
(* counter in memory never exceeds the empty polls the row has seen.       *)
(***************************************************************************)
Fresh(m) == m \in Id /\ m \notin reused

PollsAreOwn == \A i \in Interval : \A a \in polls[i] :
    Fresh(a[1]) => a[1] \in DOMAIN market /\ a[2] = market[a[1]].cond

MissesAreSeen == \A m \in Id : Fresh(m) =>
    IF m \in DOMAIN market THEN misses[m] <= empties[m] ELSE misses[m] = 0

HInv == /\ TypeOK /\ empties \in [Id -> 0..CloseAfter]
        /\ PollsAreOwn /\ MissesAreSeen

LEMMA HistoryStep == [HNext]_hvars => [Next]_vars
<1> SUFFICES ASSUME [HNext]_hvars PROVE [Next]_vars
  OBVIOUS
<1>1. CASE UNCHANGED hvars
  BY <1>1 DEF hvars
<1>2. CASE HOther
  BY <1>2 DEF HOther, Next, Poll
<1>3. ASSUME NEW i \in Interval, NEW quoted \in SUBSET Quotable(i), HPollAnswer(i, quoted)
      PROVE  Next
  BY <1>3 DEF HPollAnswer, Next, Poll, PollAnswered
<1> QED
  BY <1>1, <1>2, <1>3 DEF HNext

\* A step that answers no poll keeps the condition of a row, closes no row, counts no
\* miss, and asks about rows that are there.
LEMMA OtherSteps ==
  ASSUME TypeOK, HOther
  PROVE  /\ \A m \in (DOMAIN market) \cap DOMAIN market' :
               market'[m].cond = market[m].cond /\ market'[m].closed = market[m].closed
         /\ misses' = misses \/ misses' = [m \in Id |-> 0]
         /\ \A i \in Interval : \A a \in polls'[i] :
               a \in polls[i] \/ (a[1] \in DOMAIN market' /\ a[2] = market'[a[1]].cond)
<1> DEFINE Goal == /\ \A m \in (DOMAIN market) \cap DOMAIN market' :
                         market'[m].cond = market[m].cond /\ market'[m].closed = market[m].closed
                   /\ misses' = misses \/ misses' = [m \in Id |-> 0]
                   /\ \A i \in Interval : \A a \in polls'[i] :
                         a \in polls[i] \/ (a[1] \in DOMAIN market' /\ a[2] = market'[a[1]].cond)
<1>0. /\ market \in [DOMAIN market -> MarketRow]
      /\ polls \in [Interval -> SUBSET (Id \X Cond)]
  BY DEF TypeOK
<1>1. ASSUME NEW m \in Id, NEW v \in BOOLEAN, SetTracking(m, v), UNCHANGED <<misses, polls>>
      PROVE  Goal
  BY <1>0, <1>1 DEF SetTracking, MarketRow
<1>2. CASE Request
  <2>1. ASSUME NEW c \in Cond, NEW i \in Interval, TrackNew(c, i) PROVE Goal
    <3>1. PICK m \in Id :
             /\ IsNewId(m)
             /\ market' = [x \in DOMAIN market \cup {m} |->
                             IF x = m THEN [cond |-> c, tracking |-> TRUE, closed |-> FALSE,
                                            interval |-> i, since |-> now]
                             ELSE market[x]]
      BY <2>1 DEF TrackNew
    <3>2. m \notin DOMAIN market
      BY <3>1 DEF IsNewId, Id
    <3> QED
      BY <2>1, <3>1, <3>2 DEF TrackNew
  <2>2. ASSUME NEW m \in Id, TrackKnown(m) PROVE Goal
    <3>1. (market[m].tracking \/ ~ market[m].closed) \in BOOLEAN
      OBVIOUS
    <3> QED
      BY <1>1, <2>2, <3>1 DEF TrackKnown
  <2>3. ASSUME NEW m \in Id, StopMarket(m) PROVE Goal
    BY <1>1, <2>3 DEF StopMarket, process
  <2>4. ASSUME NEW m \in Id, StartCheck(m) PROVE Goal
    BY <2>4 DEF StartCheck, db
  <2>5. ASSUME NEW m \in Id, DeleteMarket(m) PROVE Goal
    BY <2>5 DEF DeleteMarket, process
  <2>6. ASSUME NEW m \in Id, NEW i \in Interval, SetPollInterval(m, i) PROVE Goal
    BY <1>0, <2>6 DEF SetPollInterval, process, MarketRow
  <2> QED
    BY <1>2, <2>1, <2>2, <2>3, <2>4, <2>5, <2>6 DEF Request
<1>3. ASSUME NEW m \in Id, StartCommit(m) PROVE Goal
  BY <1>1, <1>3 DEF StartCommit
<1>4. ASSUME NEW i \in Interval, PollBegin(i) PROVE Goal
  <2>1. /\ polls' = [polls EXCEPT ![i] = {<<m, market[m].cond>> :
                                        m \in {x \in Tracked : market[x].interval = i}}]
        /\ UNCHANGED <<market, misses>>
    BY <1>4 DEF PollBegin, db
  <2> QED
    BY <1>0, <2>1 DEF Tracked
<1>5. ASSUME NEW i \in Interval, PollSkip(i) PROVE Goal
  BY <1>0, <1>5 DEF PollSkip, db
<1>6. CASE Backfill
  BY <1>6 DEF Backfill, BackfillBegin, BackfillOutcome, BackfillFail, db
<1>7. CASE Environment
  BY <1>7 DEF Environment, Restart, Resolve, AdvanceTime, db, process
<1> QED
  BY <1>2, <1>3, <1>4, <1>5, <1>6, <1>7 DEF HOther

\* What the answer of a poll does to a row whose id is fresh.
LEMMA AnswerCounts ==
  ASSUME HInv, NEW i \in Interval, NEW quoted \in SUBSET Quotable(i), HPollAnswer(i, quoted),
         NEW m \in Id, Fresh(m)
  PROVE  /\ m \in DOMAIN market => misses'[m] <= empties'[m]
         /\ m \notin DOMAIN market => misses'[m] = misses[m]
         /\ m \in DOMAIN market /\ ~ market[m].closed /\ market'[m].closed
               => empties'[m] >= CloseAfter
<1> DEFINE rows == LiveRows(polls[i], quoted)
           absent == Absent(polls[i], quoted)
           closing == {x \in absent : misses[x] + 1 >= CloseAfter}
<1>0. /\ misses[m] \in Int /\ misses[m] < CloseAfter /\ misses[m] >= 0
      /\ empties[m] \in Int /\ empties[m] <= CloseAfter /\ empties[m] >= 0
      /\ CloseAfter \in Nat
      /\ m \in DOMAIN market => misses[m] <= empties[m]
  BY CloseAfterAssumption DEF HInv, TypeOK, MissesAreSeen
<1>1. \A a \in polls[i] : a[1] = m => AskedItself(i, m) /\ m \in DOMAIN market
  <2> SUFFICES ASSUME NEW a \in polls[i], a[1] = m
               PROVE  AskedItself(i, m) /\ m \in DOMAIN market
    OBVIOUS
  <2>1. m \in DOMAIN market /\ a[2] = market[m].cond
    BY DEF HInv, PollsAreOwn
  <2>2. a \in Id \X Cond
    BY DEF HInv, TypeOK
  <2>3. a = <<m, market[m].cond>>
    BY <2>1, <2>2
  <2> QED
    BY <2>1, <2>3 DEF AskedItself
<1>2. m \in absent => AskedItself(i, m)
  BY <1>1 DEF Absent
<1>3. empties'[m] = IF ~ AskedItself(i, m) \/ BreaksForeignKey(rows) THEN empties[m]
                    ELSE IF m \notin absent THEN 0
                    ELSE IF empties[m] = CloseAfter THEN empties[m] ELSE empties[m] + 1
  BY DEF HPollAnswer
<1>4. CASE BreaksForeignKey(rows)
  <2>1. UNCHANGED <<market, misses>>
    BY <1>4 DEF HPollAnswer, PollAnswer, db
  <2> QED
    BY <1>0, <1>3, <1>4, <2>1
<1>5. CASE ~ BreaksForeignKey(rows)
  <2>1. CountMisses(polls[i], absent)
    BY <1>5 DEF HPollAnswer, PollAnswer
  <2>2. misses'[m] = IF m \in absent \ closing THEN misses[m] + 1
                     ELSE IF \E a \in polls[i] : a[1] = m THEN 0 ELSE misses[m]
    BY <2>1 DEF CountMisses
  <2>3. (\E a \in polls[i] : a[1] = m) <=> AskedItself(i, m)
    BY <1>1 DEF AskedItself
  <2>4. m \in DOMAIN market /\ ~ market[m].closed /\ market'[m].closed => m \in closing
    BY <2>1 DEF CountMisses, HInv, TypeOK, MarketRow
  <2>5. m \in closing <=> m \in absent /\ misses[m] + 1 >= CloseAfter
    OBVIOUS
  <2>6. AskedItself(i, m) => m \in DOMAIN market
    BY DEF AskedItself
  <2> HIDE DEF closing, absent, rows
  <2> QED
    BY <1>0, <1>2, <1>3, <1>5, <2>2, <2>3, <2>4, <2>5, <2>6
<1> QED
  BY <1>4, <1>5

LEMMA AnswerKeeps ==
  ASSUME TypeOK, NEW i \in Interval, NEW quoted, HPollAnswer(i, quoted)
  PROVE  /\ DOMAIN market' = DOMAIN market
         /\ \A m \in DOMAIN market : market'[m].cond = market[m].cond
         /\ reused' = reused
         /\ \A j \in Interval : polls'[j] \subseteq polls[j]
<1>1. PollAnswer(i, quoted) /\ reused' = reused /\ polls' = [polls EXCEPT ![i] = {}]
  BY DEF HPollAnswer, PollAnswer
<1>2. market \in [DOMAIN market -> MarketRow] /\ polls \in [Interval -> SUBSET (Id \X Cond)]
  BY DEF TypeOK
<1>3. CASE UNCHANGED market
  BY <1>1, <1>2, <1>3
<1>4. CASE CountMisses(polls[i], Absent(polls[i], quoted))
  BY <1>1, <1>2, <1>4 DEF CountMisses, MarketRow
<1> QED
  BY <1>1, <1>3, <1>4 DEF PollAnswer, db

LEMMA HInvHolds == HInv /\ TypeOK' /\ [HNext]_hvars => HInv'
<1> SUFFICES ASSUME HInv, TypeOK', [HNext]_hvars PROVE HInv'
  OBVIOUS
<1> USE CloseAfterAssumption
<1>1. CASE UNCHANGED hvars
  BY <1>1 DEF hvars, vars, HInv, PollsAreOwn, MissesAreSeen, Fresh
<1>2. CASE HOther
  <2>1. /\ empties' = [m \in Id |-> IF m \in (DOMAIN market) \cap DOMAIN market'
                                   THEN empties[m] ELSE 0]
        /\ reused' = reused \cup ((DOMAIN market) \ DOMAIN market')
    BY <1>2 DEF HOther
  <2>2. empties' \in [Id -> 0..CloseAfter]
    BY <2>1 DEF HInv
  <2>3. PollsAreOwn'
    <3> SUFFICES ASSUME NEW i \in Interval, NEW a \in polls'[i], Fresh(a[1])'
                 PROVE  a[1] \in DOMAIN market' /\ a[2] = market'[a[1]].cond
      BY DEF PollsAreOwn
    <3>1. CASE a \in polls[i]
      <4>1. Fresh(a[1])
        BY <2>1 DEF Fresh
      <4>2. a[1] \in DOMAIN market /\ a[2] = market[a[1]].cond
        BY <3>1, <4>1 DEF HInv, PollsAreOwn
      <4>3. a[1] \in DOMAIN market'
        BY <2>1, <4>2 DEF Fresh
      <4> QED
        BY <1>2, <4>2, <4>3, OtherSteps DEF HInv
    <3> QED
      BY <1>2, <3>1, OtherSteps DEF HInv
  <2>4. MissesAreSeen'
    <3> SUFFICES ASSUME NEW m \in Id, Fresh(m)'
                 PROVE  IF m \in DOMAIN market' THEN misses'[m] <= empties'[m]
                                                ELSE misses'[m] = 0
      BY DEF MissesAreSeen
    <3>1. Fresh(m) /\ (m \in DOMAIN market => m \in DOMAIN market')
      BY <2>1 DEF Fresh
    <3>2. misses[m] \in Int /\ empties[m] \in 0..CloseAfter
          /\ (IF m \in DOMAIN market THEN misses[m] <= empties[m] ELSE misses[m] = 0)
      BY <3>1 DEF HInv, TypeOK, MissesAreSeen
    <3>3. misses'[m] = misses[m] \/ misses'[m] = 0
      BY <1>2, OtherSteps DEF HInv
    <3>4. empties'[m] = IF m \in DOMAIN market /\ m \in DOMAIN market' THEN empties[m] ELSE 0
      BY <2>1
    <3> QED
      BY <3>1, <3>2, <3>3, <3>4
  <2> QED
    BY <2>2, <2>3, <2>4 DEF HInv
<1>3. ASSUME NEW i \in Interval, NEW quoted \in SUBSET Quotable(i), HPollAnswer(i, quoted)
      PROVE  HInv'
  <2>1. empties' \in [Id -> 0..CloseAfter]
    BY <1>3 DEF HPollAnswer, HInv
  <2>2. PollsAreOwn'
    BY <1>3, AnswerKeeps DEF HInv, PollsAreOwn, Fresh
  <2>3. MissesAreSeen'
    <3> SUFFICES ASSUME NEW m \in Id, Fresh(m)'
                 PROVE  IF m \in DOMAIN market' THEN misses'[m] <= empties'[m]
                                                ELSE misses'[m] = 0
      BY DEF MissesAreSeen
    <3>1. Fresh(m) /\ DOMAIN market' = DOMAIN market
      BY <1>3, AnswerKeeps DEF HInv, Fresh
    <3>2. m \notin DOMAIN market => misses[m] = 0
      BY <3>1 DEF HInv, MissesAreSeen
    <3> QED
      BY <1>3, <3>1, <3>2, AnswerCounts
  <2> QED
    BY <2>1, <2>2, <2>3 DEF HInv
<1> QED
  BY <1>1, <1>2, <1>3 DEF HNext

\* README.md, "Closed market detection": whatever stale polls, failed batches, restarts
\* and changes of interval do to the counter, a market whose id nobody used before is
\* closed only by CloseAfter empty polls of its own in a row.
THEOREM FreshRowsCloseOnThirdMissCorrect == HSpec => FreshRowsCloseOnThirdMiss
<1>1. HInit => Init /\ empties \in [Id -> 0..CloseAfter] /\ PollsAreOwn /\ MissesAreSeen
  BY CloseAfterAssumption DEF HInit, Init, PollsAreOwn, MissesAreSeen
<1>2. HSpec => Spec
  BY <1>1, HistoryStep, PTL DEF HSpec, Spec
<1>3. HSpec => []HInv
  <2>1. HInit /\ TypeOK => HInv
    BY <1>1 DEF HInv
  <2> QED
    BY <1>2, <2>1, HInvHolds, TypeCorrect, PTL DEF HSpec
<1>4. HInv /\ [HNext]_hvars
        => [\A m \in Id : Closes(m) /\ m \notin reused => empties'[m] >= CloseAfter]_hvars
  <2> SUFFICES ASSUME HInv, HNext, NEW m \in Id, Closes(m), m \notin reused
               PROVE  empties'[m] >= CloseAfter
    OBVIOUS
  <2>1. CASE HOther
    BY <2>1, OtherSteps DEF HInv, Closes
  <2>2. ASSUME NEW i \in Interval, NEW quoted \in SUBSET Quotable(i), HPollAnswer(i, quoted)
        PROVE  empties'[m] >= CloseAfter
    BY <2>2, AnswerCounts DEF Fresh, Closes
  <2> QED
    BY <2>1, <2>2 DEF HNext
<1> QED
  BY <1>3, <1>4, PTL DEF HSpec, FreshRowsCloseOnThirdMiss
=============================================================================
