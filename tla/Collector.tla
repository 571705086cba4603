------------------------------ MODULE Collector ------------------------------
(***************************************************************************)
(* The price collector of backend/collector and the market tables of       *)
(* backend/database/db.py, together with the HTTP handlers that change     *)
(* them (backend/api/routes.py).                                           *)
(*                                                                         *)
(* Concurrency as in the program.  Polls, backfills and the track handlers *)
(* run on one event loop and interleave where they await an HTTP answer;   *)
(* start / stop / patch / delete are plain `def` handlers that run on      *)
(* worker threads, so they fall anywhere between two database              *)
(* transactions.  A poll or a backfill therefore reads the database, waits *)
(* and then writes by row id, whatever has happened to that row meanwhile. *)
(*                                                                         *)
(* Abstractions.                                                           *)
(*  - A market row is keyed by its SQLite rowid.  The tables have no       *)
(*    AUTOINCREMENT, so a new row gets max(existing ids) + 1 and an id     *)
(*    comes back after the highest row is deleted.                         *)
(*  - Outcome ids follow the market id in the same order, so the outcome   *)
(*    at position p of market m is <<m, p>>; its CLOB token is             *)
(*    <<cond, p>>, cond being the market's condition id.                   *)
(*  - A price is represented by where it came from: the condition it       *)
(*    quotes and whether a poll or a backfill stored it.                   *)
(*  - The APScheduler runs at most one poll per job id, so polls[i] is the *)
(*    poll of interval i in flight.  Which jobs exist is JobSync's         *)
(*    subject; here a poll of any interval may start at any time.          *)
(*  - Events only group markets and are left out.                          *)
(***************************************************************************)
EXTENDS Naturals, FiniteSets

CONSTANTS
    Cond,       \* condition ids of Polymarket markets
    NumPos,     \* outcomes per market
    Interval,   \* poll intervals in use
    MaxId,      \* bound on row ids
    MaxTime,    \* bound on the clock
    Slot,       \* bound on concurrent backfill tasks
    CloseAfter  \* scheduler.CLOSE_AFTER_MISSES

ASSUME CondAssumption == IsFiniteSet(Cond)
ASSUME NumPosAssumption == NumPos \in Nat \ {0}
ASSUME MaxIdAssumption == MaxId \in Nat \ {0}
ASSUME MaxTimeAssumption == MaxTime \in Nat \ {0}
ASSUME CloseAfterAssumption == CloseAfter \in Nat \ {0}

Id == 1..MaxId
Pos == 1..NumPos
Time == 0..MaxTime

MarketRow == [cond : Cond, tracking : BOOLEAN, closed : BOOLEAN,
              interval : Interval, since : Time]
Tick == [mid : Id, pos : Pos, ts : Time, cond : Cond, kind : {"live", "history"}]
Task == [mid : Id, begun : BOOLEAN, cond : Cond, since : Time, pos : Pos]

VARIABLES
    now,       \* wall clock, seconds
    market,    \* table markets (with its outcomes): id -> row
    ticks,     \* table ticks
    counts,    \* table tick_counts, 0 where there is no row
    misses,    \* scheduler._misses, 0 where there is no entry
    polls,     \* polls[i]: the <<id, cond>> pairs the poll in flight asked about
    tasks,     \* backfill tasks: slot -> task
    starting,  \* market ids whose start request has passed its closed check
    resolved   \* external: conditions whose order book Polymarket has removed

vars == <<now, market, ticks, counts, misses, polls, tasks, starting, resolved>>
db == <<market, ticks, counts>>
process == <<misses, polls, tasks, starting>>

Init ==
    /\ now = 1
    /\ market = << >>
    /\ ticks = {}
    /\ counts = [o \in Id \X Pos |-> 0]
    /\ misses = [m \in Id |-> 0]
    /\ polls = [i \in Interval |-> {}]
    /\ tasks = << >>
    /\ starting = {}
    /\ resolved = {}

-----------------------------------------------------------------------------
(* Database operations *)

Tracked == {m \in DOMAIN market : market[m].tracking}

\* UPDATE markets SET tracking = v WHERE id = m; an id without a row changes nothing.
SetTracking(m, v) ==
    market' = IF m \in DOMAIN market THEN [market EXCEPT ![m].tracking = v] ELSE market

\* INTEGER PRIMARY KEY without AUTOINCREMENT: one more than the largest id in use.
IsNewId(m) ==
    /\ m \in Id
    /\ \A x \in DOMAIN market : x < m
    /\ m = 1 \/ m - 1 \in DOMAIN market

\* A mutant of Inserted: no unique index.
InsertedAlways(rows) == rows

\* UNIQUE (outcome_id, ts) with INSERT OR IGNORE: a row whose key is taken is dropped.
Inserted(rows) ==
    {r \in rows : ~ \E t \in ticks : t.mid = r.mid /\ t.pos = r.pos /\ t.ts = r.ts}

Of(rows, o) == {r \in rows : r.mid = o[1] /\ r.pos = o[2]}

\* A mutant of InsertTicks: the counter follows the rows sent, not the rows stored.
InsertTicksCountingAll(rows) ==
    /\ ticks' = ticks \cup Inserted(rows)
    /\ counts' = [o \in Id \X Pos |-> counts[o] + Cardinality(Of(rows, o))]

\* insert_ticks, when no foreign key fails: one transaction stores the rows and
\* adds the number really inserted to each outcome's running total.
InsertTicks(rows) ==
    /\ ticks' = ticks \cup Inserted(rows)
    /\ counts' = [o \in Id \X Pos |-> counts[o] + Cardinality(Of(Inserted(rows), o))]

\* A mutant of BreaksForeignKey: PRAGMA foreign_keys left at its default, OFF.
BreaksForeignKeyOff(rows) == FALSE

\* ticks.outcome_id REFERENCES outcomes(id); OR IGNORE does not excuse a foreign key,
\* so one row of a deleted outcome rolls the whole batch back and raises.
BreaksForeignKey(rows) == \E r \in rows : r.mid \notin DOMAIN market

-----------------------------------------------------------------------------
(* HTTP handlers *)

NewTask(m, c) == [mid |-> m, begun |-> FALSE, cond |-> c, since |-> 0, pos |-> 1]
QueueBackfill(m, c) ==
    \E s \in Slot \ DOMAIN tasks :
        tasks' = [x \in DOMAIN tasks \cup {s} |-> IF x = s THEN NewTask(m, c) ELSE tasks[x]]

\* track_event / track_and_chart after Gamma has answered: add_market and a backfill
\* task, with no await between them.  A known market resumes unless it is closed.
TrackKnown(m) ==
    /\ m \in DOMAIN market
    /\ SetTracking(m, market[m].tracking \/ ~ market[m].closed)
    /\ QueueBackfill(m, market[m].cond)
    /\ UNCHANGED <<now, ticks, counts, misses, polls, starting, resolved>>

TrackNew(c, i) ==
    /\ \A x \in DOMAIN market : market[x].cond # c
    /\ \E m \in Id :
         /\ IsNewId(m)
         /\ market' = [x \in DOMAIN market \cup {m} |->
                         IF x = m THEN [cond |-> c, tracking |-> TRUE, closed |-> FALSE,
                                        interval |-> i, since |-> now]
                         ELSE market[x]]
         /\ QueueBackfill(m, c)
    /\ UNCHANGED <<now, ticks, counts, misses, polls, starting, resolved>>

\* start_market: the closed check and the UPDATE are two transactions of a thread.
StartCheck(m) ==
    /\ m \in DOMAIN market
    /\ ~ market[m].closed
    /\ starting' = starting \cup {m}
    /\ UNCHANGED <<now, db, misses, polls, tasks, resolved>>

StartCommit(m) ==
    /\ m \in starting
    /\ starting' = starting \ {m}
    /\ SetTracking(m, TRUE)
    /\ UNCHANGED <<now, ticks, counts, misses, polls, tasks, resolved>>

StopMarket(m) ==
    /\ m \in DOMAIN market
    /\ SetTracking(m, FALSE)
    /\ UNCHANGED <<now, ticks, counts, process, resolved>>

\* patch_market, and sync_mlb_intervals moving a game between its two speeds.
SetPollInterval(m, i) ==
    /\ m \in DOMAIN market
    /\ market' = [market EXCEPT ![m].interval = i]
    /\ UNCHANGED <<now, ticks, counts, process, resolved>>

\* A mutant of DeleteMarket: the ticks of the deleted outcomes survive.
DeleteMarketKeepingTicks(m) ==
    /\ m \in DOMAIN market
    /\ market' = [x \in DOMAIN market \ {m} |-> market[x]]
    /\ UNCHANGED <<now, ticks, counts, process, resolved>>

\* delete_market: ticks, totals, outcomes and the row go in one transaction.
\* _misses, polls in flight and backfill tasks are not told.
DeleteMarket(m) ==
    /\ m \in DOMAIN market
    /\ ticks' = {t \in ticks : t.mid # m}
    /\ counts' = [o \in Id \X Pos |-> IF o[1] = m THEN 0 ELSE counts[o]]
    /\ market' = [x \in DOMAIN market \ {m} |-> market[x]]
    /\ UNCHANGED <<now, process, resolved>>

-----------------------------------------------------------------------------
(* scheduler.poll *)

\* tracked_outcomes of one interval, then the await; nothing tracked, nothing started.
PollBegin(i) ==
    /\ polls[i] = {}
    /\ polls' = [polls EXCEPT ![i] = {<<m, market[m].cond>> :
                                        m \in {x \in Tracked : market[x].interval = i}}]
    /\ polls'[i] # {}
    /\ UNCHANGED <<now, db, misses, tasks, starting, resolved>>

\* fetch_midpoints gave up after its retries: RuntimeError, the cycle is skipped.
PollSkip(i) ==
    /\ polls[i] # {}
    /\ polls' = [polls EXCEPT ![i] = {}]
    /\ UNCHANGED <<now, db, misses, tasks, starting, resolved>>

LiveRows(asked, quoted) ==
    {[mid |-> q[1][1], pos |-> q[2], ts |-> now, cond |-> q[1][2], kind |-> "live"] :
        q \in {x \in asked \X Pos : <<x[1][2], x[2]>> \in quoted}}

Absent(asked, quoted) ==
    {a[1] : a \in {x \in asked : \A p \in Pos : <<x[2], p>> \notin quoted}}

\* A mutant of CountMisses: a closed market keeps its tracking flag.
CountMissesKeepTracking(asked, absent) ==
    LET closing == {m \in absent : misses[m] + 1 >= CloseAfter} IN
    /\ misses' = [m \in Id |-> IF m \in absent \ closing THEN misses[m] + 1
                               ELSE IF \E a \in asked : a[1] = m THEN 0 ELSE misses[m]]
    /\ market' = [m \in DOMAIN market |->
                    [market[m] EXCEPT !.closed = @ \/ m \in closing]]

\* A mutant of CountMisses: closes one miss too late.
CountMissesOffByOne(asked, absent) ==
    LET closing == {m \in absent : misses[m] >= CloseAfter} IN
    /\ misses' = [m \in Id |-> IF m \in absent \ closing THEN misses[m] + 1
                               ELSE IF \E a \in asked : a[1] = m THEN 0 ELSE misses[m]]
    /\ market' = [m \in DOMAIN market |->
                    [market[m] EXCEPT !.closed = @ \/ m \in closing,
                                      !.tracking = @ /\ m \notin closing]]

\* A mutant of CountMisses: a quoted token does not clear the counter.
CountMissesNotCleared(asked, absent) ==
    LET closing == {m \in absent : misses[m] + 1 >= CloseAfter} IN
    /\ misses' = [m \in Id |-> IF m \in absent \ closing THEN misses[m] + 1
                               ELSE IF m \in closing THEN 0 ELSE misses[m]]
    /\ market' = [m \in DOMAIN market |->
                    [market[m] EXCEPT !.closed = @ \/ m \in closing,
                                      !.tracking = @ /\ m \notin closing]]

\* Every market asked about either had a token quoted (its counter goes) or missed
\* once more; the CloseAfter-th miss in a row closes it.  Ids come from before the await.
CountMisses(asked, absent) ==
    LET closing == {m \in absent : misses[m] + 1 >= CloseAfter} IN
    /\ misses' = [m \in Id |-> IF m \in absent \ closing THEN misses[m] + 1
                               ELSE IF \E a \in asked : a[1] = m THEN 0 ELSE misses[m]]
    /\ market' = [m \in DOMAIN market |->
                    [market[m] EXCEPT !.closed = @ \/ m \in closing,
                                      !.tracking = @ /\ m \notin closing]]

\* Tokens the CLOB may quote in the answer: asked about, and their book still exists.
Quotable(i) == {t \in {a[2] : a \in polls[i]} \X Pos : t[1] \notin resolved}

\* The prices arrive; any quotable token may be missing from them.
PollAnswer(i, quoted) ==
    /\ polls[i] # {}
    /\ polls' = [polls EXCEPT ![i] = {}]
    /\ LET rows == LiveRows(polls[i], quoted) IN
       IF BreaksForeignKey(rows)
         THEN UNCHANGED <<db, misses>>  \* IntegrityError: nothing stored, no miss counted
         ELSE /\ InsertTicks(rows)
              /\ CountMisses(polls[i], Absent(polls[i], quoted))
    /\ UNCHANGED <<now, tasks, starting, resolved>>

-----------------------------------------------------------------------------
(* backfill.backfill_market *)

EndTask(s) == tasks' = [x \in DOMAIN tasks \ {s} |-> tasks[x]]

\* A mutant of BackfillBegin: the boundary is the moment the download starts.
BackfillBeginAtNow(s) ==
    /\ s \in DOMAIN tasks
    /\ ~ tasks[s].begun
    /\ LET m == tasks[s].mid IN
       IF m \notin DOMAIN market \/ (\E t \in ticks : t.mid = m)
         THEN EndTask(s)
         ELSE tasks' = [tasks EXCEPT ![s] = [mid |-> m, begun |-> TRUE, pos |-> 1,
                                             cond |-> market[m].cond,
                                             since |-> now]]
    /\ UNCHANGED <<now, db, misses, polls, starting, resolved>>

\* The task's first run: unknown market or any stored tick ends it, otherwise it
\* notes created_at and the outcomes and awaits the first outcome's history.
BackfillBegin(s) ==
    /\ s \in DOMAIN tasks
    /\ ~ tasks[s].begun
    /\ LET m == tasks[s].mid IN
       IF m \notin DOMAIN market \/ (\E t \in ticks : t.mid = m)
         THEN EndTask(s)
         ELSE tasks' = [tasks EXCEPT ![s] = [mid |-> m, begun |-> TRUE, pos |-> 1,
                                             cond |-> market[m].cond,
                                             since |-> market[m].since]]
    /\ UNCHANGED <<now, db, misses, polls, starting, resolved>>

NextOutcome(s) ==
    IF tasks[s].pos = NumPos THEN EndTask(s)
    ELSE tasks' = [tasks EXCEPT ![s].pos = @ + 1]

\* A mutant of HistoryRows: points up to and including created_at are kept.
HistoryRowsInclusive(task, times) ==
    {[mid |-> task.mid, pos |-> task.pos, ts |-> t, cond |-> task.cond, kind |-> "history"] :
        t \in {u \in times : u <= task.since}}

HistoryRows(task, times) ==
    {[mid |-> task.mid, pos |-> task.pos, ts |-> t, cond |-> task.cond, kind |-> "history"] :
        t \in {u \in times : u < task.since}}

\* One outcome's history arrives (any points up to now).  A foreign key failure is
\* caught with every other exception: that outcome is skipped.
BackfillOutcome(s) ==
    /\ s \in DOMAIN tasks
    /\ tasks[s].begun
    /\ \E times \in SUBSET (0..now) :
         LET rows == HistoryRows(tasks[s], times) IN
         IF BreaksForeignKey(rows) THEN UNCHANGED <<ticks, counts>> ELSE InsertTicks(rows)
    /\ NextOutcome(s)
    /\ UNCHANGED <<now, market, misses, polls, starting, resolved>>

\* The download of one outcome fails; the others still run.
BackfillFail(s) ==
    /\ s \in DOMAIN tasks
    /\ tasks[s].begun
    /\ NextOutcome(s)
    /\ UNCHANGED <<now, db, misses, polls, starting, resolved>>

-----------------------------------------------------------------------------
(* Environment *)

\* systemd restarts the process: the database survives, everything in memory is gone.
Restart ==
    /\ misses' = [m \in Id |-> 0]
    /\ polls' = [i \in Interval |-> {}]
    /\ tasks' = << >>
    /\ starting' = {}
    /\ UNCHANGED <<now, db, resolved>>

\* Polymarket resolves a market and removes its order book for good.
Resolve(c) ==
    /\ resolved' = resolved \cup {c}
    /\ UNCHANGED <<now, db, process>>

AdvanceTime ==
    /\ now < MaxTime
    /\ now' = now + 1
    /\ UNCHANGED <<db, process, resolved>>

-----------------------------------------------------------------------------
Request ==
    \/ \E c \in Cond, i \in Interval : TrackNew(c, i)
    \/ \E m \in Id : TrackKnown(m) \/ StartCheck(m) \/ StopMarket(m) \/ DeleteMarket(m)
    \/ \E m \in Id, i \in Interval : SetPollInterval(m, i)

PollAnswered(i) == \E quoted \in SUBSET Quotable(i) : PollAnswer(i, quoted)
Poll == \E i \in Interval : PollBegin(i) \/ PollSkip(i) \/ PollAnswered(i)

Backfill == \E s \in Slot : BackfillBegin(s) \/ BackfillOutcome(s) \/ BackfillFail(s)

Environment == Restart \/ AdvanceTime \/ \E c \in Cond : Resolve(c)

Next ==
    \/ Request
    \/ \E m \in Id : StartCommit(m)
    \/ Poll
    \/ Backfill
    \/ Environment

Spec == Init /\ [][Next]_vars

\* Polls keep firing and, the CLOB not being down for ever, keep being answered; a
\* request thread that has passed its check finishes.
Fairness ==
    /\ \A i \in Interval : WF_vars(PollBegin(i)) /\ SF_vars(PollAnswered(i))
    /\ \A m \in Id : WF_vars(StartCommit(m))

-----------------------------------------------------------------------------
(* Properties *)

TypeOK ==
    /\ now \in Time
    /\ DOMAIN market \subseteq Id
    /\ market \in [DOMAIN market -> MarketRow]
    /\ ticks \subseteq Tick
    /\ counts \in [Id \X Pos -> Nat]
    /\ misses \in [Id -> 0..(CloseAfter - 1)]
    /\ polls \in [Interval -> SUBSET (Id \X Cond)]
    /\ DOMAIN tasks \subseteq Slot
    /\ tasks \in [DOMAIN tasks -> Task]
    /\ starting \subseteq Id
    /\ resolved \subseteq Cond

\* The running totals shown as "records" always equal the number of stored ticks, through
\* ignored duplicates, rolled back batches, deletions and reused ids (db.insert_ticks:
\* "keep the per-outcome running totals in step").
CountsMatchTicks ==
    \A o \in Id \X Pos : counts[o] = Cardinality(Of(ticks, o))

\* A poll or a backfill that outlives its market never leaves ticks without one
\* (db.delete_market: "Permanently remove a market with all its outcomes and ticks").
TicksHaveMarket == \A t \in ticks : t.mid \in DOMAIN market

\* A row's created_at, and the boundary a backfill task carries, never lie ahead: a task
\* that outlives its market still stops short of the row that took over its id.
BoundariesOrdered ==
    /\ \A m \in DOMAIN market : market[m].since <= now
    /\ \A s \in DOMAIN tasks :
          /\ tasks[s].since <= now
          /\ tasks[s].mid \in DOMAIN market => tasks[s].since <= market[tasks[s].mid].since

\* "Live collection and backfill can never overlap": every history point is older than the
\* row that holds it and every live point is not, even when the backfill began for an
\* earlier market with the same id (backfill.py module docstring).
HistoryBeforeLive ==
    \A t \in ticks : t.mid \in DOMAIN market =>
        IF t.kind = "history" THEN t.ts < market[t.mid].since
                              ELSE t.ts >= market[t.mid].since

\* No outcome holds two prices for one timestamp (idx_ticks_outcome_ts).
OnePricePerTime ==
    \A t, u \in ticks : t.mid = u.mid /\ t.pos = u.pos /\ t.ts = u.ts => t = u

\* The database as its readers see it implements TickLog.
Log == INSTANCE TickLog WITH
    log <- [m \in DOMAIN market |->
              [since |-> market[m].since,
               points |-> {[pos |-> t.pos, ts |-> t.ts, kind |-> t.kind] :
                             t \in {u \in ticks : u.mid = m}}]]
LogSpec == Log!Spec

\* A market whose book is gone for good does not stay tracked: three misses close it, or
\* somebody stops or deletes it first (README.md "Closed market detection").
ResolvedStopsBeingPolled ==
    \A c \in Cond :
        (c \in resolved /\ \E m \in Tracked : market[m].cond = c)
            ~> ~ \E m \in Tracked : market[m].cond = c

\* A closed market is not polled any more (db.set_closed: "Mark a market as resolved on
\* Polymarket and stop its polling").  A start request that checked `closed` before the
\* closing poll commits after it.
ClosedNotTracked == \A m \in Tracked : ~ market[m].closed

\* Every price a market holds is a price of that market's own tokens (db.delete_market:
\* deletion is permanent, so nothing of a deleted market comes back in its successor).
PricesAreOwn ==
    \A t \in ticks : t.mid \in DOMAIN market => t.cond = market[t.mid].cond

\* "One bad market ... can never stall collection for everything else" (README.md): a
\* price that arrived for a market that still exists is stored.
OthersAreStored ==
    [][\A i \in Interval : \A quoted \in SUBSET Quotable(i) :
          PollAnswer(i, quoted) =>
              \A r \in LiveRows(polls[i], quoted) :
                  r.mid \in DOMAIN market =>
                      \E t \in ticks' : t.mid = r.mid /\ t.pos = r.pos /\ t.ts = now]_vars
=============================================================================
