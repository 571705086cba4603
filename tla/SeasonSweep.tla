--------------------------- MODULE SeasonSweep ---------------------------
(***************************************************************************)
(* backtest/wehistory.py and backtest/bottom8history.py: two copies of one *)
(* sweep.  A day of the season is fetched with one request; the finished   *)
(* games it lists are stored and the day may be marked done, after which   *)
(* it is never asked for again.                                            *)
(*                                                                         *)
(* The job and the API share run_batch, which `running' keeps alone; every *)
(* click on Run starts a catch_up of its own, which looks at no such flag. *)
(* The answer is a picture of the games at the moment the server made it;  *)
(* it is stored after further awaits (JSON off the loop, team names).      *)
(* A game whose line score is unusable is never stored; the model has none.*)
(***************************************************************************)
EXTENDS Integers, FiniteSets

CONSTANTS Game,        \* games of the schedule
          DayOf,       \* the day of each game
          LastDay,     \* bound: the clock stops here
          Click,       \* requests that run catch_up
          BatchDays,   \* max_days of run_batch
          ClickDays,   \* max_days of catch_up
          Concurrency  \* CONCURRENCY of run_batch

ASSUME ScheduleAssumption == LastDay \in Nat \ {0} /\ DayOf \in [Game -> 1..LastDay]
ASSUME SweepSizeAssumption == BatchDays \in Nat /\ ClickDays \in Nat /\ Concurrency \in Nat

VARIABLES today,    \* the UTC date
          game,     \* abstractGameState of every game
          daysDone, \* rows of the days table with done=1
          stored,   \* games that have a row
          sweeps,   \* what each run_batch or catch_up still has to do
          early     \* history: days answered for while a game was in Preview

sweepVars == <<today, game, daysDone, stored, sweeps, early>>

Day == 1..LastDay
Sweeper == Click \cup {"batch"}
Answer == [day : Day, rows : SUBSET Game, final : BOOLEAN]
Idle == [todo |-> {}, answers |-> {}]
On(d) == {g \in Game : DayOf[g] = d}

SweepInit ==
    /\ today = 1
    /\ game = [g \in Game |-> "Preview"]
    /\ daysDone = {} /\ stored = {} /\ early = {}
    /\ sweeps = [s \in Sweeper |-> Idle]

-----------------------------------------------------------------------------
Days == 1..today
Undone == Days \ daysDone
Earliest(n, S) == {d \in S : Cardinality({e \in S : e < d}) < n}
Latest(n, S) == {d \in S : Cardinality({e \in S : e > d}) < n}

\* run_batch takes the oldest days that are not done, unless one is running.
BatchBegin ==
    /\ sweeps["batch"] = Idle
    /\ sweeps' = [sweeps EXCEPT !["batch"].todo = Earliest(BatchDays, Undone)]
    /\ UNCHANGED <<today, game, daysDone, stored, early>>

\* catch_up takes the most recent ones.
CatchUpBegin(c) ==
    /\ sweeps[c] = Idle
    /\ sweeps' = [sweeps EXCEPT ![c].todo = Latest(ClickDays, Undone)]
    /\ UNCHANGED <<today, game, daysDone, stored, early>>

\* What the server lists for a day: only a game in progress keeps it open.
SweepDay(d) == [day |-> d,
                rows |-> {g \in On(d) : game[g] = "Final"},
                final |-> \A g \in On(d) : game[g] # "Live"]

Width(s) == IF s = "batch" THEN Concurrency ELSE 1

Ask(s) ==
    /\ Cardinality(sweeps[s].answers) < Width(s)
    /\ \E d \in sweeps[s].todo :
          /\ \A e \in sweeps[s].todo : d <= e
          /\ sweeps' = [sweeps EXCEPT ![s].todo = @ \ {d}, ![s].answers = @ \cup {SweepDay(d)}]
          /\ early' = IF \E g \in On(d) : game[g] = "Preview" THEN early \cup {d} ELSE early
    /\ UNCHANGED <<today, game, daysDone, stored>>

\* The rows are one transaction, the mark is another; nothing awaits between.
SaveRows(a) == stored' = stored \cup a.rows

\* Mutant of MarkDay.
MarkDayRegardless(a) == daysDone' = daysDone \cup {a.day}

MarkDay(a) == daysDone' = IF a.final THEN daysDone \cup {a.day} ELSE daysDone \ {a.day}

StoreDay(s, a) ==
    /\ SaveRows(a)
    /\ MarkDay(a)
    /\ sweeps' = [sweeps EXCEPT ![s].answers = @ \ {a}]
    /\ UNCHANGED <<today, game, early>>

\* A request that fails is logged and its day left for the next sweep.
DayFails(s, a) ==
    /\ sweeps' = [sweeps EXCEPT ![s].answers = @ \ {a}]
    /\ UNCHANGED <<today, game, daysDone, stored, early>>

\* The process dies, possibly between the two transactions of one day.
SweepCrash ==
    /\ \/ UNCHANGED stored
       \/ \E s \in Sweeper : \E a \in sweeps[s].answers : SaveRows(a)
    /\ sweeps' = [s \in Sweeper |-> Idle]
    /\ UNCHANGED <<today, game, daysDone, early>>

-----------------------------------------------------------------------------
\* A game starts on its day or in the night after it, and is over before the
\* second night.
Play(g) ==
    /\ today >= DayOf[g]
    /\ \/ game[g] = "Preview" /\ game' = [game EXCEPT ![g] = "Live"]
       \/ game[g] = "Live" /\ game' = [game EXCEPT ![g] = "Final"]
    /\ UNCHANGED <<today, daysDone, stored, sweeps, early>>

NextDay ==
    /\ today < LastDay
    /\ \A g \in Game : DayOf[g] < today => game[g] = "Final"
    /\ today' = today + 1
    /\ UNCHANGED <<game, daysDone, stored, sweeps, early>>

SweepStep ==
    \/ BatchBegin
    \/ \E c \in Click : CatchUpBegin(c)
    \/ \E s \in Sweeper : Ask(s)
    \/ \E s \in Sweeper : \E a \in sweeps[s].answers : StoreDay(s, a) \/ DayFails(s, a)
    \/ SweepCrash

SweepNext == SweepStep \/ NextDay \/ \E g \in Game : Play(g)

SweepSpec == SweepInit /\ [][SweepNext]_sweepVars

-----------------------------------------------------------------------------
SweepTypeOK ==
    /\ today \in Day
    /\ game \in [Game -> {"Preview", "Live", "Final"}]
    /\ daysDone \subseteq Day /\ early \subseteq Day /\ stored \subseteq Game
    /\ sweeps \in [Sweeper -> [todo : SUBSET Day, answers : SUBSET Answer]]

\* A day that is marked done, and was never asked for while one of its games had
\* still to start, holds every one of its games: no crash between the two
\* transactions, failed request or late answer of another sweep leaves a hole
\* that nobody will fill (wehistory.run_batch, catch_up).
QuietDaysAreRecorded == \A d \in daysDone \ early : On(d) \subseteq stored

\* bottom8history.py: "Days are marked done only when every game on them is
\* final".  A day that is swept before its games start is marked done as well.
DoneMeansRecorded == \A d \in daysDone : On(d) \subseteq stored
=============================================================================
