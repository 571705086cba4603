-------------------------- MODULE GameBackfill --------------------------
(***************************************************************************)
(* backtest/backfill.py with the tables of backtest/store.py: every tracked*)
(* baseball market is turned into rows of backtest_spots, once.  A game    *)
(* that fails keeps its reason in backtest_games and is left alone, except *)
(* after a network error, and except that "no play-by-play" is asked a     *)
(* second time when the date in the slug is more than a day past.          *)
(*                                                                         *)
(* A batch reads what is pending, with the status each game had, and works *)
(* through it two games at a time, awaiting MLB between the steps.  The    *)
(* spots and the status are separate transactions.  Play-by-play grows     *)
(* while a game is on: too short to use, then part of the game, then all.  *)
(* Names, tick scans and the factors of a spot are not modelled: whether   *)
(* they let a game through is a choice.                                    *)
(***************************************************************************)
EXTENDS Integers, FiniteSets, Sequences

CONSTANTS Market,         \* tracked markets, one game each, with enough ticks
          SlugDay,        \* the date in the slug of each
          LastDate,       \* bound: the clock stops here
          BatchSize,      \* BATCH
          BatchWidth      \* CONCURRENCY

ASSUME SlugAssumption == LastDate \in Nat /\ SlugDay \in [Market -> Nat]
ASSUME BatchAssumption == BatchSize \in Nat /\ BatchWidth \in Nat

VARIABLES date,     \* the UTC date
          plays,    \* what MLB's play-by-play of the game holds
          row,      \* status in backtest_games
          spots,    \* what each insert_spots of the market holds
          waiting,    \* games of the running batch that wait for the semaphore
          task      \* step of each game of the running batch

fillVars == <<date, plays, row, spots, waiting, task>>

Plays == {"short", "part", "all", "never"}
Status == {"absent", "done", "retry", "confirmed", "transient", "error"}
Steps == {"idle", "match", "build"}

FillInit ==
    /\ date = 1
    /\ plays = [m \in Market |-> "short"]
    /\ row = [m \in Market |-> "absent"]
    /\ spots = [m \in Market |-> <<>>]
    /\ waiting = {}
    /\ task = [m \in Market |-> "idle"]

Busy == {m \in Market : task[m] # "idle"}
Running == waiting # {} \/ Busy # {}

\* Mutant of DayIsOver.
DayIsOverAtMidnight(m) == SlugDay[m] < date

\* The slug carries the game date: "that day is over" is the test.
DayIsOver(m) == SlugDay[m] < date - 1

\* games_pending
Pending == {m \in Market : \/ row[m] \in {"absent", "transient"}
                           \/ row[m] = "retry" /\ DayIsOver(m)}

FillBegin ==
    /\ ~Running
    /\ \E batch \in SUBSET Pending :
          /\ Cardinality(batch) <= BatchSize
          /\ batch = Pending \/ Cardinality(batch) = BatchSize
          /\ waiting' = batch
    /\ UNCHANGED <<date, plays, row, spots, task>>

\* Mutant of ClearSpots.
ClearSpotsNot(m) == UNCHANGED spots

\* An earlier attempt may have left spots without a row.
ClearSpots(m) == spots' = [spots EXCEPT ![m] = <<>>]

StartGame(m) ==
    /\ m \in waiting
    /\ Cardinality(Busy) < BatchWidth
    /\ waiting' = waiting \ {m}
    /\ task' = [task EXCEPT ![m] = "match"]
    /\ ClearSpots(m)
    /\ UNCHANGED <<date, plays, row>>

SaveGame(m, status) ==
    /\ row' = [row EXCEPT ![m] = status]
    /\ task' = [task EXCEPT ![m] = "idle"]

\* No gamePk, not on the schedule, labels that match no team, plays outside the
\* tick span: the reason is stored and waits for a human.
GiveUp(m) ==
    /\ task[m] = "match"
    /\ SaveGame(m, "error")
    /\ UNCHANGED <<date, plays, spots, waiting>>

\* Fewer than four half-innings: asked again once.
NoPlays(m) ==
    /\ task[m] = "match"
    /\ plays[m] \in {"short", "never"}
    /\ SaveGame(m, IF row[m] = "retry" THEN "confirmed" ELSE "retry")
    /\ UNCHANGED <<date, plays, spots, waiting>>

Guarded(m) ==
    /\ task[m] = "match"
    /\ plays[m] \in {"part", "all"}
    /\ task' = [task EXCEPT ![m] = "build"]
    /\ UNCHANGED <<date, plays, row, spots, waiting>>

\* build_spots reads the plays again, then two transactions without an await.
InsertSpots(m) == spots' = [spots EXCEPT ![m] = Append(@, plays[m])]

Build(m) ==
    /\ task[m] = "build"
    /\ InsertSpots(m)
    /\ SaveGame(m, "done")
    /\ UNCHANGED <<date, plays, waiting>>

\* A request that fails is retried by a later batch, anything else is not.
Raise(m) ==
    /\ task[m] # "idle"
    /\ \E status \in {"transient", "error"} : SaveGame(m, status)
    /\ UNCHANGED <<date, plays, spots, waiting>>

\* The process dies: nothing is left of the batch, but one game may have stored
\* its spots without its status.
FillCrash ==
    /\ waiting' = {}
    /\ task' = [m \in Market |-> "idle"]
    /\ \/ UNCHANGED spots
       \/ \E m \in Market : task[m] = "build" /\ InsertSpots(m)
    /\ UNCHANGED <<date, plays, row>>

-----------------------------------------------------------------------------
\* A night game is played on its date or, in UTC, early on the day after; a
\* postponed one is never played under this slug.
PlayOn(m) ==
    /\ date \in {SlugDay[m], SlugDay[m] + 1}
    /\ \/ plays[m] = "short" /\ plays' = [plays EXCEPT ![m] = "part"]
       \/ plays[m] = "short" /\ plays' = [plays EXCEPT ![m] = "never"]
       \/ plays[m] = "part" /\ plays' = [plays EXCEPT ![m] = "all"]
    /\ UNCHANGED <<date, row, spots, waiting, task>>

NextDate ==
    /\ date < LastDate
    /\ \A m \in Market : SlugDay[m] < date => plays[m] \in {"all", "never"}
    /\ date' = date + 1
    /\ UNCHANGED <<plays, row, spots, waiting, task>>

FillStep ==
    \/ FillBegin
    \/ \E m \in Market :
          StartGame(m) \/ GiveUp(m) \/ NoPlays(m) \/ Guarded(m) \/ Build(m) \/ Raise(m)
    \/ FillCrash

FillNext == FillStep \/ NextDate \/ \E m \in Market : PlayOn(m)

FillSpec == FillInit /\ [][FillNext]_fillVars

-----------------------------------------------------------------------------
FillTypeOK ==
    /\ date \in Nat
    /\ plays \in [Market -> Plays]
    /\ row \in [Market -> Status]
    /\ spots \in [Market -> Seq({"part", "all"})]
    /\ waiting \subseteq Market
    /\ task \in [Market -> Steps]

\* backfill._one_game: "without this a retry double-counts them".  Whatever
\* crashes and retries happen, the spots of a game are stored at most once, and
\* exactly once when its row says done.
SpotsOnce == \A m \in Market :
    /\ Len(spots[m]) <= 1
    /\ row[m] = "done" => Len(spots[m]) = 1

\* store.games_pending: a game that was played is never written off for having
\* no play-by-play, however early it was first tried and wherever its night ends
\* in UTC.
PlayedGamesAreNotWrittenOff == \A m \in Market :
    row[m] = "confirmed" => plays[m] = "never"
=============================================================================
