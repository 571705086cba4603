--------------------------- MODULE BacktestProofs ---------------------------
(***************************************************************************)
(* Proofs about what the backend keeps: SeasonSweep and GameBackfill for   *)
(* any schedule and season and any number of sweepers and markets, and     *)
(* GameSpots and BacktestRun for any runs, prices, settings and verdicts;  *)
(* then about the records of MCRecords, in which these parts stand beside  *)
(* those of PeopleProofs.                                                  *)
(***************************************************************************)
EXTENDS MCRecords, PeopleProofs, FiniteSetTheorems, WellFoundedInduction, TLAPS

-----------------------------------------------------------------------------
(***************************************************************************)
(* SeasonSweep.  An answer remembers what its day held when the server made*)
(* it: if no game of the day was in progress and none had still to start,  *)
(* all of them were final and are among its rows.                          *)
(***************************************************************************)
AnswersAreWhole == \A s \in Sweeper : \A a \in sweeps[s].answers :
    a.final /\ a.day \notin early => On(a.day) \subseteq a.rows

SweepInv == SweepTypeOK /\ AnswersAreWhole /\ QuietDaysAreRecorded

\* The types of the sweep, for any schedule.
LEMMA SweepTypes == SweepTypeOK /\ [SweepNext]_sweepVars => SweepTypeOK'
<1> SUFFICES ASSUME SweepTypeOK, [SweepNext]_sweepVars PROVE SweepTypeOK'
  OBVIOUS
<1> USE ScheduleAssumption DEF SweepTypeOK, Sweeper, Idle, Day
<1>1. ASSUME BatchBegin PROVE SweepTypeOK'
  <2>1. Earliest(BatchDays, Undone) \subseteq Day
    BY DEF Earliest, Undone, Days
  <2> QED
    BY <1>1, <2>1 DEF BatchBegin
<1>2. ASSUME NEW c \in Click, CatchUpBegin(c) PROVE SweepTypeOK'
  <2>1. Latest(ClickDays, Undone) \subseteq Day
    BY DEF Latest, Undone, Days
  <2> QED
    BY <1>2, <2>1 DEF CatchUpBegin
<1>3. ASSUME NEW s \in Sweeper, Ask(s) PROVE SweepTypeOK'
  <2>1. PICK d \in sweeps[s].todo :
          /\ sweeps' = [sweeps EXCEPT ![s].todo = @ \ {d}, ![s].answers = @ \cup {SweepDay(d)}]
          /\ early' = IF \E g \in On(d) : game[g] = "Preview" THEN early \cup {d} ELSE early
    BY <1>3 DEF Ask
  <2>2. d \in Day /\ SweepDay(d) \in Answer
    BY DEF SweepDay, Answer, On
  <2> QED
    BY <1>3, <2>1, <2>2 DEF Ask
<1>4. ASSUME NEW s \in Sweeper, NEW a \in sweeps[s].answers, StoreDay(s, a) PROVE SweepTypeOK'
  BY <1>4 DEF StoreDay, SaveRows, MarkDay, Answer
<1>5. ASSUME NEW s \in Sweeper, NEW a \in sweeps[s].answers, DayFails(s, a) PROVE SweepTypeOK'
  BY <1>5 DEF DayFails
<1>6. ASSUME SweepCrash PROVE SweepTypeOK'
  <2>1. stored' \subseteq Game
    BY <1>6 DEF SweepCrash, SaveRows, Answer
  <2> QED
    BY <1>6, <2>1 DEF SweepCrash
<1>7. ASSUME NextDay PROVE SweepTypeOK'
  BY <1>7 DEF NextDay
<1>8. ASSUME NEW g \in Game, Play(g) PROVE SweepTypeOK'
  BY <1>8 DEF Play
<1>9. CASE UNCHANGED sweepVars
  BY <1>9 DEF sweepVars
<1> QED
  BY <1>1, <1>2, <1>3, <1>4, <1>5, <1>6, <1>7, <1>8, <1>9 DEF SweepNext, SweepStep

LEMMA SweepInvInductive == SweepInv /\ [SweepNext]_sweepVars => SweepInv'
<1> SUFFICES ASSUME SweepInv, [SweepNext]_sweepVars PROVE SweepInv'
  OBVIOUS
<1> USE DEF SweepInv, AnswersAreWhole, QuietDaysAreRecorded
<1>1. SweepTypeOK'
  BY SweepTypes
<1>2. ASSUME NEW c \in Sweeper, UNCHANGED <<game, daysDone, stored, early>>,
             \A s \in Sweeper : sweeps'[s].answers \subseteq sweeps[s].answers
      PROVE  AnswersAreWhole' /\ QuietDaysAreRecorded'
  BY <1>2 DEF On
<1>3. ASSUME NEW c \in Sweeper, NEW days, sweeps' = [sweeps EXCEPT ![c].todo = days]
      PROVE  \A s \in Sweeper : sweeps'[s].answers \subseteq sweeps[s].answers
  BY <1>3 DEF SweepTypeOK
<1>4. ASSUME BatchBegin PROVE SweepInv'
  BY <1>1, <1>2, <1>3, <1>4 DEF BatchBegin, Sweeper
<1>5. ASSUME NEW c \in Click, CatchUpBegin(c) PROVE SweepInv'
  BY <1>1, <1>2, <1>3, <1>5 DEF CatchUpBegin, Sweeper
<1>6. ASSUME NEW s \in Sweeper, Ask(s) PROVE SweepInv'
  <2>1. PICK d \in sweeps[s].todo :
          /\ sweeps' = [sweeps EXCEPT ![s].todo = @ \ {d}, ![s].answers = @ \cup {SweepDay(d)}]
          /\ early' = IF \E g \in On(d) : game[g] = "Preview" THEN early \cup {d} ELSE early
    BY <1>6 DEF Ask
  <2>2. UNCHANGED <<game, daysDone, stored>> /\ early \subseteq early'
    BY <1>6, <2>1 DEF Ask
  <2>3. \A t \in Sweeper : \A a \in sweeps'[t].answers :
           a \in sweeps[t].answers \/ a = SweepDay(d)
    BY <2>1 DEF SweepTypeOK
  <2>4. ASSUME SweepDay(d).final, SweepDay(d).day \notin early'
        PROVE  On(SweepDay(d).day) \subseteq SweepDay(d).rows
    BY <2>1, <2>4 DEF SweepDay, SweepTypeOK, On
  <2>5. AnswersAreWhole'
    BY <2>2, <2>3, <2>4 DEF On
  <2>6. QuietDaysAreRecorded'
    BY <2>2 DEF On
  <2> QED
    BY <1>1, <2>5, <2>6
<1>7. ASSUME NEW s \in Sweeper, NEW a \in sweeps[s].answers, StoreDay(s, a) PROVE SweepInv'
  <2>1. \A t \in Sweeper : sweeps'[t].answers \subseteq sweeps[t].answers
    BY <1>7 DEF StoreDay, SweepTypeOK
  <2>2. AnswersAreWhole'
    BY <1>7, <2>1 DEF StoreDay, On
  <2>3. a.final /\ a.day \notin early => On(a.day) \subseteq stored'
    BY <1>7 DEF StoreDay, SaveRows
  <2>4. QuietDaysAreRecorded'
    BY <1>7, <2>3 DEF StoreDay, SaveRows, MarkDay, On
  <2> QED
    BY <1>1, <2>2, <2>4
<1>8. ASSUME NEW s \in Sweeper, NEW a \in sweeps[s].answers, DayFails(s, a) PROVE SweepInv'
  <2>1. \A t \in Sweeper : sweeps'[t].answers \subseteq sweeps[t].answers
    BY <1>8 DEF DayFails, SweepTypeOK
  <2> QED
    BY <1>1, <1>2, <1>8, <2>1 DEF DayFails
<1>9. ASSUME SweepCrash PROVE SweepInv'
  <2>1. \A t \in Sweeper : sweeps'[t].answers = {}
    BY <1>9 DEF SweepCrash, Idle
  <2>2. stored \subseteq stored'
    BY <1>9 DEF SweepCrash, SaveRows
  <2> QED
    BY <1>1, <1>9, <2>1, <2>2 DEF SweepCrash, On
<1>10. ASSUME NextDay PROVE SweepInv'
  BY <1>1, <1>10 DEF NextDay, On
<1>11. ASSUME NEW g \in Game, Play(g) PROVE SweepInv'
  BY <1>1, <1>11 DEF Play, On
<1>12. CASE UNCHANGED sweepVars
  BY <1>1, <1>12 DEF sweepVars, On
<1> QED
  BY <1>4, <1>5, <1>6, <1>7, <1>8, <1>9, <1>10, <1>11, <1>12 DEF SweepNext, SweepStep

LEMMA SweepInitInv == SweepInit => SweepInv
  BY ScheduleAssumption
     DEF SweepInit, SweepInv, SweepTypeOK, AnswersAreWhole, QuietDaysAreRecorded, Day, Idle

\* Whatever crashes, fails or overlaps, a day that is done and was never asked for
\* before its games had started holds all of them.
THEOREM QuietDaysAreRecordedCorrect == SweepSpec => []QuietDaysAreRecorded
<1>1. SweepInv => QuietDaysAreRecorded
  BY DEF SweepInv
<1> QED
  BY <1>1, SweepInitInv, SweepInvInductive, PTL DEF SweepSpec

-----------------------------------------------------------------------------
(***************************************************************************)
(* GameBackfill.  Three facts carry the invariants: a game the batch still *)
(* has in hand is not done, and once it is started its old spots are gone; *)
(* a game that is tried a second time is at least two dates old; and by    *)
(* then its play-by-play has all there will ever be.                       *)
(***************************************************************************)
InHandIsOpen == \A m \in Market :
    /\ task[m] # "idle" => spots[m] = <<>> /\ m \notin waiting /\ row[m] # "done"
    /\ m \in waiting => row[m] # "done"

RetriesAreLate == \A m \in Market :
    (m \in waiting \/ task[m] # "idle") /\ row[m] = "retry" => SlugDay[m] < date - 1

OldGamesAreOver == \A m \in Market :
    SlugDay[m] < date - 1 => plays[m] \in {"all", "never"}

BuildsHavePlays == \A m \in Market : task[m] = "build" => plays[m] \in {"part", "all"}

FillInv ==
    FillTypeOK /\ InHandIsOpen /\ RetriesAreLate /\ OldGamesAreOver /\ BuildsHavePlays
      /\ SpotsOnce /\ PlayedGamesAreNotWrittenOff

LEMMA EmptyHasNoLength == Len(<<>>) = 0
  OBVIOUS

LEMMA OneInserted ==
  ASSUME NEW x \in {"part", "all"}
  PROVE  Append(<<>>, x) \in Seq({"part", "all"}) /\ Len(Append(<<>>, x)) = 1
  OBVIOUS

LEMMA OneIsLeqOne == \A k : k = 1 => k <= 1
  OBVIOUS

LEMMA EmptySpots == <<>> \in Seq({"part", "all"})
  OBVIOUS

\* A step of one game that leaves the clock and the plays alone, takes the game out
\* of the batch and stores a status for it.
LEMMA SaveGameKeeps ==
  ASSUME FillInv, NEW m \in Market, NEW status \in Status, SaveGame(m, status),
         task[m] # "idle", UNCHANGED <<date, plays, spots, waiting>>,
         status # "done", status = "confirmed" => plays[m] = "never"
  PROVE  FillInv'
<1> USE DEF FillInv, SaveGame
<1>1. FillTypeOK'
  BY DEF FillTypeOK, Steps
<1>2. \A n \in Market : row'[n] = IF n = m THEN status ELSE row[n]
  BY DEF FillTypeOK
<1>3. \A n \in Market : task'[n] = IF n = m THEN "idle" ELSE task[n]
  BY DEF FillTypeOK
<1>4. m \notin waiting
  BY DEF InHandIsOpen
<1>5. InHandIsOpen'
  BY <1>2, <1>3, <1>4 DEF InHandIsOpen
<1>6. RetriesAreLate'
  BY <1>2, <1>3, <1>4 DEF RetriesAreLate
<1>7. OldGamesAreOver' /\ BuildsHavePlays'
  BY <1>3 DEF OldGamesAreOver, BuildsHavePlays
<1>8. SpotsOnce'
  BY <1>2 DEF SpotsOnce
<1>9. PlayedGamesAreNotWrittenOff'
  BY <1>2 DEF PlayedGamesAreNotWrittenOff
<1> QED
  BY <1>1, <1>5, <1>6, <1>7, <1>8, <1>9

LEMMA FillInvInductive == FillInv /\ [FillNext]_fillVars => FillInv'
<1> SUFFICES ASSUME FillInv, [FillNext]_fillVars PROVE FillInv'
  OBVIOUS
<1> USE SlugAssumption DEF FillInv
<1>1. ASSUME FillBegin PROVE FillInv'
  <2>1. /\ waiting' \subseteq Pending /\ UNCHANGED <<date, plays, row, spots, task>>
        /\ \A m \in Market : task[m] = "idle"
    BY <1>1 DEF FillBegin, Running, Busy
  <2>2. FillTypeOK' /\ OldGamesAreOver' /\ BuildsHavePlays' /\ SpotsOnce' /\ PlayedGamesAreNotWrittenOff'
    BY <2>1 DEF FillTypeOK, OldGamesAreOver, BuildsHavePlays, SpotsOnce,
                PlayedGamesAreNotWrittenOff, Pending
  <2>3. InHandIsOpen' /\ RetriesAreLate'
    BY <2>1 DEF InHandIsOpen, RetriesAreLate, Pending, DayIsOver
  <2> QED
    BY <2>2, <2>3
<1>2. ASSUME NEW m \in Market, StartGame(m) PROVE FillInv'
  <2>1. /\ m \in waiting /\ waiting' = waiting \ {m} /\ UNCHANGED <<date, plays, row>>
        /\ \A n \in Market : task'[n] = IF n = m THEN "match" ELSE task[n]
        /\ \A n \in Market : spots'[n] = IF n = m THEN <<>> ELSE spots[n]
    BY <1>2 DEF StartGame, ClearSpots, FillTypeOK
  <2>2. row[m] # "done"
    BY <2>1 DEF InHandIsOpen
  <2>3. FillTypeOK'
    BY <1>2, EmptySpots DEF StartGame, ClearSpots, FillTypeOK, Steps
  <2>4. InHandIsOpen'
    BY <2>1, <2>2 DEF InHandIsOpen
  <2>5. RetriesAreLate' /\ OldGamesAreOver' /\ BuildsHavePlays' /\ PlayedGamesAreNotWrittenOff'
    BY <2>1 DEF RetriesAreLate, OldGamesAreOver, BuildsHavePlays, PlayedGamesAreNotWrittenOff
  <2>6. SpotsOnce'
    BY <2>1, <2>2, EmptyHasNoLength DEF SpotsOnce
  <2> QED
    BY <2>3, <2>4, <2>5, <2>6
<1>3. ASSUME NEW m \in Market, GiveUp(m) PROVE FillInv'
  BY <1>3, SaveGameKeeps DEF GiveUp, Status
<1>4. ASSUME NEW m \in Market, NoPlays(m) PROVE FillInv'
  <2>1. CASE row[m] = "retry"
    <3>1. plays[m] = "never"
      BY <1>4, <2>1 DEF NoPlays, RetriesAreLate, OldGamesAreOver
    <3> QED
      BY <1>4, <2>1, <3>1, SaveGameKeeps DEF NoPlays, Status
  <2>2. CASE row[m] # "retry"
    BY <1>4, <2>2, SaveGameKeeps DEF NoPlays, Status
  <2> QED
    BY <2>1, <2>2
<1>5. ASSUME NEW m \in Market, Guarded(m) PROVE FillInv'
  <2>1. /\ task[m] = "match" /\ UNCHANGED <<date, plays, row, spots, waiting>>
        /\ \A n \in Market : task'[n] = IF n = m THEN "build" ELSE task[n]
    BY <1>5 DEF Guarded, FillTypeOK
  <2>2. FillTypeOK'
    BY <1>5 DEF Guarded, FillTypeOK, Steps
  <2>3. InHandIsOpen' /\ RetriesAreLate'
    BY <2>1 DEF InHandIsOpen, RetriesAreLate
  <2>4. OldGamesAreOver' /\ SpotsOnce' /\ PlayedGamesAreNotWrittenOff'
    BY <2>1 DEF OldGamesAreOver, SpotsOnce, PlayedGamesAreNotWrittenOff
  <2>5. BuildsHavePlays'
    BY <1>5, <2>1 DEF Guarded, BuildsHavePlays
  <2> QED
    BY <2>2, <2>3, <2>4, <2>5
<1>6. ASSUME NEW m \in Market, Build(m) PROVE FillInv'
  <2>1. /\ task[m] = "build" /\ UNCHANGED <<date, plays, waiting>>
        /\ spots[m] = <<>> /\ m \notin waiting
        /\ \A n \in Market : task'[n] = IF n = m THEN "idle" ELSE task[n]
        /\ \A n \in Market : row'[n] = IF n = m THEN "done" ELSE row[n]
        /\ \A n \in Market : spots'[n] = IF n = m THEN Append(<<>>, plays[m]) ELSE spots[n]
    BY <1>6 DEF Build, InsertSpots, SaveGame, FillTypeOK, InHandIsOpen
  <2>2. plays[m] \in {"part", "all"}
    BY <2>1 DEF BuildsHavePlays
  <2>3. FillTypeOK'
    <3>1. spots' \in [Market -> Seq({"part", "all"})]
      BY <1>6, <2>1, <2>2, OneInserted DEF Build, InsertSpots, FillTypeOK
    <3> QED
      BY <1>6, <3>1 DEF Build, SaveGame, FillTypeOK, Steps, Status
  <2>4. SpotsOnce'
    <3>1. Len(spots'[m]) = 1
      <4>1. spots'[m] = Append(<<>>, plays[m])
        BY <2>1
      <4>2. Len(Append(<<>>, plays[m])) = 1
        BY <2>2, OneInserted
      <4> QED
        BY <4>1, <4>2
    <3>2. \A n \in Market \ {m} : row'[n] = row[n] /\ spots'[n] = spots[n]
      BY <2>1
    <3>3. row'[m] = "done"
      BY <2>1
    <3>4. Len(spots'[m]) <= 1
      BY <3>1, OneIsLeqOne
    <3>5. ASSUME NEW n \in Market \ {m}
          PROVE  Len(spots'[n]) <= 1 /\ (row'[n] = "done" => Len(spots'[n]) = 1)
      BY <3>2, <3>5 DEF SpotsOnce
    <3> QED
      BY <3>1, <3>4, <3>5 DEF SpotsOnce
  <2>5. InHandIsOpen' /\ RetriesAreLate' /\ BuildsHavePlays'
    BY <2>1 DEF InHandIsOpen, RetriesAreLate, BuildsHavePlays
  <2>6. OldGamesAreOver' /\ PlayedGamesAreNotWrittenOff'
    BY <2>1 DEF OldGamesAreOver, PlayedGamesAreNotWrittenOff
  <2> QED
    BY <2>3, <2>4, <2>5, <2>6
<1>7. ASSUME NEW m \in Market, Raise(m) PROVE FillInv'
  BY <1>7, SaveGameKeeps DEF Raise, Status
<1>8. ASSUME FillCrash PROVE FillInv'
  <2>1. /\ waiting' = {} /\ UNCHANGED <<date, plays, row>>
        /\ task' = [m \in Market |-> "idle"]
        /\ \A m \in Market : task'[m] = "idle"
    BY <1>8 DEF FillCrash
  <2>2. InHandIsOpen' /\ RetriesAreLate' /\ BuildsHavePlays'
    BY <2>1 DEF InHandIsOpen, RetriesAreLate, BuildsHavePlays
  <2>3. OldGamesAreOver' /\ PlayedGamesAreNotWrittenOff'
    BY <2>1 DEF OldGamesAreOver, PlayedGamesAreNotWrittenOff
  <2>4. CASE UNCHANGED spots
    BY <2>1, <2>2, <2>3, <2>4 DEF FillTypeOK, Steps, SpotsOnce
  <2>5. ASSUME NEW m \in Market, task[m] = "build", InsertSpots(m) PROVE FillInv'
    <3>1. /\ spots[m] = <<>> /\ row[m] # "done" /\ plays[m] \in {"part", "all"}
          /\ \A n \in Market : spots'[n] = IF n = m THEN Append(<<>>, plays[m]) ELSE spots[n]
      BY <2>5 DEF InsertSpots, FillTypeOK, InHandIsOpen, BuildsHavePlays
    <3>2. FillTypeOK'
      <4>1. spots' \in [Market -> Seq({"part", "all"})]
        BY <2>5, <3>1, OneInserted DEF InsertSpots, FillTypeOK
      <4> QED
        BY <2>1, <4>1 DEF FillTypeOK, Steps
    <3>3. SpotsOnce'
      <4>1. Len(spots'[m]) = 1
        <5>1. spots'[m] = Append(<<>>, plays[m])
          BY <3>1
        <5>2. Len(Append(<<>>, plays[m])) = 1
          BY <3>1, OneInserted
        <5> QED
          BY <5>1, <5>2
      <4>2. Len(spots'[m]) <= 1
        BY <4>1, OneIsLeqOne
      <4>3. \A n \in Market \ {m} : row'[n] = row[n] /\ spots'[n] = spots[n]
        BY <2>1, <3>1
      <4>4. ASSUME NEW n \in Market \ {m}
            PROVE  Len(spots'[n]) <= 1 /\ (row'[n] = "done" => Len(spots'[n]) = 1)
        BY <4>3, <4>4 DEF SpotsOnce
      <4> QED
        BY <4>1, <4>2, <4>4 DEF SpotsOnce
    <3> QED
      BY <2>2, <2>3, <3>2, <3>3
  <2> QED
    BY <1>8, <2>4, <2>5 DEF FillCrash
<1>9. ASSUME NextDate PROVE FillInv'
  <2>1. /\ date' = date + 1 /\ UNCHANGED <<plays, row, spots, waiting, task>>
        /\ \A m \in Market : SlugDay[m] < date => plays[m] \in {"all", "never"}
    BY <1>9 DEF NextDate
  <2>2. date \in Nat /\ \A m \in Market : SlugDay[m] \in Nat
    BY DEF FillTypeOK
  <2>3. RetriesAreLate' /\ OldGamesAreOver'
    BY <2>1, <2>2 DEF RetriesAreLate, OldGamesAreOver
  <2> QED
    BY <2>1, <2>2, <2>3 DEF FillTypeOK, InHandIsOpen, BuildsHavePlays, SpotsOnce,
                            PlayedGamesAreNotWrittenOff
<1>10. ASSUME NEW m \in Market, PlayOn(m) PROVE FillInv'
  <2>1. /\ date \in {SlugDay[m], SlugDay[m] + 1} /\ UNCHANGED <<date, row, spots, waiting, task>>
        /\ \A n \in Market \ {m} : plays'[n] = plays[n]
        /\ plays[m] \in {"short", "part"} /\ plays' \in [Market -> Plays]
        /\ plays[m] = "part" => plays'[m] = "all"
    BY <1>10 DEF PlayOn, FillTypeOK, Plays
  <2>2. date \in Nat /\ \A n \in Market : SlugDay[n] \in Nat
    BY DEF FillTypeOK
  <2>3. OldGamesAreOver'
    BY <2>1, <2>2 DEF OldGamesAreOver
  <2>4. BuildsHavePlays' /\ PlayedGamesAreNotWrittenOff'
    BY <2>1 DEF BuildsHavePlays, PlayedGamesAreNotWrittenOff
  <2> QED
    BY <2>1, <2>3, <2>4 DEF FillTypeOK, InHandIsOpen, RetriesAreLate, SpotsOnce
<1>11. CASE UNCHANGED fillVars
  BY <1>11 DEF fillVars, FillTypeOK, InHandIsOpen, RetriesAreLate, OldGamesAreOver,
               BuildsHavePlays, SpotsOnce, PlayedGamesAreNotWrittenOff
<1> QED
  BY <1>1, <1>2, <1>3, <1>4, <1>5, <1>6, <1>7, <1>8, <1>9, <1>10, <1>11 DEF FillNext, FillStep

LEMMA FillInitInv == FillInit => FillInv
  BY SlugAssumption, EmptyHasNoLength, EmptySpots
     DEF FillInit, FillInv, FillTypeOK, InHandIsOpen, RetriesAreLate, OldGamesAreOver,
         BuildsHavePlays, SpotsOnce, PlayedGamesAreNotWrittenOff, Plays, Status, Steps

\* However often games fail, are retried or are cut off by a crash, nothing is
\* counted twice.
THEOREM SpotsOnceCorrect == FillSpec => []SpotsOnce
<1>1. FillInv => SpotsOnce
  BY DEF FillInv
<1> QED
  BY <1>1, FillInitInv, FillInvInductive, PTL DEF FillSpec

\* The second try comes when the game is over, in any time zone and for any slug.
THEOREM PlayedGamesAreNotWrittenOffCorrect == FillSpec => []PlayedGamesAreNotWrittenOff
<1>1. FillInv => PlayedGamesAreNotWrittenOff
  BY DEF FillInv
<1> QED
  BY <1>1, FillInitInv, FillInvInductive, PTL DEF FillSpec

LEMMA PnlIsSum ==
  ASSUME NEW S, IsFiniteSet(S), \A r \in S : r.pnl \in Int
  PROVE  Pnl(S) = SumUp([r \in S |-> r.pnl], S)
<1> DEFINE v == [r \in S |-> r.pnl]
           F(g) == [s \in SUBSET S |-> IF s = {} THEN 0
                      ELSE (CHOOSE x \in s : TRUE).pnl + g[s \ {CHOOSE x \in s : TRUE}]]
           G(g) == [s \in SUBSET S |-> IF s = {} THEN 0
                      ELSE v[CHOOSE x \in s : TRUE] + g[s \ {CHOOSE x \in s : TRUE}]]
<1>1. v \in [S -> Int]
  OBVIOUS
<1>2. \A g : F(g) = G(g)
  OBVIOUS
<1>3. (CHOOSE g : g = F(g)) = (CHOOSE g : g = G(g))
  <2> HIDE DEF F, G
  <2> QED
    BY <1>2
<1>4. Pnl(S) = (CHOOSE g : g = F(g))[S]
  BY DEF Pnl, MapThenSumSet, MapThenFoldSet
<1>5. MapThenSumSet(LAMBDA r : v[r], S) = (CHOOSE g : g = G(g))[S]
  BY DEF MapThenSumSet, MapThenFoldSet
<1>6. MapThenSumSet(LAMBDA r : v[r], S) = SumUp(v, S)
  <2> HIDE DEF v
  <2> QED
    BY <1>1, MapThenSumSetIsSum
<1> QED
  BY <1>3, <1>4, <1>5, <1>6

-----------------------------------------------------------------------------
(***************************************************************************)
(* BacktestRun.  A game that is cut off keeps the spots it had, with what  *)
(* was left of their paths.                                                *)
(***************************************************************************)
Half == [runs : Runs, ticks : Ticks]

LEMMA SameScore ==
  ASSUME NEW hs, NEW cut, NEW side, NEW i, \A j \in 1..i : cut[j] = hs[j]
  PROVE  Score(cut, side, i) = Score(hs, side, i)
<1> DEFINE S == {j \in 1..i : j % 2 = (IF side = "away" THEN 1 ELSE 0)}
           F(g) == [s \in SUBSET S |-> IF s = {} THEN 0
                      ELSE hs[CHOOSE x \in s : TRUE].runs + g[s \ {CHOOSE x \in s : TRUE}]]
           G(g) == [s \in SUBSET S |-> IF s = {} THEN 0
                      ELSE cut[CHOOSE x \in s : TRUE].runs + g[s \ {CHOOSE x \in s : TRUE}]]
<1>1. \A g : F(g) = G(g)
  <2>1. \A s \in SUBSET S : s # {} => hs[CHOOSE x \in s : TRUE] = cut[CHOOSE x \in s : TRUE]
    <3> SUFFICES ASSUME NEW s \in SUBSET S, s # {}
                 PROVE  hs[CHOOSE x \in s : TRUE] = cut[CHOOSE x \in s : TRUE]
      OBVIOUS
    <3>1. (CHOOSE x \in s : TRUE) \in s
      OBVIOUS
    <3>2. (CHOOSE x \in s : TRUE) \in 1..i
      BY <3>1
    <3> QED
      BY <3>2
  <2> HIDE DEF S
  <2> QED
    BY <2>1
<1>2. (CHOOSE g : g = F(g)) = (CHOOSE g : g = G(g))
  <2> HIDE DEF F, G
  <2> QED
    BY <1>1
<1>3. Score(hs, side, i) = (CHOOSE g : g = F(g))[S]
  BY DEF Score, MapThenSumSet, MapThenFoldSet
<1>4. Score(cut, side, i) = (CHOOSE g : g = G(g))[S]
  BY DEF Score, MapThenSumSet, MapThenFoldSet
<1> QED
  BY <1>2, <1>3, <1>4

LEMMA CutPrices ==
  ASSUME NEW hs, NEW cut, NEW i \in Nat, NEW k \in Nat, \A j \in i..(i + k) : cut[j] = hs[j]
  PROVE  PathPrices(cut, i, k) = PathPrices(hs, i, k)
<1>1. \A j \in (i + 1)..(i + k) : cut[j] = hs[j]
  OBVIOUS
<1>2. \A j \in i..(i + k - 1) : cut[j] = hs[j]
  OBVIOUS
<1>3. UNION {Quoted({cut[j].ticks.now}) : j \in (i + 1)..(i + k)}
        = UNION {Quoted({hs[j].ticks.now}) : j \in (i + 1)..(i + k)}
  BY <1>1
<1>4. UNION {After(cut[j].ticks) : j \in i..(i + k - 1)}
        = UNION {After(hs[j].ticks) : j \in i..(i + k - 1)}
  BY <1>2
<1> QED
  BY <1>3, <1>4 DEF PathPrices

LEMMA CutSeq ==
  ASSUME NEW hs \in Seq(Half), NEW c \in 1..Len(hs)
  PROVE  /\ SubSeq(hs, 1, c) \in Seq(Half) /\ Len(SubSeq(hs, 1, c)) = c
         /\ \A j \in 1..c : SubSeq(hs, 1, c)[j] = hs[j]
  OBVIOUS

\* What a spot is without its path.
Situation(s) == <<s.at, s.inning, s.next, s.trailing, s.deficit, s.left, s.entry0, s.delayed, s.stale>>

LEMMA CutSpot ==
  ASSUME NEW hs \in Seq(Half), NEW c \in 1..Len(hs), NEW i \in 1..c
  PROVE  LET s == SpotAt(hs, i)
             t == SpotAt(SubSeq(hs, 1, c), i)
         IN  /\ Situation(t) = Situation(s)
             /\ DOMAIN s.path = {k \in 1..PathHalves : i + k <= Len(hs)}
             /\ DOMAIN t.path = {k \in 1..PathHalves : i + k <= c}
             /\ \A k \in DOMAIN t.path : k \in DOMAIN s.path /\ t.path[k] = s.path[k]
<1> DEFINE cut == SubSeq(hs, 1, c)
           s == SpotAt(hs, i)
           t == SpotAt(cut, i)
<1>1. Len(cut) = c /\ \A j \in 1..c : cut[j] = hs[j]
  BY CutSeq
<1> HIDE DEF cut
<1>2. \A side : Score(cut, side, i) = Score(hs, side, i)
  BY <1>1, SameScore
<1>3. Gap(cut, i) = Gap(hs, i) /\ Trailing(cut, i) = Trailing(hs, i) /\ cut[i] = hs[i]
  BY <1>1, <1>2 DEF Gap, Trailing
<1>4. Situation(t) = Situation(s)
  BY <1>3 DEF Situation, SpotAt
<1>5. /\ DOMAIN s.path = {k \in 1..PathHalves : i + k <= Len(hs)}
      /\ DOMAIN t.path = {k \in 1..PathHalves : i + k <= c}
  BY <1>1 DEF SpotAt
<1>6. ASSUME NEW k \in DOMAIN t.path PROVE k \in DOMAIN s.path /\ t.path[k] = s.path[k]
  <2>1. k \in 1..PathHalves /\ i + k <= c /\ i + k <= Len(hs)
    <3>1. k \in 1..PathHalves /\ i + k <= c
      BY <1>5, <1>6
    <3>2. PathHalves \in Nat /\ c \in Nat /\ i \in Nat /\ Len(hs) \in Nat /\ c <= Len(hs)
      BY LengthAssumption
    <3> QED
      BY <3>1, <3>2
  <2>2. PathPrices(cut, i, k) = PathPrices(hs, i, k)
    <3>1. i \in Nat \ {0} /\ k \in Nat /\ c \in Nat
      BY <2>1, LengthAssumption
    <3>2. \A j \in i..(i + k) : cut[j] = hs[j]
      BY <1>1, <2>1, <3>1
    <3> QED
      BY <3>1, <3>2, CutPrices
  <2>3. cut[i + k] = hs[i + k]
    BY <1>1, <2>1
  <2>4. k \in DOMAIN s.path
    BY <1>5, <2>1
  <2>5. s.path[k] = [max |-> Max({SidePrice(Trailing(hs, i), p) : p \in PathPrices(hs, i, k)}),
                     at |-> SidePrice(Trailing(hs, i), First(hs[i + k].ticks))]
    BY <1>5, <2>4 DEF SpotAt
  <2>6. t.path[k] = [max |-> Max({SidePrice(Trailing(cut, i), p) : p \in PathPrices(cut, i, k)}),
                     at |-> SidePrice(Trailing(cut, i), First(cut[i + k].ticks))]
    BY <1>5, <1>6 DEF SpotAt
  <2> QED
    BY <1>3, <2>2, <2>3, <2>4, <2>5, <2>6
<1> QED
  BY <1>4, <1>5, <1>6 DEF cut


GameInv ==
    /\ halves \in Seq(Half)
    /\ ended \in [winner : {"nobody", "home", "away"}, pinned : BOOLEAN]
    /\ ended # Playing => ended.winner \in {"home", "away"}

ReportOf(p, rows) ==
    [kind |-> p.kind, params |-> p, rows |-> rows, trades |-> Trades(halves, rows, p),
     inGame |-> IF p.kind = "favorite2" THEN InGame(halves, rows, p) ELSE {}]

ReportInv == report # NoReport =>
    ended # Playing /\ \E p \in Setting, rows \in Verdicts : report = ReportOf(p, rows)

RunInv == GameInv /\ ReportInv

\* A report is about the game that is over.
LEMMA SameReport ==
  ASSUME UNCHANGED <<halves, ended>>, NEW p, NEW rows
  PROVE  ReportOf(p, rows)' = ReportOf(p, rows)
<1>1. Settlement' = Settlement /\ halves' = halves /\ ended' = ended
  BY DEF Settlement
<1>2. \A at, side, price, q : Hold(at, side, price, q)' = Hold(at, side, price, q)
  BY <1>1 DEF Hold
<1>3. Checklist(halves, p)' = Checklist(halves, p) /\ Comeback(halves, p)' = Comeback(halves, p)
  BY <1>1 DEF Checklist, Comeback
<1>4. Favorite(rows, p)' = Favorite(rows, p) /\ Favorite2(rows, p)' = Favorite2(rows, p)
  BY <1>2 DEF Favorite, Favorite2
<1>5. InGame(halves, rows, p)' = InGame(halves, rows, p)
  <2> DEFINE U(n) == UNION {Hold(s.at, ChosenSide(rows[n], p),
                                 InGamePrice(s, ChosenSide(rows[n], p)), p) :
                              s \in {s \in Spots(halves) : ~s.stale}}
             T == UNION {U(n) : n \in UsableRow(rows)}
  <2>1. \A n : U(n)' = U(n)
    BY <1>1, <1>2
  <2>2. T' = T
    <3> HIDE DEF U
    <3> QED
      BY <2>1
  <2> HIDE DEF T
  <2>3. SplitByGame(T, p)' = SplitByGame(T, p)
    BY <2>2 DEF SplitByGame
  <2> QED
    BY <2>3 DEF InGame, T
<1>6. FairValue(halves, p)' = FairValue(halves, p)
  BY <1>1, <1>2 DEF FairValue, HoldResults, BounceResults
<1>7. Bottom8(halves, p)' = Bottom8(halves, p)
  BY <1>1 DEF Bottom8, TiedAt, AwayLine, HomeLine
<1>8. Trades(halves, rows, p)' = Trades(halves, rows, p)
  BY <1>3, <1>4, <1>6, <1>7 DEF Trades
<1> QED
  BY <1>5, <1>8 DEF ReportOf

LEMMA RunInvInductive == RunInv /\ [RunNext]_runVars => RunInv'
<1> SUFFICES ASSUME RunInv, [RunNext]_runVars PROVE RunInv'
  OBVIOUS
<1> USE DEF RunInv
<1>1. CASE UNCHANGED runVars
  BY <1>1, SameReport DEF runVars, GameInv, ReportInv
<1>2. CASE Run
  <2>1. ended # Playing /\ UNCHANGED <<halves, ended>>
    BY <1>2 DEF Run
  <2>2. \E p \in Setting, rows \in Verdicts : report' = ReportOf(p, rows)
    BY <1>2 DEF Run, ReportOf
  <2> QED
    BY <2>1, <2>2, SameReport DEF GameInv, ReportInv
<1>3. CASE PlayHalf /\ UNCHANGED report
  <2>1. report = NoReport
    BY <1>3 DEF PlayHalf, ReportInv
  <2>2. GameInv'
    BY <1>3 DEF PlayHalf, GameInv, Half
  <2> QED
    BY <1>3, <2>1, <2>2 DEF ReportInv
<1>4. CASE EndGame /\ UNCHANGED report
  <2>1. report = NoReport
    BY <1>4 DEF EndGame, ReportInv
  <2>2. GameInv'
    BY <1>4 DEF EndGame, GameInv, Trailing, Other
  <2> QED
    BY <1>4, <2>1, <2>2 DEF ReportInv
<1> QED
  BY <1>1, <1>2, <1>3, <1>4 DEF RunNext

LEMMA RunInvInit == RunInit => RunInv
  BY DEF RunInit, GameInit, RunInv, GameInv, ReportInv, Playing, Half

Hits(s, p) == {k \in Seen(s, p) : s.path[k].max >= (IF p.delay THEN s.delayed ELSE s.entry0) + p.target}

LEMMA HorizonIsShort == ASSUME NEW p \in Params PROVE Horizon(p) \in 1..6
  BY DEF Horizon, Most, Least, Params

\* What a trade depends on: the situation, when the target was hit, and the end of the
\* path when it was not.
LEMMA SameTrade ==
  ASSUME NEW s, NEW t, NEW p, Situation(t) = Situation(s),
         (Hits(t, p) # {}) = (Hits(s, p) # {}),
         Hits(s, p) # {} => Min(Hits(t, p)) = Min(Hits(s, p)),
         Hits(s, p) = {} => t.path[Max(Seen(t, p))] = s.path[Max(Seen(s, p))]
  PROVE  PathTrade(t, p) = PathTrade(s, p)
<1>1. t.at = s.at /\ t.trailing = s.trailing /\ t.entry0 = s.entry0 /\ t.delayed = s.delayed
  BY DEF Situation
<1> DEFINE fill == IF p.delay THEN s.delayed ELSE s.entry0
           target == fill + p.target
           Exit(x, won) == IF won THEN target
                           ELSE IF p.giveUp = "stake" THEN 0 ELSE x.path[Max(Seen(x, p))].at
           Deal(x, won) == [at |-> s.at, side |-> s.trailing, win |-> won, entry |-> fill,
                             exit |-> Exit(x, won), hold |-> IF won THEN Min(Hits(x, p)) ELSE Horizon(p),
                             pnl |-> SoldFor(p, fill, Exit(x, won)), of |-> 1]
<1>2. PathTrade(s, p) = Deal(s, Hits(s, p) # {})
  BY DEF PathTrade, Hits
<1>3. PathTrade(t, p) = Deal(t, Hits(t, p) # {})
  BY <1>1 DEF PathTrade, Hits
<1>4. CASE Hits(s, p) # {}
  BY <1>2, <1>3, <1>4
<1>5. CASE Hits(s, p) = {}
  BY <1>2, <1>3, <1>5
<1> QED
  BY <1>4, <1>5

HoldOf(s, p) == IF Hits(s, p) # {} THEN Min(Hits(s, p)) ELSE Horizon(p)

LEMMA TradeHold ==
  ASSUME NEW s, NEW p
  PROVE  /\ PathTrade(s, p).at = s.at /\ PathTrade(s, p).hold = HoldOf(s, p)
         /\ PathTrade(s, p).side = s.trailing /\ PathTrade(s, p).of = 1
         /\ PathTrade(s, p).entry = (IF p.delay THEN s.delayed ELSE s.entry0)
  BY DEF PathTrade, HoldOf, Hits

LEMMA CutTrade ==
  ASSUME NEW hs \in Seq(Half), NEW i \in 1..(Len(hs) - 1), NEW p \in Params
  PROVE  LET s == SpotAt(hs, i)
             c == Least(Len(hs), i + Least(HoldOf(s, p), Horizon(p)))
             t == SpotAt(SubSeq(hs, 1, c), i)
         IN  /\ c \in 1..Len(hs) /\ i < c
             /\ Situation(t) = Situation(s)
             /\ PathTrade(t, p) = PathTrade(s, p)
<1> DEFINE s == SpotAt(hs, i)
           H == Horizon(p)
           k == HoldOf(s, p)
           c == Least(Len(hs), i + Least(k, H))
           t == SpotAt(SubSeq(hs, 1, c), i)
<1>0. H \in 1..6 /\ PathHalves \in Nat \ {0} /\ Len(hs) \in Nat /\ i \in Nat /\ i + 1 <= Len(hs) /\ 1 <= i
  BY HorizonIsShort, LengthAssumption
<1>1. DOMAIN s.path = {n \in 1..PathHalves : i + n <= Len(hs)}
  BY <1>0 DEF SpotAt
<1>2. Seen(s, p) = {n \in 1..PathHalves : i + n <= Len(hs)} \cap 1..H
  BY <1>1 DEF Seen
<1>3. Seen(s, p) \subseteq 1..H /\ Seen(s, p) \subseteq Int /\ 1 \in Seen(s, p)
  BY <1>0, <1>2
<1>4. IsFiniteSet(Seen(s, p))
  <2>0. H \in Int
    BY <1>0
  <2> HIDE DEF H
  <2>1. IsFiniteSet(1..H)
    BY <2>0, FS_Interval
  <2> QED
    BY <1>3, <2>1, FS_Subset
<1>5. Hits(s, p) # {} => k \in Hits(s, p) /\ \A n \in Hits(s, p) : k <= n
  <2> DEFINE h == Hits(s, p)
  <2>1. h \in SUBSET Seen(s, p) /\ h \subseteq Int
    BY <1>3 DEF Hits
  <2>2. k = IF h # {} THEN Min(h) ELSE H
    BY DEF HoldOf
  <2> HIDE DEF h, k
  <2>3. IsFiniteSet(h)
    BY <1>4, <2>1, FS_Subset
  <2>4. h # {} => Min(h) \in h /\ \A n \in h : Min(h) <= n
    BY <2>1, <2>3, HasBounds
  <2> QED
    BY <2>2, <2>4 DEF h
<1>6. k \in 1..H
  <2>1. CASE Hits(s, p) # {}
    BY <1>3, <1>5, <2>1 DEF Hits
  <2>2. CASE Hits(s, p) = {}
    BY <1>0, <2>2 DEF HoldOf
  <2> QED
    BY <2>1, <2>2
<1> HIDE DEF H, k, s
<1>7. c = IF Len(hs) <= i + k THEN Len(hs) ELSE i + k
  BY <1>0, <1>6 DEF Least
<1> HIDE DEF c
<1>8. c \in 1..Len(hs) /\ i < c /\ i \in 1..c
  BY <1>0, <1>6, <1>7
<1>9. /\ Situation(t) = Situation(s)
      /\ DOMAIN t.path = {n \in 1..PathHalves : i + n <= c}
      /\ \A n \in DOMAIN t.path : n \in DOMAIN s.path /\ t.path[n] = s.path[n]
  BY <1>8, CutSpot DEF s
<1> HIDE DEF t
<1>10. Seen(t, p) = {n \in 1..PathHalves : i + n <= c} \cap 1..H
  BY <1>9 DEF Seen, H
<1>11. Seen(t, p) \subseteq Seen(s, p) /\ \A n \in Seen(t, p) : t.path[n] = s.path[n]
  <2>1. Seen(t, p) \subseteq Seen(s, p)
    BY <1>0, <1>2, <1>8, <1>10
  <2> QED
    BY <1>9, <2>1 DEF Seen
<1>12. Hits(t, p) = {n \in Hits(s, p) : n \in Seen(t, p)}
  <2>1. t.entry0 = s.entry0 /\ t.delayed = s.delayed
    BY <1>9 DEF Situation
  <2> QED
    BY <1>11, <2>1 DEF Hits
<1>13. CASE Hits(s, p) # {}
  <2>1. k \in Hits(s, p) /\ k \in Seen(s, p) /\ \A n \in Hits(s, p) : k <= n
    BY <1>5, <1>13 DEF Hits
  <2>2. c = i + k
    BY <1>0, <1>2, <1>6, <1>7, <2>1
  <2>3. Seen(t, p) \subseteq 1..k /\ k \in Seen(t, p)
    BY <1>0, <1>2, <1>6, <1>10, <2>1, <2>2
  <2>4. Hits(t, p) = {k}
    BY <1>6, <1>12, <2>1, <2>3
  <2>5. Min({k}) = k
    BY <1>6 DEF Min
  <2>6. k = Min(Hits(s, p))
    BY <1>13 DEF k, HoldOf
  <2>7. PathTrade(t, p) = PathTrade(s, p)
    BY <1>9, <1>13, <2>4, <2>5, <2>6, SameTrade
  <2> QED
    BY <1>8, <1>9, <2>7 DEF s, t, c, k, H
<1>14. CASE Hits(s, p) = {}
  <2>1. k = H
    BY <1>14 DEF k, H, HoldOf
  <2>2. Seen(t, p) = Seen(s, p)
    BY <1>0, <1>2, <1>7, <1>10, <2>1
  <2>3. Max(Seen(s, p)) \in Seen(s, p)
    BY <1>3, <1>4, HasBounds
  <2>4. t.path[Max(Seen(t, p))] = s.path[Max(Seen(s, p))]
    BY <1>11, <2>2, <2>3
  <2>5. Hits(t, p) = {}
    BY <1>12, <1>14
  <2>6. PathTrade(t, p) = PathTrade(s, p)
    BY <1>9, <1>14, <2>4, <2>5, SameTrade
  <2> QED
    BY <1>8, <1>9, <2>6 DEF s, t, c, k, H
<1> QED
  BY <1>13, <1>14

LEMMA SameGates ==
  ASSUME NEW s, NEW t, NEW p, Situation(t) = Situation(s)
  PROVE  /\ InTheNet(t) = InTheNet(s)
         /\ Gated(t, p) = Gated(s, p)
         /\ BandPoints(t, p.factors) = BandPoints(s, p.factors)
         /\ SituationOk(t, p) = SituationOk(s, p)
         /\ t.stale = s.stale /\ t.deficit = s.deficit /\ t.inning = s.inning
         /\ t.entry0 = s.entry0 /\ OnSide(t, p) = OnSide(s, p)
  BY DEF Situation, InTheNet, Gated, BandPoints, SituationOk, OnSide

\* A spot and its trade are those of the game that stops when the trade is over.
LEMMA CutHasSpot ==
  ASSUME NEW hs \in Seq(Half), NEW s \in Spots(hs), NEW p \in Params,
         NEW c, c = Least(Len(hs), s.at + Least(PathTrade(s, p).hold, Horizon(p)))
  PROVE  \E t \in Spots(SubSeq(hs, 1, c)) :
            Situation(t) = Situation(s) /\ PathTrade(t, p) = PathTrade(s, p)
<1>1. PICK i \in 1..(Len(hs) - 1) : s = SpotAt(hs, i) /\ InTheNet(s)
  BY DEF Spots
<1>2. s.at = i
  BY <1>1 DEF SpotAt
<1>3. PathTrade(s, p).hold = HoldOf(s, p)
  BY TradeHold
<1>4. c = Least(Len(hs), i + Least(HoldOf(SpotAt(hs, i), p), Horizon(p)))
  BY <1>1, <1>2, <1>3
<1> DEFINE t == SpotAt(SubSeq(hs, 1, c), i)
<1>5. /\ c \in 1..Len(hs) /\ i < c
      /\ Situation(t) = Situation(s) /\ PathTrade(t, p) = PathTrade(s, p)
  BY <1>1, <1>4, CutTrade
<1>6. Len(SubSeq(hs, 1, c)) = c /\ i \in 1..(c - 1)
  BY <1>5, CutSeq
<1>7. InTheNet(t)
  BY <1>1, <1>5, SameGates
<1>8. t \in Spots(SubSeq(hs, 1, c))
  BY <1>6, <1>7 DEF Spots
<1> QED
  BY <1>5, <1>8


LEMMA NoLookAheadFollows == RunInv => NoLookAhead
<1> SUFFICES ASSUME RunInv, report # NoReport, NEW r \in SpotTrades(halves, report.params)
             PROVE  r \in SpotTrades(SubSeq(halves, 1, Least(Len(halves), r.at + Least(r.hold, Horizon(report.params)))),
                                     report.params)
  BY DEF NoLookAhead
<1> DEFINE p == report.params
           c == Least(Len(halves), r.at + Least(r.hold, Horizon(p)))
           cut == SubSeq(halves, 1, c)
<1>1. p \in Params /\ halves \in Seq(Half)
  BY SettingAssumption DEF RunInv, GameInv, ReportInv, ReportOf
<1> HIDE DEF p, c, cut
<1>2. ASSUME NEW s \in Spots(halves), NEW q \in Params, r = PathTrade(s, q), Horizon(q) = Horizon(p)
      PROVE  \E t \in Spots(cut) : Situation(t) = Situation(s) /\ PathTrade(t, q) = r
  <2>1. r.at = s.at
    BY <1>2, TradeHold
  <2>2. c = Least(Len(halves), s.at + Least(PathTrade(s, q).hold, Horizon(q)))
    BY <1>2, <2>1 DEF c
  <2> QED
    BY <1>1, <1>2, <2>2, CutHasSpot DEF cut
<1>3. CASE p.kind = "checklist"
  <2>1. PICK s \in Spots(halves) : r = PathTrade(s, p) /\ Gated(s, p) /\ BandPoints(s, p.factors) >= p.bar
    BY <1>3 DEF SpotTrades, Checklist, p
  <2>2. PICK t \in Spots(cut) : Situation(t) = Situation(s) /\ PathTrade(t, p) = r
    BY <1>1, <1>2, <2>1
  <2>3. Gated(t, p) /\ BandPoints(t, p.factors) >= p.bar
    BY <2>1, <2>2, SameGates
  <2>4. r \in Checklist(cut, p)
    BY <2>2, <2>3 DEF Checklist
  <2> QED
    BY <1>3, <2>4 DEF SpotTrades, p, c, cut
<1>4. CASE p.kind = "comeback"
  <2>1. PICK s \in Spots(halves) : r = PathTrade(s, p) /\ ~s.stale /\ SituationOk(s, p) /\ FatigueMatches(p.factors) >= 1
    BY <1>4 DEF SpotTrades, Comeback, p
  <2>2. PICK t \in Spots(cut) : Situation(t) = Situation(s) /\ PathTrade(t, p) = r
    BY <1>1, <1>2, <2>1
  <2>3. ~t.stale /\ SituationOk(t, p)
    BY <2>1, <2>2, SameGates
  <2>4. r \in Comeback(cut, p)
    BY <2>1, <2>2, <2>3 DEF Comeback
  <2> QED
    BY <1>4, <2>4 DEF SpotTrades, p, c, cut
<1>5. CASE p.kind = "fairvalue"
  <2> DEFINE q == [p EXCEPT !.giveUp = "horizon"]
  <2>0. q \in Params /\ Horizon(q) = Horizon(p)
    BY <1>1 DEF Params, Horizon
  <2>1. PICK s \in Entries(halves, p) : r = PathTrade(s, q)
    BY <1>5 DEF SpotTrades, BounceResults, p
  <2>2. s \in Spots(halves) /\ s.deficit >= 1 /\ s.inning <= p.inning /\ OnSide(s, p)
        /\ ~s.stale /\ s.entry0 <= p.fair - p.discount
    BY <2>1 DEF Entries
  <2> HIDE DEF q
  <2>3. PICK t \in Spots(cut) : Situation(t) = Situation(s) /\ PathTrade(t, q) = r
    BY <1>2, <2>0, <2>1, <2>2
  <2>4. t \in Entries(cut, p)
    BY <2>2, <2>3, SameGates DEF Entries
  <2>5. r \in BounceResults(cut, p)
    BY <2>3, <2>4 DEF BounceResults, q
  <2> QED
    BY <1>5, <2>5 DEF SpotTrades, p, c, cut
<1> QED
  BY <1>3, <1>4, <1>5 DEF SpotTrades, p

\* backtest/engine.py: whatever the parameters and the game, a trade that is sold
\* again is the same in the game that stops where the trade is over.
THEOREM NoLookAheadCorrect == RunSpec => []NoLookAhead
  BY RunInvInit, RunInvInductive, NoLookAheadFollows, PTL DEF RunSpec

LEMMA RangeIsFinite ==
  ASSUME NEW a \in Int, NEW b \in Int, NEW S \in SUBSET (a..b)
  PROVE  IsFiniteSet(S) /\ S \subseteq Int
<1>1. IsFiniteSet(a..b)
  BY FS_Interval
<1>2. IsFiniteSet(S)
  BY <1>1, FS_Subset
<1> QED
  BY <1>2

LEMMA Prices ==
  ASSUME NEW t \in Ticks
  PROVE  First(t) \in 1..99 /\ After(t) # {} /\ After(t) \subseteq 1..99 /\ Quoted({t.now}) \subseteq 1..99
<1>1. t.now \in 0..99 /\ t.soon \in 0..99 /\ t.later \in 1..99
  BY TickAssumption
<1> QED
  BY <1>1 DEF First, After, Quoted, Silent

LEMMA PathIsQuoted ==
  ASSUME NEW hs, NEW n \in Nat, \A j \in 1..n : hs[j].ticks \in Ticks,
         NEW i \in 1..n, NEW k \in Nat \ {0}, i + k <= n
  PROVE  PathPrices(hs, i, k) \subseteq 1..99 /\ PathPrices(hs, i, k) # {}
<1>1. (i + 1)..(i + k) \subseteq 1..n /\ i..(i + k - 1) \subseteq 1..n /\ i \in i..(i + k - 1)
  OBVIOUS
<1>2. \A j \in 1..n : Quoted({hs[j].ticks.now}) \subseteq 1..99
                     /\ After(hs[j].ticks) \subseteq 1..99 /\ After(hs[j].ticks) # {}
  BY Prices
<1>3. UNION {Quoted({hs[j].ticks.now}) : j \in (i + 1)..(i + k)} \subseteq 1..99
  BY <1>1, <1>2
<1>4. UNION {After(hs[j].ticks) : j \in i..(i + k - 1)} \subseteq 1..99
  BY <1>1, <1>2
<1>5. UNION {After(hs[j].ticks) : j \in i..(i + k - 1)} # {}
  <2>1. PICK x \in After(hs[i].ticks) : TRUE
    BY <1>2
  <2> DEFINE J == i..(i + k - 1)
  <2>2. i \in J
    BY <1>1
  <2> HIDE DEF J
  <2>3. x \in UNION {After(hs[j].ticks) : j \in J}
    BY ONLY <2>1, <2>2, Zenon
  <2>4. UNION {After(hs[j].ticks) : j \in J} # {}
    BY ONLY <2>3
  <2> QED
    BY <2>4 DEF J
<1>6. \A A, B, C : C = A \cup B /\ A \subseteq 1..99 /\ B \subseteq 1..99 /\ B # {}
                      => C \subseteq 1..99 /\ C # {}
  OBVIOUS
<1>7. PathPrices(hs, i, k) = (UNION {Quoted({hs[j].ticks.now}) : j \in (i + 1)..(i + k)})
                               \cup (UNION {After(hs[j].ticks) : j \in i..(i + k - 1)})
  BY DEF PathPrices
<1> QED
  BY <1>3, <1>4, <1>5, <1>6, <1>7, Zenon

\* Every price of a spot is one of the market.
LEMMA SpotType ==
  ASSUME NEW hs \in Seq(Half), NEW i \in 1..Len(hs)
  PROVE  LET s == SpotAt(hs, i)
         IN  /\ s.at = i /\ s.trailing \in {"home", "away"}
             /\ s.entry0 \in 1..99 /\ s.delayed \in 1..99
             /\ DOMAIN s.path = {k \in 1..PathHalves : i + k <= Len(hs)}
             /\ \A k \in DOMAIN s.path : s.path[k].max \in 1..99 /\ s.path[k].at \in 1..99
<1> DEFINE s == SpotAt(hs, i)
           side == Trailing(hs, i)
<1>0. Len(hs) \in Nat /\ i \in Nat /\ PathHalves \in Nat
  BY LengthAssumption
<1>1. \A j \in 1..Len(hs) : hs[j].ticks \in Ticks
  <2>1. \A j \in 1..Len(hs) : hs[j] \in Half
    OBVIOUS
  <2> QED
    BY <2>1 DEF Half
<1>2. side \in {"home", "away"}
  BY DEF Trailing
<1>3. \A x \in 1..99 : SidePrice(side, x) \in 1..99
  BY DEF SidePrice
<1>4. s.at = i /\ s.trailing = side /\ s.entry0 = SidePrice(side, First(hs[i].ticks))
      /\ s.delayed = SidePrice(side, hs[i].ticks.later)
      /\ DOMAIN s.path = {k \in 1..PathHalves : i + k <= Len(hs)}
  BY DEF SpotAt
<1>5. s.entry0 \in 1..99 /\ s.delayed \in 1..99
  <2>1. hs[i].ticks.later \in 1..99
    BY <1>1, TickAssumption
  <2>2. First(hs[i].ticks) \in 1..99
    BY <1>1, Prices
  <2> QED
    BY <1>3, <1>4, <2>1, <2>2
<1>6. ASSUME NEW k \in DOMAIN s.path PROVE s.path[k].max \in 1..99 /\ s.path[k].at \in 1..99
  <2>1. k \in 1..PathHalves /\ k \in Nat /\ i + k \in 1..Len(hs)
    BY <1>0, <1>4, <1>6
  <2> DEFINE P == PathPrices(hs, i, k)
             Q == {SidePrice(side, x) : x \in P}
  <2>2. P \subseteq 1..99 /\ P # {}
    <3>1. k \in Nat \ {0} /\ i + k <= Len(hs) /\ i \in 1..Len(hs)
      BY <1>0, <2>1
    <3> QED
      BY <1>0, <1>1, <3>1, PathIsQuoted DEF P
  <2> HIDE DEF P, side
  <2>4. Q \subseteq 1..99 /\ Q # {}
    BY <1>3, <2>2
  <2>5. s.path[k].max = Max(Q) /\ s.path[k].at = SidePrice(side, First(hs[i + k].ticks))
    BY <1>4, <1>6 DEF SpotAt, side, P
  <2> HIDE DEF Q
  <2>6. IsFiniteSet(Q) /\ Q \subseteq Int
    <3>1. Q \in SUBSET (1..99) /\ 1 \in Int /\ 99 \in Int
      BY <2>4
    <3> QED
      BY <3>1, RangeIsFinite
  <2>7. Max(Q) \in 1..99
    <3>1. Max(Q) \in Q
      BY <2>4, <2>6, HasBounds
    <3> QED
      BY <2>4, <3>1
  <2>8. First(hs[i + k].ticks) \in 1..99
    BY <1>1, <2>1, Prices
  <2> QED
    BY <1>3, <2>5, <2>7, <2>8
<1> QED
  BY <1>2, <1>4, <1>5, <1>6

LEMMA SpotsAreSpots ==
  ASSUME NEW hs \in Seq(Half), NEW s \in Spots(hs)
  PROVE  s.at \in 1..(Len(hs) - 1) /\ s.at \in 1..Len(hs) /\ s = SpotAt(hs, s.at) /\ InTheNet(s)
<1>1. PICK i \in 1..(Len(hs) - 1) : s = SpotAt(hs, i) /\ InTheNet(s)
  BY DEF Spots
<1>2. s.at = i
  BY <1>1 DEF SpotAt
<1> QED
  BY <1>1, <1>2

LEMMA Amounts ==
  ASSUME NEW p \in Params, NEW price \in 1..99, NEW exit \in 0..100
  PROVE  SoldFor(p, price, exit) \in Int
<1>1. p.slip \in 0..100
  BY DEF Params
<1>2. \A x \in Int : TakerFee(x) \in Int
  BY DEF TakerFee
<1>3. Bought(p, price) \in Int /\ EntryFee(p, price) \in Int
  <2>1. price + p.slip \in Int
    BY <1>1
  <2> QED
    BY <1>2, <2>1 DEF Bought, EntryFee
<1>4. ExitFee(p, exit) \in Int /\ Most(0, exit - p.slip) \in Int
  <2>1. Most(0, exit - p.slip) \in Int
    BY <1>1 DEF Most
  <2> QED
    BY <1>2, <2>1 DEF ExitFee
<1>5. SoldFor(p, price, exit) \in Int
  BY <1>3, <1>4 DEF SoldFor
<1> QED
  BY <1>5

LEMMA HeldIsAnAmount ==
  ASSUME NEW p \in Params, NEW price \in 1..99, NEW won
  PROVE  Held(p, price, won) \in Int
<1>1. price + p.slip \in Int
  BY DEF Params
<1>2. TakerFee(price + p.slip) \in Int
  BY <1>1 DEF TakerFee
<1> QED
  BY <1>1, <1>2 DEF Held, Bought, EntryFee

IsTrade(r) ==
    /\ r.entry \in 1..99 /\ r.exit \in 0..100 /\ r.pnl \in Int
    /\ r.at \in Nat /\ r.hold \in 0..6 /\ r.of \in Nat \ {0}

LEMMA PathTradeType ==
  ASSUME NEW hs \in Seq(Half), NEW s \in Spots(hs), NEW p \in Params
  PROVE  IsTrade(PathTrade(s, p)) /\ PathTrade(s, p).of = 1 /\ PathTrade(s, p).at = s.at
<1> DEFINE r == PathTrade(s, p)
           fill == IF p.delay THEN s.delayed ELSE s.entry0
           target == fill + p.target
           W == Hits(s, p) # {}
           exit == IF W THEN target
                   ELSE IF p.giveUp = "stake" THEN 0 ELSE s.path[Max(Seen(s, p))].at
<1>1. /\ s.at \in 1..(Len(hs) - 1) /\ s.at \in 1..Len(hs)
      /\ s.entry0 \in 1..99 /\ s.delayed \in 1..99
      /\ DOMAIN s.path = {k \in 1..PathHalves : s.at + k <= Len(hs)}
      /\ \A k \in DOMAIN s.path : s.path[k].max \in 1..99 /\ s.path[k].at \in 1..99
  <2>1. s.at \in 1..(Len(hs) - 1) /\ s.at \in 1..Len(hs) /\ s = SpotAt(hs, s.at)
    BY SpotsAreSpots
  <2>2. ASSUME NEW i \in 1..Len(hs), s = SpotAt(hs, i)
        PROVE  /\ s.entry0 \in 1..99 /\ s.delayed \in 1..99
               /\ DOMAIN s.path = {k \in 1..PathHalves : i + k <= Len(hs)}
               /\ \A k \in DOMAIN s.path : s.path[k].max \in 1..99 /\ s.path[k].at \in 1..99
    BY <2>2, SpotType
  <2> QED
    BY <2>1, <2>2
<1>2. fill \in 1..99 /\ p.target \in Nat
  BY <1>1 DEF Params
<1>3. Horizon(p) \in 1..6
  BY HorizonIsShort
<1>4. Seen(s, p) \subseteq 1..6 /\ 1 \in Seen(s, p) /\ Seen(s, p) \subseteq DOMAIN s.path
  BY <1>1, <1>3, LengthAssumption DEF Seen
<1>5. IsFiniteSet(Seen(s, p)) /\ Seen(s, p) \subseteq Int
  <2>1. Seen(s, p) \in SUBSET (1..6) /\ 1 \in Int /\ 6 \in Int
    BY <1>4
  <2> QED
    BY <2>1, RangeIsFinite
<1>6. Hits(s, p) = {k \in Seen(s, p) : s.path[k].max >= target}
  BY DEF Hits
<1>7. r = [at |-> s.at, side |-> s.trailing, win |-> W, entry |-> fill, exit |-> exit,
           hold |-> IF W THEN Min(Hits(s, p)) ELSE Horizon(p), pnl |-> SoldFor(p, fill, exit), of |-> 1]
  BY DEF PathTrade, Hits
<1>8. W => Min(Hits(s, p)) \in Seen(s, p) /\ target \in 1..99
  <2> SUFFICES ASSUME W PROVE Min(Hits(s, p)) \in Seen(s, p) /\ target \in 1..99
    OBVIOUS
  <2> HIDE DEF fill
  <2>1. Hits(s, p) \in SUBSET Seen(s, p)
    BY <1>6
  <2>2. IsFiniteSet(Hits(s, p)) /\ Hits(s, p) \subseteq Int
    BY <1>5, <2>1, FS_Subset
  <2>3. Min(Hits(s, p)) \in Hits(s, p)
    BY <2>2, HasBounds
  <2>4. s.path[Min(Hits(s, p))].max >= target /\ Min(Hits(s, p)) \in Seen(s, p)
    BY <1>6, <2>3
  <2>5. s.path[Min(Hits(s, p))].max \in 1..99
    BY <1>1, <1>4, <2>4
  <2>6. target \in Int /\ target >= 1
    BY <1>2
  <2> HIDE DEF target
  <2>7. \A x \in 1..99 : x >= target => target \in 1..99
    BY <2>6
  <2> QED
    BY <2>4, <2>5, <2>7
<1>9. ~W => exit \in 0..100
  <2>1. Max(Seen(s, p)) \in Seen(s, p)
    BY <1>4, <1>5, HasBounds
  <2>2. s.path[Max(Seen(s, p))].at \in 1..99
    BY <1>1, <1>4, <2>1
  <2>3. s.path[Max(Seen(s, p))].at \in 0..100 /\ 0 \in 0..100
    BY <2>2
  <2> HIDE DEF W
  <2> QED
    BY <2>3
<1>10. exit \in 0..100
  <2> HIDE DEF W, fill
  <2> QED
    BY <1>8, <1>9
<1>11. (IF W THEN Min(Hits(s, p)) ELSE Horizon(p)) \in 0..6
  BY <1>3, <1>4, <1>8
<1>12. SoldFor(p, fill, exit) \in Int
  <2> HIDE DEF exit, fill
  <2> QED
    BY <1>2, <1>10, Amounts
<1> HIDE DEF exit, fill, W
<1> QED
  BY <1>1, <1>2, <1>7, <1>10, <1>11, <1>12 DEF IsTrade

LEMMA BetType ==
  ASSUME NEW at \in Nat, NEW side, NEW price \in 1..99, NEW p \in Params, NEW winner
  PROVE  LET r == Bet(at, side, price, p, winner)
         IN  IsTrade(r) /\ r.of = 1 /\ r.at = at /\ r.pnl = Held(p, price, side = winner)
<1>1. Held(p, price, side = winner) \in Int
  BY HeldIsAnAmount
<1> QED
  BY <1>1 DEF Bet, IsTrade

LEMMA RangeProducts ==
  ASSUME NEW y \in 1..199, NEW s \in 0..100, y - 100 <= s
  PROVE  y * (100 - y) \in Int /\ y * (100 - y) >= -2000 * s
<1>1. CASE y <= 100
  <2>1. \A u, w \in Nat : u * w >= 0
    OBVIOUS
  <2>2. y \in Nat /\ 100 - y \in Nat
    BY <1>1
  <2>3. y * (100 - y) >= 0
    BY <2>1, <2>2
  <2> QED
    BY <2>3
<1>2. CASE y > 100
  <2>1. \A u, w, z \in Nat : w <= z => u * w <= u * z
    OBVIOUS
  <2>2. y \in Nat /\ y - 100 \in Nat /\ s \in Nat
    BY <1>2
  <2>3. y * (y - 100) <= y * s
    BY <2>1, <2>2
  <2>4. y * s <= 199 * s
    <3>1. \A u, w, z \in Nat : w <= z => w * u <= z * u
      OBVIOUS
    <3> QED
      BY <2>2, <3>1
  <2>5. y * (100 - y) = -(y * (y - 100))
    OBVIOUS
  <2> QED
    BY <2>2, <2>3, <2>4, <2>5
<1> QED
  BY <1>1, <1>2

\* Both sides of one price, of which at most one is redeemed, cost what they pay at least.
LEMMA BothSidesCost ==
  ASSUME NEW p \in Params, NEW q \in Params, q.slip = p.slip, q.fee = p.fee,
         NEW x \in 1..99, NEW won, NEW lost, ~ (won /\ lost)
  PROVE  Held(p, x, won) + Held(q, 100 - x, lost) <= 0
<1> DEFINE s == p.slip
           F(z) == IF p.fee = "maker_both" THEN 0 ELSE TakerFee(z + s)
           Value(w) == 2000 * (IF w THEN 100 ELSE 0)
<1>1. s \in 0..100
  BY DEF Params
<1>2. Held(p, x, won) = Value(won) - 2000 * (x + s) - F(x)
  BY DEF Held, Bought, EntryFee
<1>3. Held(q, 100 - x, lost) = Value(lost) - 2000 * (100 - x + s) - F(100 - x)
  BY DEF Held, Bought, EntryFee
<1>4. \A z \in 1..99 : F(z) \in Int /\ F(z) >= -2000 * s
  <2> SUFFICES ASSUME NEW z \in 1..99 PROVE F(z) \in Int /\ F(z) >= -2000 * s
    OBVIOUS
  <2>1. z + s \in 1..199 /\ (z + s) - 100 <= s
    BY <1>1
  <2>2. TakerFee(z + s) \in Int /\ TakerFee(z + s) >= -2000 * s
    <3> DEFINE y == z + s
    <3>1. TakerFee(z + s) = y * (100 - y)
      BY DEF TakerFee
    <3>2. y \in 1..199 /\ y - 100 <= s
      BY <2>1
    <3> HIDE DEF y, s
    <3>3. y * (100 - y) \in Int /\ y * (100 - y) >= -2000 * s
      BY ONLY <1>1, <3>2, RangeProducts
    <3> QED
      BY ONLY <3>1, <3>3
  <2> QED
    BY <1>1, <2>2
<1>5. Value(won) \in Int /\ Value(lost) \in Int /\ Value(won) + Value(lost) <= 200000
  OBVIOUS
<1> HIDE DEF F, V, s
<1>6. 100 - x \in 1..99
  OBVIOUS
<1>7. F(x) \in Int /\ F(x) >= -2000 * s /\ F(100 - x) \in Int /\ F(100 - x) >= -2000 * s
  BY <1>4, <1>6
<1> QED
  BY <1>1, <1>2, <1>3, <1>5, <1>7

LEMMA FlipKeeps ==
  ASSUME NEW p \in Params
  PROVE  /\ Flip(p) \in Params
         /\ Flip(p).kind = p.kind /\ Flip(p).slip = p.slip /\ Flip(p).fee = p.fee
         /\ Flip(p).inning = p.inning /\ Flip(p).perGame = p.perGame
         /\ Flip(p).side = (IF p.side = "home" THEN "away" ELSE "home")
         /\ Flip(p).which = (IF p.which = "high" THEN "low" ELSE "high")
  BY DEF Flip, Params

\* One trade gains what it gains.
LEMMA PnlOfOne ==
  ASSUME NEW r, r.pnl \in Int
  PROVE  Pnl({r}) = r.pnl
<1> DEFINE v == [x \in {r} |-> x.pnl]
<1>1. IsFiniteSet({r})
  BY FS_Singleton
<1>2. Pnl({r}) = SumUp(v, {r})
  BY <1>1, PnlIsSum
<1>3. v \in [{r} -> Int] /\ v[r] = r.pnl /\ {r} \in SUBSET {r} /\ r \in {r} /\ {r} \ {r} = {}
  OBVIOUS
<1> HIDE DEF v
<1>4. SumUp(v, {r}) = v[r] + SumUp(v, {r} \ {r})
  BY <1>1, <1>3, SumStep
<1> QED
  BY <1>2, <1>3, <1>4, SumOfNone

LEMMA PnlOfNone == Pnl({}) = 0
<1>1. IsFiniteSet({})
  BY FS_EmptySet
<1>2. Pnl({}) = SumUp([r \in {} |-> r.pnl], {})
  BY <1>1, PnlIsSum
<1> QED
  BY <1>2, SumOfNone

\* Trades of one moment each gain what is summed over the moments.
LEMMA PnlByMoment ==
  ASSUME NEW I, IsFiniteSet(I), NEW f, \A i \in I : f[i].pnl \in Int /\ f[i].at = i
  PROVE  /\ IsFiniteSet({f[i] : i \in I})
         /\ Pnl({f[i] : i \in I}) = SumUp([i \in I |-> f[i].pnl], I)
<1> DEFINE S == {f[i] : i \in I}
           w == [r \in S |-> r.pnl]
<1>1. IsFiniteSet(S)
  BY ImageIsFinite
<1>2. Pnl(S) = SumUp(w, S)
  BY <1>1, PnlIsSum
<1>3. \A i \in I : w[f[i]] = f[i].pnl
  OBVIOUS
<1>4. SumUp(w, S) = SumUp([i \in I |-> w[f[i]]], I)
  <2>1. \A i, j \in I : f[i] = f[j] => i = j
    OBVIOUS
  <2>2. \A i \in I : w[f[i]] \in Int
    BY <1>3
  <2> HIDE DEF w
  <2> QED
    BY <2>1, <2>2, SumReindexed
<1>5. [i \in I |-> w[f[i]]] = [i \in I |-> f[i].pnl]
  BY <1>3
<1> QED
  BY <1>1, <1>2, <1>4, <1>5

LEMMA OneBreak ==
  ASSUME NEW hs \in Seq(Half), NEW n, NEW s \in BreakPrice(hs, n), NEW t \in BreakPrice(hs, n)
  PROVE  s = t
<1>1. /\ s \in Spots(hs) /\ s.inning = n /\ s.next = "bottom"
      /\ t \in Spots(hs) /\ t.inning = n /\ t.next = "bottom"
  BY DEF BreakPrice
<1>2. s.at \in 1..Len(hs) /\ s = SpotAt(hs, s.at) /\ t.at \in 1..Len(hs) /\ t = SpotAt(hs, t.at)
  BY <1>1, SpotsAreSpots
<1>3. \A i : SpotAt(hs, i).inning = Inning(i) /\ SpotAt(hs, i).next = NextHalf(i)
  BY DEF SpotAt
<1>4. Inning(s.at) = Inning(t.at) /\ NextHalf(s.at) = "bottom" /\ NextHalf(t.at) = "bottom"
  BY <1>1, <1>2, <1>3
<1>5. \A i, j \in Nat : (i + 1) \div 2 = (j + 1) \div 2 /\ i % 2 = 1 /\ j % 2 = 1 => i = j
  OBVIOUS
<1>6. s.at \in Nat /\ t.at \in Nat /\ s.at % 2 = 1 /\ t.at % 2 = 1
  BY <1>2, <1>4 DEF NextHalf
<1>7. s.at = t.at
  BY <1>4, <1>5, <1>6 DEF Inning
<1> QED
  BY <1>2, <1>7

LEMMA SideComplement ==
  ASSUME NEW x \in 1..99, NEW side \in {"home", "away"}
  PROVE  /\ SidePrice(side, x) \in 1..99
         /\ SidePrice(Other(side), x) = 100 - SidePrice(side, x)
         /\ Other(side) \in {"home", "away"} /\ Other(side) # side
  BY DEF SidePrice, Other

\* Two bets on the two sides, at complementary prices.
LEMMA PairOfBets ==
  ASSUME NEW p \in Params, NEW at \in Nat, NEW a, NEW b, a # b, NEW x \in 1..99, NEW winner
  PROVE  Bet(at, a, x, p, winner).pnl + Bet(at, b, 100 - x, Flip(p), winner).pnl <= 0
<1>1. 100 - x \in 1..99
  OBVIOUS
<1>2. Flip(p) \in Params /\ Flip(p).slip = p.slip /\ Flip(p).fee = p.fee
  BY FlipKeeps
<1>3. Bet(at, a, x, p, winner).pnl = Held(p, x, a = winner)
  BY DEF Bet
<1>4. Bet(at, b, 100 - x, Flip(p), winner).pnl = Held(Flip(p), 100 - x, b = winner)
  BY DEF Bet
<1>5. Held(p, x, a = winner) + Held(Flip(p), 100 - x, b = winner) <= 0
  <2> DEFINE won == a = winner
             lost == b = winner
  <2>1. ~ (won /\ lost)
    OBVIOUS
  <2> HIDE DEF won, lost
  <2>2. Held(p, x, won) + Held(Flip(p), 100 - x, lost) <= 0
    BY <1>2, <2>1, BothSidesCost
  <2> QED
    BY <2>2 DEF won, lost
<1> QED
  BY <1>3, <1>4, <1>5

LEMMA FlippedPrice ==
  ASSUME NEW p \in Params, NEW x \in 1..99
  PROVE  /\ SidePrice(p.side, x) \in 1..99 /\ SidePrice(Flip(p).side, x) \in 1..99
         /\ SidePrice(Flip(p).side, x) = 100 - SidePrice(p.side, x)
         /\ p.side # Flip(p).side
<1>1. Flip(p).side = (IF p.side = "home" THEN "away" ELSE "home")
  BY FlipKeeps
<1>2. CASE p.side = "home"
  BY <1>1, <1>2 DEF SidePrice
<1>3. CASE p.side # "home"
  BY <1>1, <1>3 DEF SidePrice
<1> QED
  BY <1>2, <1>3

LEMMA Bottom8Costs ==
  ASSUME halves \in Seq(Half), NEW p \in Params
  PROVE  Pnl(Bottom8(halves, p)) + Pnl(Bottom8(halves, Flip(p))) <= 0
<1> DEFINE q == Flip(p)
           B(s, r) == Bet(s.at, r.side, SidePrice(r.side, s.entry0), r, ended.winner)
           S == BreakPrice(halves, p.inning)
<1>1. q \in Params /\ q.inning = p.inning /\ q.side = (IF p.side = "home" THEN "away" ELSE "home")
  BY FlipKeeps
<1>2. CASE ~ TiedAt(p.inning) \/ S = {}
  <2>1. Bottom8(halves, p) = {} /\ Bottom8(halves, q) = {}
    BY <1>1, <1>2 DEF Bottom8
  <2> QED
    BY <2>1, PnlOfNone
<1>3. CASE TiedAt(p.inning) /\ S # {}
  <2>1. PICK s \in S : S = {s}
    <3>1. PICK s : s \in S
      BY <1>3
    <3>2. \A t \in S : t = s
      BY <3>1, OneBreak
    <3> QED
      BY <3>1, <3>2
  <2>2. s \in Spots(halves)
    BY DEF BreakPrice
  <2>3. s.at \in 1..Len(halves) /\ s.at \in Nat /\ s = SpotAt(halves, s.at)
    BY <2>2, SpotsAreSpots
  <2>4. s.entry0 \in 1..99
    BY <2>3, SpotType
  <2>5. Bottom8(halves, p) = {B(s, p)} /\ Bottom8(halves, q) = {B(s, q)}
    BY <1>1, <1>3, <2>1 DEF Bottom8
  <2>6. /\ SidePrice(p.side, s.entry0) \in 1..99 /\ SidePrice(q.side, s.entry0) \in 1..99
        /\ SidePrice(q.side, s.entry0) = 100 - SidePrice(p.side, s.entry0)
        /\ p.side # q.side
    BY <2>4, FlippedPrice
  <2>7. \A at \in Nat, price \in 1..99, r \in Params :
           \A side, winner : Bet(at, side, price, r, winner).pnl \in Int
    BY BetType DEF IsTrade
  <2>8. \A r \in Params : SidePrice(r.side, s.entry0) \in 1..99 => B(s, r).pnl \in Int
    <3> SUFFICES ASSUME NEW r \in Params, NEW price, price = SidePrice(r.side, s.entry0), price \in 1..99
                 PROVE  B(s, r).pnl \in Int
      OBVIOUS
    <3> QED
      BY <2>3, <2>7
  <2>9. B(s, p).pnl \in Int /\ B(s, q).pnl \in Int
    BY <1>1, <2>6, <2>8
  <2>10. B(s, p).pnl + B(s, q).pnl <= 0
    BY <2>3, <2>6, PairOfBets
  <2> HIDE DEF B
  <2>11. Pnl({B(s, p)}) = B(s, p).pnl /\ Pnl({B(s, q)}) = B(s, q).pnl
    BY <2>9, PnlOfOne
  <2> QED
    BY <2>5, <2>10, <2>11
<1> QED
  BY <1>2, <1>3

TradeRow == [at : Nat, side : {"home", "away"}, win : BOOLEAN, entry : Int, exit : Int,
             hold : Int, pnl : Int, of : Nat]

LEMMA SplitRow ==
  ASSUME NEW r \in TradeRow, NEW n \in Nat
  PROVE  LET s == [r EXCEPT !.of = n]
         IN  s.pnl = r.pnl /\ s.at = r.at /\ s.of = n /\ s.entry = r.entry /\ s.exit = r.exit /\ s.hold = r.hold
  BY DEF TradeRow

\* A game that is split gains what its trades gain.
LEMMA SplitPays ==
  ASSUME NEW I, IsFiniteSet(I), NEW f, \A i \in I : f[i] \in TradeRow /\ f[i].at = i, NEW p
  PROVE  Pnl(SplitByGame({f[i] : i \in I}, p)) = SumUp([i \in I |-> f[i].pnl], I)
<1> DEFINE W == {f[i] : i \in I}
           N == Cardinality(W)
           g == [i \in I |-> [f[i] EXCEPT !.of = N]]
<1>1. \A i \in I : f[i].pnl \in Int
  BY DEF TradeRow
<1>2. IsFiniteSet(W) /\ Pnl(W) = SumUp([i \in I |-> f[i].pnl], I)
  BY <1>1, PnlByMoment
<1>3. N \in Nat
  BY <1>2, FS_CardinalityType
<1>4. CASE ~ p.perGame
  BY <1>2, <1>4 DEF SplitByGame
<1>5. CASE p.perGame
  <2>1. \A i \in I : g[i].pnl = f[i].pnl /\ g[i].at = i
    <3>1. \A i \in I : g[i] = [f[i] EXCEPT !.of = N]
      OBVIOUS
    <3>2. \A r \in TradeRow : [r EXCEPT !.of = N].pnl = r.pnl /\ [r EXCEPT !.of = N].at = r.at
      BY DEF TradeRow
    <3> HIDE DEF N, g
    <3> QED
      BY <3>1, <3>2
  <2>2. SplitByGame(W, p) = {g[i] : i \in I}
    <3>1. SplitByGame(W, p) = {[r EXCEPT !.of = N] : r \in W}
      BY <1>5 DEF SplitByGame
    <3> HIDE DEF N
    <3>2. {[r EXCEPT !.of = N] : r \in W} = {g[i] : i \in I}
      OBVIOUS
    <3> QED
      BY <3>1, <3>2
  <2> HIDE DEF g
  <2>3. Pnl({g[i] : i \in I}) = SumUp([i \in I |-> g[i].pnl], I)
    <3>1. \A i \in I : g[i].pnl \in Int /\ g[i].at = i
      BY <1>1, <2>1
    <3> QED
      BY <3>1, PnlByMoment
  <2>4. [i \in I |-> g[i].pnl] = [i \in I |-> f[i].pnl]
    BY <2>1
  <2> QED
    BY <2>2, <2>3, <2>4
<1> QED
  BY <1>4, <1>5

LEMMA OneUsableRow ==
  ASSUME NEW rows \in Seq(Rows), NEW n \in UsableRow(rows)
  PROVE  n \in DOMAIN rows /\ UsableRow(rows) = {n}
<1>1. n \in DOMAIN rows
  BY DEF UsableRow, Differ
<1>2. ASSUME NEW m \in UsableRow(rows) PROVE m = n
  <2>1. m \in DOMAIN rows /\ n <= m /\ m <= n
    BY DEF UsableRow, Differ
  <2> QED
    BY <1>1, <2>1
<1> QED
  BY <1>1, <1>2

LEMMA FlippedChoice ==
  ASSUME NEW p \in Params, NEW verdict
  PROVE  /\ ChosenSide(verdict, p) \in {"home", "away"}
         /\ ChosenSide(verdict, Flip(p)) = Other(ChosenSide(verdict, p))
<1>1. Flip(p).which = (IF p.which = "high" THEN "low" ELSE "high") /\ p.which \in {"high", "low"}
  BY FlipKeeps DEF Params
<1>2. CASE p.which = "high"
  BY <1>1, <1>2 DEF ChosenSide, High, Other
<1>3. CASE p.which = "low"
  BY <1>1, <1>3 DEF ChosenSide, High, Other
<1> QED
  BY <1>1, <1>2, <1>3

LEMMA BetIsARow ==
  ASSUME NEW at \in Nat, NEW side \in {"home", "away"}, NEW price \in 1..99, NEW p \in Params, NEW winner
  PROVE  Bet(at, side, price, p, winner) \in TradeRow
<1>1. Held(p, price, side = winner) \in Int
  BY HeldIsAnAmount
<1> QED
  BY <1>1 DEF Bet, TradeRow

Fresh(hs) == {i \in 1..(Len(hs) - 1) : InTheNet(SpotAt(hs, i)) /\ ~ SpotAt(hs, i).stale}

LEMMA FreshSpots ==
  ASSUME NEW hs \in Seq(Half)
  PROVE  /\ {s \in Spots(hs) : ~ s.stale} = {SpotAt(hs, i) : i \in Fresh(hs)}
         /\ IsFiniteSet(Fresh(hs)) /\ Fresh(hs) \subseteq 1..Len(hs) /\ Fresh(hs) \subseteq Nat
<1>1. {s \in Spots(hs) : ~ s.stale} = {SpotAt(hs, i) : i \in Fresh(hs)}
  BY DEF Spots, Fresh
<1>2. Fresh(hs) \in SUBSET (1..(Len(hs) - 1)) /\ Len(hs) - 1 \in Int /\ 1 \in Int
  BY DEF Fresh
<1>3. IsFiniteSet(Fresh(hs))
  BY <1>2, RangeIsFinite
<1> QED
  BY <1>1, <1>2, <1>3

\* The in-game bets of a run before they are split.
InGameWhole(hs, rows, p) ==
    UNION {UNION {Hold(s.at, ChosenSide(rows[n], p), InGamePrice(s, ChosenSide(rows[n], p)), p) :
                    s \in {s \in Spots(hs) : ~s.stale}} : n \in UsableRow(rows)}

LEMMA InGameIsWhole ==
  ASSUME NEW hs, NEW rows, NEW p
  PROVE  InGame(hs, rows, p) = SplitByGame(InGameWhole(hs, rows, p), p)
  BY DEF InGame, InGameWhole

BetAt(hs, i, side, p) == Bet(i, side, InGamePrice(SpotAt(hs, i), side), p, Settlement)

LEMMA NoInGame ==
  ASSUME NEW hs, NEW rows, NEW p, Settlement = "unknown" \/ UsableRow(rows) = {}
  PROVE  InGameWhole(hs, rows, p) = {} /\ Favorite2(rows, p) = {}
<1>1. CASE UsableRow(rows) = {}
  BY <1>1 DEF InGameWhole, Favorite2
<1>2. CASE Settlement = "unknown"
  <2>1. \A at, side, price : Hold(at, side, price, p) = {}
    BY <1>2 DEF Hold
  <2> QED
    BY <2>1 DEF InGameWhole, Favorite2
<1> QED
  BY <1>1, <1>2

LEMMA InGamePriceOf ==
  ASSUME NEW hs \in Seq(Half), NEW i \in Fresh(hs), NEW side \in {"home", "away"}
  PROVE  /\ InGamePrice(SpotAt(hs, i), side) \in 1..99
         /\ InGamePrice(SpotAt(hs, i), Other(side)) = 100 - InGamePrice(SpotAt(hs, i), side)
<1>1. i \in 1..Len(hs)
  BY FreshSpots
<1>2. SpotAt(hs, i).entry0 \in 1..99 /\ SpotAt(hs, i).trailing \in {"home", "away"}
  BY <1>1, SpotType
<1>3. ASSUME NEW s, s.entry0 \in 1..99, s.trailing \in {"home", "away"}
      PROVE  /\ InGamePrice(s, side) \in 1..99
             /\ InGamePrice(s, Other(side)) = 100 - InGamePrice(s, side)
  <2>1. 100 - s.entry0 \in 1..99 /\ s.entry0 = 100 - (100 - s.entry0)
    <3>1. \A x \in 1..99 : 100 - x \in 1..99 /\ x = 100 - (100 - x)
      OBVIOUS
    <3> QED
      BY <1>3, <3>1
  <2>2. CASE s.trailing = side
    <3>1. s.trailing # Other(side)
      BY <2>2 DEF Other
    <3>2. InGamePrice(s, side) = s.entry0 /\ InGamePrice(s, Other(side)) = 100 - s.entry0
      BY <2>2, <3>1 DEF InGamePrice
    <3> QED
      BY <1>3, <3>2
  <2>3. CASE s.trailing # side
    <3>1. s.trailing = Other(side)
      BY <1>3, <2>3 DEF Other
    <3>2. InGamePrice(s, side) = 100 - s.entry0 /\ InGamePrice(s, Other(side)) = s.entry0
      BY <2>3, <3>1 DEF InGamePrice
    <3> QED
      BY <2>1, <3>2
  <2> QED
    BY <2>2, <2>3
<1> QED
  BY <1>2, <1>3

LEMMA SumOfPairs ==
  ASSUME NEW I, IsFiniteSet(I), NEW v \in [I -> Int], NEW w \in [I -> Int],
         \A i \in I : v[i] + w[i] <= 0
  PROVE  SumUp(v, I) + SumUp(w, I) <= 0
<1> DEFINE u == [i \in I |-> v[i] + w[i]]
           lo == 0 - Cardinality(I)
<1>1. SumUp(v, I) + SumUp(w, I) = SumUp(u, I)
  BY SumAdds
<1>2. u \in [I -> Int] /\ \A i \in I : u[i] <= 0
  OBVIOUS
<1>3. SumUp(u, I) <= 0
  <2> HIDE DEF u
  <2> DEFINE B == {s \in SUBSET I : ~ (SumUp(u, s) <= 0)}
  <2>1. {} \notin B
    BY SumOfNone
  <2>2. ASSUME NEW s \in B PROVE \E x \in s : s \ {x} \in B
    <3>1. PICK x \in s : TRUE
      BY <2>1, <2>2
    <3>2. s \in SUBSET I /\ s \ {x} \in SUBSET I
      OBVIOUS
    <3>3. SumUp(u, s) = u[x] + SumUp(u, s \ {x}) /\ SumUp(u, s \ {x}) \in Int
      BY <1>2, <3>1, <3>2, SumStep
    <3>4. u[x] \in Int /\ u[x] <= 0
      BY <1>2, <3>1, <3>2
    <3>5. ~ (SumUp(u, s \ {x}) <= 0)
      BY <2>2, <3>3, <3>4
    <3> QED
      BY <3>1, <3>2, <3>5
  <2>3. B \in SUBSET (SUBSET I)
    OBVIOUS
  <2> HIDE DEF B
  <2>4. B = {}
    BY <2>1, <2>2, <2>3, OfSubset
  <2> QED
    BY <2>4 DEF B
<1> QED
  BY <1>1, <1>3

LEMMA InGameRows ==
  ASSUME NEW hs \in Seq(Half), NEW rows \in Seq(Rows), NEW p \in Params, NEW n \in UsableRow(rows),
         Settlement # "unknown"
  PROVE  /\ \A i \in Fresh(hs) : BetAt(hs, i, ChosenSide(rows[n], p), p) \in InGameWhole(hs, rows, p)
         /\ \A r \in InGameWhole(hs, rows, p) :
               \E i \in Fresh(hs) : r = BetAt(hs, i, ChosenSide(rows[n], p), p)
         /\ \A i \in Fresh(hs) : BetAt(hs, i, ChosenSide(rows[n], p), p) \in TradeRow
                                 /\ BetAt(hs, i, ChosenSide(rows[n], p), p).at = i
         /\ Pnl(InGame(hs, rows, p)) = SumUp([i \in Fresh(hs) |-> BetAt(hs, i, ChosenSide(rows[n], p), p).pnl], Fresh(hs))
<1> DEFINE c == ChosenSide(rows[n], p)
           f == [i \in Fresh(hs) |-> BetAt(hs, i, c, p)]
<1>1. c \in {"home", "away"}
  BY FlippedChoice
<1>2. \A i \in Fresh(hs) : BetAt(hs, i, c, p) \in TradeRow /\ BetAt(hs, i, c, p).at = i
  <2> HIDE DEF c
  <2> SUFFICES ASSUME NEW i \in Fresh(hs) PROVE BetAt(hs, i, c, p) \in TradeRow /\ BetAt(hs, i, c, p).at = i
    OBVIOUS
  <2>1. i \in Nat
    BY FreshSpots
  <2>2. InGamePrice(SpotAt(hs, i), c) \in 1..99
    BY <1>1, InGamePriceOf
  <2>3. BetAt(hs, i, c, p) \in TradeRow
    BY <1>1, <2>1, <2>2, BetIsARow DEF BetAt
  <2> QED
    BY <2>3 DEF BetAt, Bet
<1>3. InGameWhole(hs, rows, p) = {f[i] : i \in Fresh(hs)}
  <2> DEFINE H(s) == Hold(s.at, c, InGamePrice(s, c), p)
             U(m) == UNION {Hold(s.at, ChosenSide(rows[m], p), InGamePrice(s, ChosenSide(rows[m], p)), p) :
                              s \in {s \in Spots(hs) : ~s.stale}}
  <2>1. InGameWhole(hs, rows, p) = UNION {U(m) : m \in {n}}
    BY OneUsableRow DEF InGameWhole
  <2>2. InGameWhole(hs, rows, p) = U(n)
    <3> HIDE DEF U
    <3> QED
      BY <2>1
  <2>3. U(n) = UNION {H(s) : s \in {SpotAt(hs, i) : i \in Fresh(hs)}}
    BY FreshSpots
  <2>4. \A i : SpotAt(hs, i).at = i
    BY DEF SpotAt
  <2>5. \A i \in Fresh(hs) : H(SpotAt(hs, i)) = {f[i]}
    BY <2>4 DEF Hold, BetAt
  <2> HIDE DEF H, U, c, f
  <2>6. {H(s) : s \in {SpotAt(hs, i) : i \in Fresh(hs)}} = {H(SpotAt(hs, i)) : i \in Fresh(hs)}
    OBVIOUS
  <2>7. {H(SpotAt(hs, i)) : i \in Fresh(hs)} = {{f[i]} : i \in Fresh(hs)}
    BY <2>5
  <2>8. UNION {{f[i]} : i \in Fresh(hs)} = {f[i] : i \in Fresh(hs)}
    OBVIOUS
  <2> QED
    BY <2>2, <2>3, <2>6, <2>7, <2>8
<1>4. IsFiniteSet(Fresh(hs)) /\ \A i \in Fresh(hs) : f[i] \in TradeRow /\ f[i].at = i
  BY <1>2, FreshSpots
<1>5. [i \in Fresh(hs) |-> f[i].pnl] = [i \in Fresh(hs) |-> BetAt(hs, i, c, p).pnl]
  OBVIOUS
<1>6. Pnl(SplitByGame({f[i] : i \in Fresh(hs)}, p)) = SumUp([i \in Fresh(hs) |-> f[i].pnl], Fresh(hs))
  <2> HIDE DEF f
  <2> QED
    BY <1>4, SplitPays
<1>7. Pnl(InGame(hs, rows, p)) = SumUp([i \in Fresh(hs) |-> BetAt(hs, i, c, p).pnl], Fresh(hs))
  <2> HIDE DEF f, c
  <2> QED
    BY <1>3, <1>5, <1>6, InGameIsWhole
<1>8. /\ \A i \in Fresh(hs) : BetAt(hs, i, c, p) \in InGameWhole(hs, rows, p)
      /\ \A r \in InGameWhole(hs, rows, p) : \E i \in Fresh(hs) : r = BetAt(hs, i, c, p)
  <2>1. \A i \in Fresh(hs) : f[i] = BetAt(hs, i, c, p)
    OBVIOUS
  <2> HIDE DEF f, c
  <2> QED
    BY <1>3, <2>1
<1> QED
  BY <1>2, <1>7, <1>8

LEMMA InGameCosts ==
  ASSUME NEW hs \in Seq(Half), NEW rows \in Seq(Rows), NEW p \in Params
  PROVE  Pnl(InGame(hs, rows, p)) + Pnl(InGame(hs, rows, Flip(p))) <= 0
<1> DEFINE q == Flip(p)
<1>0. q \in Params
  BY FlipKeeps
<1>1. CASE Settlement = "unknown" \/ UsableRow(rows) = {}
  <2>1. InGameWhole(hs, rows, p) = {} /\ InGameWhole(hs, rows, q) = {}
    BY <1>1, NoInGame
  <2>2. SplitByGame({}, p) = {} /\ SplitByGame({}, q) = {}
    BY DEF SplitByGame
  <2>3. InGame(hs, rows, p) = {} /\ InGame(hs, rows, q) = {}
    BY <2>1, <2>2, InGameIsWhole
  <2> QED
    BY <2>3, PnlOfNone
<1>2. CASE Settlement # "unknown" /\ UsableRow(rows) # {}
  <2>1. PICK n : n \in UsableRow(rows)
    BY <1>2
  <2> DEFINE a == ChosenSide(rows[n], p)
             b == ChosenSide(rows[n], q)
             I == Fresh(hs)
             v == [i \in I |-> BetAt(hs, i, a, p).pnl]
             w == [i \in I |-> BetAt(hs, i, b, q).pnl]
  <2>2. /\ Pnl(InGame(hs, rows, p)) = SumUp(v, I)
        /\ \A i \in I : BetAt(hs, i, a, p) \in TradeRow
    BY <1>2, <2>1, InGameRows
  <2>3. /\ Pnl(InGame(hs, rows, q)) = SumUp(w, I)
        /\ \A i \in I : BetAt(hs, i, b, q) \in TradeRow
    BY <1>0, <1>2, <2>1, InGameRows
  <2>4. v \in [I -> Int] /\ w \in [I -> Int]
    BY <2>2, <2>3 DEF TradeRow
  <2>5. a \in {"home", "away"} /\ b = Other(a) /\ a # b
    <3>1. a \in {"home", "away"} /\ b = Other(a)
      BY FlippedChoice
    <3> QED
      BY <3>1 DEF Other
  <2>6. ASSUME NEW i \in I PROVE v[i] + w[i] <= 0
    <3>1. i \in Nat
      BY FreshSpots
    <3> DEFINE x == InGamePrice(SpotAt(hs, i), a)
    <3>2. x \in 1..99 /\ InGamePrice(SpotAt(hs, i), b) = 100 - x
      BY <2>5, InGamePriceOf
    <3>3. v[i] = Bet(i, a, x, p, Settlement).pnl /\ w[i] = Bet(i, b, 100 - x, q, Settlement).pnl
      BY <3>2 DEF BetAt
    <3> HIDE DEF a, b, x, v, w
    <3> QED
      BY <2>5, <3>1, <3>2, <3>3, PairOfBets
  <2>7. IsFiniteSet(I)
    BY FreshSpots
  <2>8. SumUp(v, I) + SumUp(w, I) <= 0
    <3> HIDE DEF v, w, I
    <3> QED
      BY <2>4, <2>6, <2>7, SumOfPairs
  <2> QED
    BY <2>2, <2>3, <2>8
<1> QED
  BY <1>1, <1>2

LEMMA Favorite2Form ==
  ASSUME NEW rows \in Seq(Rows), NEW p \in Params, NEW n \in UsableRow(rows),
         Settlement # "unknown"
  PROVE  LET c == ChosenSide(rows[n], p)
             r == Bet(0, c, T5(rows[n], c), p, Settlement)
         IN  /\ Favorite2(rows, p) = {r} /\ r \in TradeRow /\ T5(rows[n], c) \in 1..99
<1> DEFINE c == ChosenSide(rows[n], p)
           H(m) == Hold(0, ChosenSide(rows[m], p), T5(rows[m], ChosenSide(rows[m], p)), p)
<1>1. Favorite2(rows, p) = UNION {H(m) : m \in {n}}
  BY OneUsableRow DEF Favorite2
<1>2. UNION {H(m) : m \in {n}} = H(n)
  <2> HIDE DEF H
  <2> QED
    OBVIOUS
<1>3. H(n) = {Bet(0, c, T5(rows[n], c), p, Settlement)}
  BY DEF Hold
<1>4. rows[n].price \in 1..99
  <2>1. rows[n] \in Rows
    BY OneUsableRow
  <2> QED
    BY <2>1 DEF Rows
<1>5. T5(rows[n], c) \in 1..99
  <2>1. \A x \in 1..99 : 100 - x \in 1..99
    OBVIOUS
  <2> HIDE DEF c
  <2> QED
    BY <1>4, <2>1 DEF T5, SidePrice
<1>6. c \in {"home", "away"}
  BY FlippedChoice
<1> HIDE DEF c
<1>7. Bet(0, c, T5(rows[n], c), p, Settlement) \in TradeRow
  BY <1>5, <1>6, BetIsARow
<1> QED
  BY <1>1, <1>2, <1>3, <1>5, <1>7 DEF c

LEMMA Favorite2Costs ==
  ASSUME NEW rows \in Seq(Rows), NEW p \in Params
  PROVE  Pnl(Favorite2(rows, p)) + Pnl(Favorite2(rows, Flip(p))) <= 0
<1> DEFINE q == Flip(p)
<1>0. q \in Params
  BY FlipKeeps
<1>1. CASE Settlement = "unknown" \/ UsableRow(rows) = {}
  <2>1. Favorite2(rows, p) = {} /\ Favorite2(rows, q) = {}
    BY <1>1, NoInGame
  <2> QED
    BY <2>1, PnlOfNone
<1>2. CASE Settlement # "unknown" /\ UsableRow(rows) # {}
  <2>1. PICK n : n \in UsableRow(rows)
    BY <1>2
  <2> DEFINE a == ChosenSide(rows[n], p)
             b == ChosenSide(rows[n], q)
             x == T5(rows[n], a)
             r == Bet(0, a, x, p, Settlement)
             s == Bet(0, b, T5(rows[n], b), q, Settlement)
  <2>2. Favorite2(rows, p) = {r} /\ r \in TradeRow /\ x \in 1..99
    BY <1>2, <2>1, Favorite2Form
  <2>3. Favorite2(rows, q) = {s} /\ s \in TradeRow
    BY <1>0, <1>2, <2>1, Favorite2Form
  <2>4. a \in {"home", "away"} /\ b = Other(a) /\ a # b
    <3>1. a \in {"home", "away"} /\ b = Other(a)
      BY FlippedChoice
    <3> QED
      BY <3>1 DEF Other
  <2>5. T5(rows[n], b) = 100 - x
    <3>1. rows[n] \in Rows
      BY <2>1, OneUsableRow
    <3>2. rows[n].price \in 1..99
      BY <3>1 DEF Rows
    <3> HIDE DEF a, b
    <3> QED
      BY <2>4, <3>2, SideComplement DEF T5
  <2>6. r.pnl + s.pnl <= 0
    <3>1. s = Bet(0, b, 100 - x, q, Settlement) /\ 0 \in Nat
      BY <2>5
    <3> HIDE DEF a, b, x
    <3> QED
      BY <2>2, <2>4, <3>1, PairOfBets
  <2> HIDE DEF r, s
  <2>7. r.pnl \in Int /\ s.pnl \in Int
    BY <2>2, <2>3 DEF TradeRow
  <2>8. Pnl({r}) = r.pnl /\ Pnl({s}) = s.pnl
    BY <2>7, PnlOfOne
  <2> QED
    BY <2>2, <2>3, <2>6, <2>8
<1> QED
  BY <1>1, <1>2

LEMMA ReportIs ==
  ASSUME RunInv, report # NoReport
  PROVE  /\ halves \in Seq(Half) /\ ended # Playing
         /\ report.params \in Params /\ report.params \in Setting
         /\ report.rows \in Seq(Rows) /\ report.rows \in Verdicts
         /\ report = ReportOf(report.params, report.rows)
         /\ report.kind = report.params.kind
         /\ report.trades = Trades(halves, report.rows, report.params)
         /\ report.inGame = IF report.params.kind = "favorite2"
                            THEN InGame(halves, report.rows, report.params) ELSE {}
<1>1. PICK p \in Setting, rows \in Verdicts : report = ReportOf(p, rows)
  BY DEF RunInv, ReportInv
<1>2. report.params = p /\ report.rows = rows
  BY <1>1 DEF ReportOf
<1>3. report.kind = p.kind /\ report.trades = Trades(halves, rows, p)
      /\ report.inGame = IF p.kind = "favorite2" THEN InGame(halves, rows, p) ELSE {}
  BY <1>1 DEF ReportOf
<1> QED
  BY <1>1, <1>2, <1>3, SettingAssumption, VerdictAssumption DEF RunInv, GameInv, ReportInv


LEMMA NoFreeMoneyFollows == RunInv => NoFreeMoney
<1> SUFFICES ASSUME RunInv, report.kind \in {"bottom8", "favorite2"}
             PROVE  /\ Pnl(report.trades) + Pnl(Trades(halves, report.rows, Flip(report.params))) <= 0
                    /\ report.kind = "favorite2" =>
                          Pnl(report.inGame) + Pnl(InGame(halves, report.rows, Flip(report.params))) <= 0
  BY DEF NoFreeMoney
<1> DEFINE p == report.params
           q == Flip(p)
           rows == report.rows
<1>0. report # NoReport
  BY DEF NoReport
<1>1. /\ halves \in Seq(Half) /\ p \in Params /\ rows \in Seq(Rows)
      /\ report.kind = p.kind /\ report.trades = Trades(halves, rows, p)
      /\ report.inGame = IF p.kind = "favorite2" THEN InGame(halves, rows, p) ELSE {}
  BY <1>0, ReportIs
<1>2. q.kind = p.kind
  BY <1>1, FlipKeeps
<1>3. CASE p.kind = "bottom8"
  <2>1. Trades(halves, rows, p) = Bottom8(halves, p) /\ Trades(halves, rows, q) = Bottom8(halves, q)
    BY <1>2, <1>3 DEF Trades
  <2>2. Pnl(Bottom8(halves, p)) + Pnl(Bottom8(halves, q)) <= 0
    BY <1>1, Bottom8Costs
  <2> QED
    BY <1>1, <1>3, <2>1, <2>2
<1>4. CASE p.kind = "favorite2"
  <2>1. Trades(halves, rows, p) = Favorite2(rows, p) /\ Trades(halves, rows, q) = Favorite2(rows, q)
    BY <1>2, <1>4 DEF Trades
  <2>2. Pnl(Favorite2(rows, p)) + Pnl(Favorite2(rows, q)) <= 0
    BY <1>1, Favorite2Costs
  <2>3. Pnl(InGame(halves, rows, p)) + Pnl(InGame(halves, rows, q)) <= 0
    BY <1>1, InGameCosts
  <2> QED
    BY <1>1, <1>4, <2>1, <2>2, <2>3
<1> QED
  BY <1>1, <1>3, <1>4

\* run_bottom8 and run_favorite2 sell no side of a game below its complement.
THEOREM NoFreeMoneyCorrect == RunSpec => []NoFreeMoney
  BY RunInvInit, RunInvInductive, NoFreeMoneyFollows, PTL DEF RunSpec

\* A split game gains no more than its best trade would alone and no less than its worst.
LEMMA StakeWithin ==
  ASSUME NEW I, IsFiniteSet(I), NEW f, \A i \in I : f[i] \in TradeRow /\ f[i].at = i,
         NEW p, p.perGame
  PROVE  Within(SplitByGame({f[i] : i \in I}, p), {f[i] : i \in I})
<1> DEFINE W == {f[i] : i \in I}
           N == Cardinality(W)
           T == SplitByGame(W, p)
           v == [r \in W |-> r.pnl]
           P == {v[r] : r \in W}
<1>1. \A i \in I : f[i].pnl \in Int
  BY DEF TradeRow
<1>2. IsFiniteSet(W) /\ Pnl(W) = SumUp([i \in I |-> f[i].pnl], I)
  BY <1>1, PnlByMoment
<1>3. Pnl(T) = SumUp([i \in I |-> f[i].pnl], I)
  BY SplitPays
<1>4. W \subseteq TradeRow /\ v \in [W -> Int] /\ \A r \in W : v[r] = r.pnl
  BY DEF TradeRow
<1>5. N \in Nat
  BY <1>2, FS_CardinalityType
<1>6. \A t \in T : t.of = N
  <2>1. T = {[r EXCEPT !.of = N] : r \in W}
    BY DEF SplitByGame
  <2> HIDE DEF N, W, T
  <2>2. \A r \in W : [r EXCEPT !.of = N].of = N
    BY <1>4 DEF TradeRow
  <2> QED
    BY <2>1, <2>2
<1>7. T # {} => W # {}
  BY DEF SplitByGame
<1>8. Pnl(W) = SumUp(v, W)
  <2>1. \A r \in W : r.pnl \in Int
    BY <1>4 DEF TradeRow
  <2> HIDE DEF W
  <2> QED
    BY <1>2, <2>1, PnlIsSum
<1>9. IsFiniteSet(P) /\ P \subseteq Int
  <2> HIDE DEF W, v
  <2>1. IsFiniteSet(P)
    BY <1>2, ImageIsFinite
  <2> QED
    BY <1>4, <2>1
<1>10. ASSUME T # {} PROVE \E r, q \in W : \A t \in T : t.of * r.pnl <= Pnl(T) /\ Pnl(T) <= t.of * q.pnl
  <2>1. P # {}
    BY <1>7, <1>10
  <2> HIDE DEF W, T, v, N
  <2>2. /\ Min(P) \in P /\ \A x \in P : Min(P) <= x
        /\ Max(P) \in P /\ \A x \in P : x <= Max(P)
    <3> HIDE DEF P
    <3> QED
      BY <1>9, <2>1, HasBounds
  <2>3. PICK r \in W : v[r] = Min(P)
    BY <2>2
  <2>4. PICK q \in W : v[q] = Max(P)
    BY <2>2
  <2>5. \A x \in W : v[r] <= v[x] /\ v[x] <= v[q]
    BY <2>2, <2>3, <2>4
  <2>6. v[r] \in Int /\ v[q] \in Int
    BY <1>4
  <2>7. N * v[r] <= SumUp(v, W) /\ SumUp(v, W) <= N * v[q]
    BY <1>2, <1>4, <2>5, <2>6, SumBetween DEF N
  <2>8. Pnl(T) = SumUp(v, W) /\ r.pnl = v[r] /\ q.pnl = v[q]
    BY <1>2, <1>3, <1>4, <1>8
  <2> QED
    BY <1>6, <2>7, <2>8
<1> HIDE DEF W, T
<1>11. Within(T, W)
  BY <1>10 DEF Within
<1> QED
  BY <1>11 DEF T, W

Whole(p) == [p EXCEPT !.perGame = FALSE]

LEMMA WholeKeeps ==
  ASSUME NEW p \in Params
  PROVE  /\ Whole(p) \in Params /\ Whole(p).perGame = FALSE
         /\ Whole(p).kind = p.kind /\ Whole(p).slip = p.slip /\ Whole(p).fee = p.fee
         /\ Whole(p).inning = p.inning /\ Whole(p).side = p.side /\ Whole(p).fair = p.fair
         /\ Whole(p).discount = p.discount /\ Whole(p).exit = p.exit /\ Whole(p).which = p.which
         /\ Whole(p).delay = p.delay /\ Whole(p).target = p.target /\ Whole(p).horizon = p.horizon
  BY DEF Whole, Params

LEMMA SameBet ==
  ASSUME NEW p, NEW q, q.slip = p.slip, q.fee = p.fee, NEW at, NEW side, NEW price, NEW winner
  PROVE  Bet(at, side, price, q, winner) = Bet(at, side, price, p, winner)
  BY DEF Bet, Held, Bought, EntryFee

LEMMA SamePathTrade ==
  ASSUME NEW s, NEW p, NEW q, q.slip = p.slip, q.fee = p.fee, q.delay = p.delay,
         q.target = p.target, q.horizon = p.horizon, q.giveUp = p.giveUp
  PROVE  PathTrade(s, q) = PathTrade(s, p)
<1>1. Horizon(q) = Horizon(p)
  BY DEF Horizon
<1>2. Seen(s, q) = Seen(s, p)
  BY <1>1 DEF Seen
<1>3. \A price, exit : SoldFor(q, price, exit) = SoldFor(p, price, exit)
  BY DEF SoldFor, ExitFee, EntryFee, Bought
<1> QED
  BY <1>1, <1>2, <1>3 DEF PathTrade

LEMMA PathTradeIsARow ==
  ASSUME NEW hs \in Seq(Half), NEW s \in Spots(hs), NEW p \in Params
  PROVE  PathTrade(s, p) \in TradeRow /\ PathTrade(s, p).at = s.at
<1> DEFINE r == PathTrade(s, p)
<1>1. IsTrade(r) /\ r.of = 1 /\ r.at = s.at
  BY PathTradeType
<1>2. s.at \in 1..Len(hs) /\ s = SpotAt(hs, s.at)
  BY SpotsAreSpots
<1>3. s.trailing \in {"home", "away"}
  <2>1. \A i \in 1..Len(hs) : SpotAt(hs, i).trailing \in {"home", "away"}
    BY SpotType
  <2> QED
    BY <1>2, <2>1
<1> DEFINE won == Hits(s, p) # {}
           Row(win, entry, exit, hold, pnl) ==
               [at |-> s.at, side |-> s.trailing, win |-> win, entry |-> entry, exit |-> exit,
                hold |-> hold, pnl |-> pnl, of |-> 1]
<1>4. r = Row(won, r.entry, r.exit, r.hold, r.pnl)
  BY DEF PathTrade, Hits
<1>5. r.entry \in Int /\ r.exit \in Int /\ r.hold \in Int /\ r.pnl \in Int /\ s.at \in Nat
  <2>1. \A x : IsTrade(x) => x.entry \in Int /\ x.exit \in Int /\ x.hold \in Int /\ x.pnl \in Int
    <3>1. (\A y \in 1..99 : y \in Int) /\ (\A y \in 0..100 : y \in Int) /\ (\A y \in 0..6 : y \in Int)
      OBVIOUS
    <3> QED
      BY <3>1, Zenon DEF IsTrade
  <2>2. s.at \in Nat
    BY <1>2
  <2> HIDE DEF r
  <2> QED
    BY <1>1, <2>1, <2>2
<1>6. \A entry, exit, hold, pnl \in Int : Row(won, entry, exit, hold, pnl) \in TradeRow
  BY <1>3, <1>5 DEF TradeRow
<1> HIDE DEF r, Row, won
<1>7. r \in TradeRow
  BY <1>4, <1>5, <1>6
<1> QED
  BY <1>1, <1>7 DEF r

Moments(hs, p) == {i \in 1..(Len(hs) - 1) : SpotAt(hs, i) \in Entries(hs, p)}

LEMMA EntryMoments ==
  ASSUME NEW hs \in Seq(Half), NEW p
  PROVE  /\ Entries(hs, p) = {SpotAt(hs, i) : i \in Moments(hs, p)}
         /\ IsFiniteSet(Moments(hs, p)) /\ Moments(hs, p) \subseteq 1..Len(hs) /\ Moments(hs, p) \subseteq Nat
<1>1. Entries(hs, p) \subseteq Spots(hs) /\ Spots(hs) \subseteq {SpotAt(hs, i) : i \in 1..(Len(hs) - 1)}
  BY DEF Entries, Spots
<1>2. Entries(hs, p) = {SpotAt(hs, i) : i \in Moments(hs, p)}
  BY <1>1 DEF Moments
<1>3. Moments(hs, p) \in SUBSET (1..(Len(hs) - 1)) /\ Len(hs) - 1 \in Int /\ 1 \in Int
  BY DEF Moments
<1>4. IsFiniteSet(Moments(hs, p))
  BY <1>3, RangeIsFinite
<1> QED
  BY <1>2, <1>3, <1>4

HoldAt(hs, i, p) == Bet(i, SpotAt(hs, i).trailing, SpotAt(hs, i).entry0, p, Settlement)

\* The trades of a fair-value run are those of its entries, under either exit.
LEMMA FairValueStake ==
  ASSUME NEW hs \in Seq(Half), NEW p \in Params, p.perGame
  PROVE  Within(FairValue(hs, p), FairValue(hs, Whole(p)))
<1> DEFINE w == Whole(p)
           I == Moments(hs, p)
           b(x) == [x EXCEPT !.giveUp = "horizon"]
           f == IF p.exit = "hold" THEN [i \in I |-> HoldAt(hs, i, p)]
                ELSE [i \in I |-> PathTrade(SpotAt(hs, i), b(p))]
           X(x) == IF x.exit = "hold" THEN HoldResults(hs, x) ELSE BounceResults(hs, x)
<1>0. /\ w \in Params /\ w.perGame = FALSE /\ w.exit = p.exit
      /\ w.slip = p.slip /\ w.fee = p.fee
  BY WholeKeeps
<1>1. Entries(hs, w) = Entries(hs, p)
  BY WholeKeeps DEF Entries, OnSide
<1>2. b(p) \in Params /\ b(w).giveUp = b(p).giveUp /\ b(w).slip = b(p).slip /\ b(w).fee = b(p).fee
      /\ b(w).delay = b(p).delay /\ b(w).target = b(p).target /\ b(w).horizon = b(p).horizon
  BY <1>0, WholeKeeps DEF Params
<1>3. BounceResults(hs, w) = BounceResults(hs, p)
  <2>1. \A s : PathTrade(s, b(w)) = PathTrade(s, b(p))
    <3> HIDE DEF b
    <3> QED
      BY <1>2, SamePathTrade
  <2> QED
    BY <1>1, <2>1 DEF BounceResults
<1>4. HoldResults(hs, w) = HoldResults(hs, p)
  <2>1. \A at, side, price : Hold(at, side, price, w) = Hold(at, side, price, p)
    <3> SUFFICES ASSUME NEW at, NEW side, NEW price PROVE Hold(at, side, price, w) = Hold(at, side, price, p)
      OBVIOUS
    <3> HIDE DEF w
    <3>1. Bet(at, side, price, w, Settlement) = Bet(at, side, price, p, Settlement)
      BY <1>0, SameBet
    <3> QED
      BY <3>1 DEF Hold
  <2> QED
    BY <1>1, <2>1 DEF HoldResults
<1>5. FairValue(hs, w) = X(p)
  <2>1. X(w) = X(p)
    BY <1>0, <1>3, <1>4
  <2>2. FairValue(hs, w) = SplitByGame(X(w), w)
    BY DEF FairValue
  <2> QED
    BY <1>0, <2>1, <2>2 DEF SplitByGame
<1>6. FairValue(hs, p) = SplitByGame(X(p), p)
  BY DEF FairValue
<1>7. \A i \in I : i \in 1..Len(hs) /\ i \in Nat /\ SpotAt(hs, i).at = i /\ SpotAt(hs, i) \in Spots(hs)
  BY EntryMoments DEF Moments, Entries, SpotAt
<1>8. CASE p.exit = "hold" /\ Settlement = "unknown"
  <2>1. HoldResults(hs, p) = {}
    <3>1. \A at, side, price : Hold(at, side, price, p) = {}
      BY <1>8 DEF Hold
    <3> QED
      BY <3>1 DEF HoldResults
  <2>2. FairValue(hs, p) = {}
    BY <1>6, <1>8, <2>1 DEF SplitByGame
  <2> QED
    BY <2>2 DEF Within
<1>9. CASE p.exit = "hold" /\ Settlement # "unknown"
  <2> DEFINE g == [i \in I |-> HoldAt(hs, i, p)]
  <2>1. X(p) = {g[i] : i \in I}
    <3> DEFINE H(s) == Hold(s.at, s.trailing, s.entry0, p)
    <3>1. HoldResults(hs, p) = UNION {H(s) : s \in {SpotAt(hs, i) : i \in I}}
      BY EntryMoments DEF HoldResults
    <3>2. \A i \in I : H(SpotAt(hs, i)) = {g[i]}
      BY <1>7, <1>9 DEF Hold, HoldAt
    <3>3. X(p) = HoldResults(hs, p)
      BY <1>9
    <3> HIDE DEF H, g, X, I
    <3>4. {H(s) : s \in {SpotAt(hs, i) : i \in I}} = {H(SpotAt(hs, i)) : i \in I}
      OBVIOUS
    <3>5. {H(SpotAt(hs, i)) : i \in I} = {{g[i]} : i \in I}
      BY <3>2
    <3>6. UNION {{g[i]} : i \in I} = {g[i] : i \in I}
      OBVIOUS
    <3> QED
      BY <3>1, <3>3, <3>4, <3>5, <3>6
  <2>2. ASSUME NEW i \in I PROVE g[i] \in TradeRow /\ g[i].at = i
    <3>1. i \in 1..Len(hs) /\ i \in Nat
      BY <1>7
    <3>2. SpotAt(hs, i).trailing \in {"home", "away"} /\ SpotAt(hs, i).entry0 \in 1..99
      BY <3>1, SpotType
    <3>3. HoldAt(hs, i, p) \in TradeRow
      BY <3>1, <3>2, BetIsARow DEF HoldAt
    <3> QED
      BY <3>3 DEF HoldAt, Bet
  <2>3. IsFiniteSet(I)
    BY EntryMoments
  <2>4. Within(SplitByGame({g[i] : i \in I}, p), {g[i] : i \in I})
    <3> HIDE DEF g, I
    <3> QED
      BY <2>2, <2>3, StakeWithin
  <2> HIDE DEF g, X, I, w
  <2> QED
    BY <1>5, <1>6, <2>1, <2>4 DEF w
<1>10. CASE p.exit # "hold"
  <2> DEFINE g == [i \in I |-> PathTrade(SpotAt(hs, i), b(p))]
  <2>1. X(p) = {g[i] : i \in I}
    <3>1. BounceResults(hs, p) = {PathTrade(s, b(p)) : s \in {SpotAt(hs, i) : i \in I}}
      BY EntryMoments DEF BounceResults
    <3>2. X(p) = BounceResults(hs, p)
      BY <1>10
    <3> HIDE DEF X, I, b
    <3> QED
      BY <3>1, <3>2
  <2>2. ASSUME NEW i \in I PROVE g[i] \in TradeRow /\ g[i].at = i
    <3>1. PathTrade(SpotAt(hs, i), b(p)) \in TradeRow /\ PathTrade(SpotAt(hs, i), b(p)).at = SpotAt(hs, i).at
      <4> HIDE DEF b
      <4> QED
        BY <1>2, <1>7, PathTradeIsARow
    <3> QED
      BY <1>7, <3>1
  <2>3. IsFiniteSet(I)
    BY EntryMoments
  <2>4. Within(SplitByGame({g[i] : i \in I}, p), {g[i] : i \in I})
    <3> HIDE DEF g, I
    <3> QED
      BY <2>2, <2>3, StakeWithin
  <2> HIDE DEF g, X, I, w
  <2> QED
    BY <1>5, <1>6, <2>1, <2>4 DEF w
<1> QED
  BY <1>8, <1>9, <1>10

LEMMA InGameStake ==
  ASSUME NEW hs \in Seq(Half), NEW rows \in Seq(Rows), NEW p \in Params, p.perGame
  PROVE  Within(InGame(hs, rows, p), InGame(hs, rows, Whole(p)))
<1> DEFINE w == Whole(p)
<1>0. w \in Params /\ w.perGame = FALSE /\ w.slip = p.slip /\ w.fee = p.fee /\ w.which = p.which
  BY WholeKeeps
<1>1. \A verdict : ChosenSide(verdict, w) = ChosenSide(verdict, p)
  BY <1>0 DEF ChosenSide
<1>2. CASE Settlement = "unknown" \/ UsableRow(rows) = {}
  <2>1. InGameWhole(hs, rows, p) = {}
    BY <1>2, NoInGame
  <2>2. InGame(hs, rows, p) = {}
    BY <2>1, InGameIsWhole DEF SplitByGame
  <2> QED
    BY <2>2 DEF Within
<1>3. CASE Settlement # "unknown" /\ UsableRow(rows) # {}
  <2>1. PICK n : n \in UsableRow(rows)
    BY <1>3
  <2> DEFINE I == Fresh(hs)
             c == ChosenSide(rows[n], p)
             f == [i \in I |-> BetAt(hs, i, c, p)]
             g == [i \in I |-> BetAt(hs, i, ChosenSide(rows[n], w), w)]
  <2>2. InGameWhole(hs, rows, p) = {f[i] : i \in I} /\ \A i \in I : f[i] \in TradeRow /\ f[i].at = i
    <3>1. /\ \A i \in I : BetAt(hs, i, c, p) \in TradeRow /\ BetAt(hs, i, c, p).at = i
          /\ \A i \in I : BetAt(hs, i, c, p) \in InGameWhole(hs, rows, p)
          /\ \A r \in InGameWhole(hs, rows, p) : \E i \in I : r = BetAt(hs, i, c, p)
      BY <1>3, <2>1, InGameRows
    <3>2. \A i \in I : f[i] = BetAt(hs, i, c, p)
      OBVIOUS
    <3> HIDE DEF f, c
    <3> QED
      BY <3>1, <3>2
  <2>3. InGameWhole(hs, rows, w) = {g[i] : i \in I}
    <3>1. /\ \A i \in I : BetAt(hs, i, ChosenSide(rows[n], w), w) \in InGameWhole(hs, rows, w)
          /\ \A r \in InGameWhole(hs, rows, w) : \E i \in I : r = BetAt(hs, i, ChosenSide(rows[n], w), w)
      <4> HIDE DEF w
      <4> QED
        BY <1>0, <1>3, <2>1, InGameRows
    <3>2. \A i \in I : g[i] = BetAt(hs, i, ChosenSide(rows[n], w), w)
      OBVIOUS
    <3> HIDE DEF g, w
    <3> QED
      BY <3>1, <3>2
  <2>4. \A i \in I : g[i] = f[i]
    <3> SUFFICES ASSUME NEW i \in I PROVE BetAt(hs, i, ChosenSide(rows[n], w), w) = BetAt(hs, i, c, p)
      OBVIOUS
    <3> HIDE DEF w, c
    <3>1. ChosenSide(rows[n], w) = c
      BY <1>1 DEF c
    <3>2. BetAt(hs, i, c, w) = BetAt(hs, i, c, p)
      BY <1>0, SameBet DEF BetAt
    <3> QED
      BY <3>1, <3>2
  <2>5. {g[i] : i \in I} = {f[i] : i \in I}
    <3> HIDE DEF f, g
    <3> QED
      BY <2>4
  <2>6. InGame(hs, rows, w) = {f[i] : i \in I}
    <3>1. InGame(hs, rows, w) = InGameWhole(hs, rows, w)
      BY <1>0, InGameIsWhole DEF SplitByGame
    <3> HIDE DEF f, g, I, w
    <3> QED
      BY <2>3, <2>5, <3>1
  <2>7. InGame(hs, rows, p) = SplitByGame({f[i] : i \in I}, p)
    <3> HIDE DEF f, g, I, w
    <3> QED
      BY <2>2, InGameIsWhole
  <2>8. IsFiniteSet(I)
    BY FreshSpots
  <2>9. Within(SplitByGame({f[i] : i \in I}, p), {f[i] : i \in I})
    <3> HIDE DEF f, I
    <3> QED
      BY <2>2, <2>8, StakeWithin
  <2> HIDE DEF f, g, I, w
  <2> QED
    BY <2>6, <2>7, <2>9 DEF w
<1> QED
  BY <1>2, <1>3

LEMMA Favorite2Stake ==
  ASSUME NEW rows \in Seq(Rows), NEW p \in Params
  PROVE  Within(Favorite2(rows, p), Favorite2(rows, Whole(p)))
<1> DEFINE w == Whole(p)
<1>0. w \in Params /\ w.slip = p.slip /\ w.fee = p.fee /\ w.which = p.which
  BY WholeKeeps
<1>1. CASE Settlement = "unknown" \/ UsableRow(rows) = {}
  <2>1. Favorite2(rows, p) = {}
    BY <1>1, NoInGame
  <2> QED
    BY <2>1 DEF Within
<1>2. CASE Settlement # "unknown" /\ UsableRow(rows) # {}
  <2>1. PICK n : n \in UsableRow(rows)
    BY <1>2
  <2> DEFINE c == ChosenSide(rows[n], p)
             r == Bet(0, c, T5(rows[n], c), p, Settlement)
             q == Bet(0, c, T5(rows[n], c), w, Settlement)
  <2>2. Favorite2(rows, p) = {r} /\ r \in TradeRow
    BY <1>2, <2>1, Favorite2Form
  <2>3. Favorite2(rows, w) = {q}
    <3>1. ChosenSide(rows[n], w) = c
      BY <1>0 DEF ChosenSide
    <3>2. Favorite2(rows, w) = {Bet(0, ChosenSide(rows[n], w), T5(rows[n], ChosenSide(rows[n], w)), w, Settlement)}
      <4> HIDE DEF w
      <4> QED
        BY <1>0, <1>2, <2>1, Favorite2Form
    <3> HIDE DEF c, w
    <3> QED
      BY <3>1, <3>2
  <2>4. q = r
    <3> HIDE DEF c, w
    <3> QED
      BY <1>0, SameBet
  <2>5. r.of = 1
    BY DEF Bet
  <2> HIDE DEF r, q
  <2>6. r.pnl \in Int
    BY <2>2 DEF TradeRow
  <2>7. Pnl({r}) = r.pnl
    BY <2>6, PnlOfOne
  <2>8. 1 * r.pnl = r.pnl
    BY <2>6
  <2> QED
    BY <2>2, <2>3, <2>4, <2>5, <2>6, <2>7, <2>8 DEF Within
<1> QED
  BY <1>1, <1>2


LEMMA OneStakePerGameFollows == RunInv => OneStakePerGame
<1> DEFINE p == report.params
           rows == report.rows
<1> SUFFICES ASSUME RunInv, report # NoReport, report.kind \in {"fairvalue", "favorite2"}, p.perGame
             PROVE  /\ Within(report.trades, Trades(halves, rows, Whole(p)))
                    /\ Within(report.inGame, InGame(halves, rows, Whole(p)))
  BY DEF OneStakePerGame, Whole
<1>1. /\ halves \in Seq(Half) /\ p \in Params /\ rows \in Seq(Rows)
      /\ report.kind = p.kind /\ report.trades = Trades(halves, rows, p)
      /\ report.inGame = IF p.kind = "favorite2" THEN InGame(halves, rows, p) ELSE {}
  BY ReportIs
<1>2. Whole(p).kind = p.kind
  BY <1>1, WholeKeeps
<1> HIDE DEF p, rows
<1>3. CASE p.kind = "fairvalue"
  <2>1. report.trades = FairValue(halves, p) /\ Trades(halves, rows, Whole(p)) = FairValue(halves, Whole(p))
        /\ report.inGame = {}
    BY <1>1, <1>2, <1>3 DEF Trades
  <2>2. Within(FairValue(halves, p), FairValue(halves, Whole(p)))
    BY <1>1, FairValueStake
  <2> QED
    BY <2>1, <2>2 DEF Within
<1>4. CASE p.kind = "favorite2"
  <2>1. report.trades = Favorite2(rows, p) /\ Trades(halves, rows, Whole(p)) = Favorite2(rows, Whole(p))
        /\ report.inGame = InGame(halves, rows, p)
    BY <1>1, <1>2, <1>4 DEF Trades
  <2>2. Within(Favorite2(rows, p), Favorite2(rows, Whole(p)))
    BY <1>1, Favorite2Stake
  <2>3. Within(InGame(halves, rows, p), InGame(halves, rows, Whole(p)))
    BY <1>1, InGameStake
  <2> QED
    BY <2>1, <2>2, <2>3
<1> QED
  BY <1>1, <1>3, <1>4

\* engine._split_by_game: whatever the entries of a game that is split, it gains
\* no more than the best of them alone and no less than the worst.
THEOREM OneStakePerGameCorrect == RunSpec => []OneStakePerGame
  BY RunInvInit, RunInvInductive, OneStakePerGameFollows, PTL DEF RunSpec

LEMMA SplitTypes ==
  ASSUME NEW W, IsFiniteSet(W), \A r \in W : r \in TradeRow /\ IsTrade(r), NEW p
  PROVE  \A r \in SplitByGame(W, p) : IsTrade(r)
<1>1. CASE ~ p.perGame
  BY <1>1 DEF SplitByGame
<1>2. CASE p.perGame
  <2> DEFINE N == Cardinality(W)
  <2> SUFFICES ASSUME NEW r \in W PROVE IsTrade([r EXCEPT !.of = N])
    BY <1>2 DEF SplitByGame
  <2>1. N \in Nat \ {0}
    <3>1. W # {}
      OBVIOUS
    <3> QED
      BY <3>1, FS_EmptySet, FS_CardinalityType
  <2> HIDE DEF N
  <2> DEFINE s == [r EXCEPT !.of = N]
  <2>2. s.pnl = r.pnl /\ s.at = r.at /\ s.of = N /\ s.entry = r.entry /\ s.exit = r.exit /\ s.hold = r.hold
    <3>1. N \in Nat
      BY <2>1
    <3> QED
      BY <3>1, SplitRow
  <2> HIDE DEF s
  <2>3. IsTrade(s)
    BY <2>1, <2>2 DEF IsTrade
  <2> QED
    BY <2>3 DEF s
<1> QED
  BY <1>1, <1>2

LEMMA T5Price ==
  ASSUME NEW rows \in Seq(Rows), NEW n \in DOMAIN rows, NEW side
  PROVE  T5(rows[n], side) \in 1..99 /\ n \in Nat
<1>1. rows[n] \in Rows /\ n \in Nat
  OBVIOUS
<1>2. rows[n].price \in 1..99
  BY <1>1 DEF Rows
<1>3. \A x \in 1..99 : 100 - x \in 1..99
  OBVIOUS
<1> QED
  BY <1>1, <1>2, <1>3 DEF T5, SidePrice

LEMMA InGameTypes ==
  ASSUME NEW hs \in Seq(Half), NEW rows \in Seq(Rows), NEW p \in Params
  PROVE  \A r \in InGame(hs, rows, p) : IsTrade(r)
<1>1. CASE Settlement = "unknown" \/ UsableRow(rows) = {}
  <2>1. InGameWhole(hs, rows, p) = {}
    BY <1>1, NoInGame
  <2>2. InGame(hs, rows, p) = {}
    BY <2>1, InGameIsWhole DEF SplitByGame
  <2> QED
    BY <2>2
<1>2. CASE Settlement # "unknown" /\ UsableRow(rows) # {}
  <2>1. PICK n : n \in UsableRow(rows)
    BY <1>2
  <2> DEFINE c == ChosenSide(rows[n], p)
             W == InGameWhole(hs, rows, p)
             f == [i \in Fresh(hs) |-> BetAt(hs, i, c, p)]
  <2>2. \A r \in W : \E i \in Fresh(hs) : r = BetAt(hs, i, c, p)
    BY <1>2, <2>1, InGameRows
  <2>3. \A i \in Fresh(hs) : BetAt(hs, i, c, p) \in TradeRow
    BY <1>2, <2>1, InGameRows
  <2>4. ASSUME NEW i \in Fresh(hs) PROVE IsTrade(BetAt(hs, i, c, p))
    <3>1. i \in Nat /\ c \in {"home", "away"}
      BY FreshSpots, FlippedChoice
    <3> HIDE DEF c
    <3>2. InGamePrice(SpotAt(hs, i), c) \in 1..99
      BY <3>1, InGamePriceOf
    <3> QED
      BY <3>1, <3>2, BetType DEF BetAt
  <2>5. IsFiniteSet(W)
    <3>1. \A i \in Fresh(hs) : f[i] = BetAt(hs, i, c, p)
      OBVIOUS
    <3> HIDE DEF W, f, c
    <3>2. W \subseteq {f[i] : i \in Fresh(hs)}
      BY <2>2, <3>1
    <3>3. IsFiniteSet({f[i] : i \in Fresh(hs)})
      BY FreshSpots, ImageIsFinite
    <3> QED
      BY <3>2, <3>3, FS_Subset
  <2>6. \A r \in W : r \in TradeRow /\ IsTrade(r)
    <3> HIDE DEF W, c
    <3> QED
      BY <2>2, <2>3, <2>4
  <2>7. \A r \in SplitByGame(W, p) : IsTrade(r)
    <3> HIDE DEF W
    <3> QED
      BY <2>5, <2>6, SplitTypes
  <2> QED
    BY <2>7, InGameIsWhole
<1> QED
  BY <1>1, <1>2

LEMMA FairValueTypes ==
  ASSUME NEW hs \in Seq(Half), NEW p \in Params
  PROVE  \A r \in FairValue(hs, p) : IsTrade(r)
<1> DEFINE I == Moments(hs, p)
           b == [p EXCEPT !.giveUp = "horizon"]
           f == [i \in I |-> PathTrade(SpotAt(hs, i), b)]
           h == [i \in I |-> HoldAt(hs, i, p)]
<1>0. b \in Params
  BY DEF Params
<1>1. IsFiniteSet({f[i] : i \in I}) /\ IsFiniteSet({h[i] : i \in I})
  <2> HIDE DEF f, h
  <2> QED
    BY EntryMoments, ImageIsFinite
<1>2. \A i \in I : i \in 1..Len(hs) /\ i \in Nat /\ SpotAt(hs, i).at = i /\ SpotAt(hs, i) \in Spots(hs)
  BY EntryMoments DEF Moments, Entries, SpotAt
<1>3. \A r \in BounceResults(hs, p) : \E i \in I : r = f[i]
  BY EntryMoments DEF BounceResults
<1>4. \A r \in HoldResults(hs, p) : \E i \in I : r = h[i]
  <2> HIDE DEF I, b, f, h
  <2> SUFFICES ASSUME NEW s \in Entries(hs, p), NEW r \in Hold(s.at, s.trailing, s.entry0, p)
               PROVE  \E i \in I : r = h[i]
    BY Zenon DEF HoldResults
  <2>1. PICK i \in I : s = SpotAt(hs, i)
    BY EntryMoments DEF I
  <2>2. r = Bet(s.at, s.trailing, s.entry0, p, Settlement)
    BY DEF Hold
  <2>3. r = h[i]
    BY <1>2, <2>1, <2>2 DEF HoldAt, h
  <2> QED
    BY <2>3
<1>5. ASSUME NEW i \in I PROVE f[i] \in TradeRow /\ IsTrade(f[i])
  <2>1. PathTrade(SpotAt(hs, i), b) \in TradeRow /\ IsTrade(PathTrade(SpotAt(hs, i), b))
    <3> HIDE DEF b
    <3> QED
      BY <1>0, <1>2, PathTradeIsARow, PathTradeType
  <2> QED
    BY <2>1
<1>6. ASSUME NEW i \in I PROVE h[i] \in TradeRow /\ IsTrade(h[i])
  <2>1. SpotAt(hs, i).trailing \in {"home", "away"} /\ SpotAt(hs, i).entry0 \in 1..99
    BY <1>2, SpotType
  <2>2. HoldAt(hs, i, p) \in TradeRow /\ IsTrade(HoldAt(hs, i, p))
    BY <1>2, <2>1, BetIsARow, BetType DEF HoldAt
  <2> QED
    BY <2>2
<1> HIDE DEF f, h, I, b
<1>7. /\ IsFiniteSet(BounceResults(hs, p)) /\ \A r \in BounceResults(hs, p) : r \in TradeRow /\ IsTrade(r)
  <2>1. BounceResults(hs, p) \subseteq {f[i] : i \in I}
    BY <1>3
  <2>2. IsFiniteSet(BounceResults(hs, p))
    BY <1>1, <2>1, FS_Subset
  <2> QED
    BY <1>3, <1>5, <2>2
<1>8. /\ IsFiniteSet(HoldResults(hs, p)) /\ \A r \in HoldResults(hs, p) : r \in TradeRow /\ IsTrade(r)
  <2>1. HoldResults(hs, p) \subseteq {h[i] : i \in I}
    BY <1>4
  <2>2. IsFiniteSet(HoldResults(hs, p))
    BY <1>1, <2>1, FS_Subset
  <2> QED
    BY <1>4, <1>6, <2>2
<1>9. CASE p.exit = "hold"
  BY <1>8, <1>9, SplitTypes DEF FairValue
<1>10. CASE p.exit # "hold"
  BY <1>7, <1>10, SplitTypes DEF FairValue
<1> QED
  BY <1>9, <1>10

LEMMA TradeTypes ==
  ASSUME NEW rows \in Seq(Rows), NEW p \in Params, halves \in Seq(Half)
  PROVE  \A r \in Trades(halves, rows, p) : IsTrade(r)
<1>1. CASE p.kind = "checklist"
  BY <1>1, PathTradeType DEF Trades, Checklist
<1>2. CASE p.kind = "comeback"
  BY <1>2, PathTradeType DEF Trades, Comeback
<1>3. CASE p.kind = "favorite"
  <2> SUFFICES ASSUME NEW n \in DOMAIN rows, NEW side \in Best(rows[n], p),
                      NEW r \in Hold(n, side, T5(rows[n], side), p)
               PROVE  IsTrade(r)
    BY <1>3 DEF Trades, Favorite
  <2>1. T5(rows[n], side) \in 1..99 /\ n \in Nat
    BY T5Price
  <2>2. r = Bet(n, side, T5(rows[n], side), p, Settlement)
    BY DEF Hold
  <2> QED
    BY <2>1, <2>2, BetType
<1>4. CASE p.kind = "favorite2"
  <2> SUFFICES ASSUME NEW n \in UsableRow(rows),
                      NEW r \in Hold(0, ChosenSide(rows[n], p), T5(rows[n], ChosenSide(rows[n], p)), p)
               PROVE  IsTrade(r)
    BY <1>4 DEF Trades, Favorite2
  <2>1. T5(rows[n], ChosenSide(rows[n], p)) \in 1..99 /\ 0 \in Nat
    BY OneUsableRow, T5Price
  <2>2. r = Bet(0, ChosenSide(rows[n], p), T5(rows[n], ChosenSide(rows[n], p)), p, Settlement)
    BY DEF Hold
  <2> QED
    BY <2>1, <2>2, BetType
<1>5. CASE p.kind = "bottom8"
  <2> SUFFICES ASSUME NEW s \in BreakPrice(halves, p.inning)
               PROVE  IsTrade(Bet(s.at, p.side, SidePrice(p.side, s.entry0), p, ended.winner))
    BY <1>5 DEF Trades, Bottom8
  <2>1. s \in Spots(halves)
    BY DEF BreakPrice
  <2>2. s.at \in 1..Len(halves) /\ s.at \in Nat /\ s = SpotAt(halves, s.at)
    BY <2>1, SpotsAreSpots
  <2>3. s.entry0 \in 1..99
    BY <2>2, SpotType
  <2>4. SidePrice(p.side, s.entry0) \in 1..99
    BY <2>3, FlippedPrice
  <2> QED
    BY <2>2, <2>4, BetType
<1>6. CASE p.kind = "fairvalue"
  <2>1. Trades(halves, rows, p) = FairValue(halves, p)
    BY <1>6 DEF Trades
  <2> QED
    BY <2>1, FairValueTypes
<1> QED
  BY <1>1, <1>2, <1>3, <1>4, <1>5, <1>6 DEF Params, Kinds

\* A run of the replay keeps its types.
LEMMA RunTypes == RunInv => RunTypeOK
<1> SUFFICES ASSUME RunInv PROVE RunTypeOK
  OBVIOUS
<1>1. halves \in Seq([runs : Runs, ticks : Ticks])
      /\ ended \in [winner : {"nobody", "home", "away"}, pinned : BOOLEAN]
  BY DEF RunInv, GameInv, Half
<1>2. ASSUME report # NoReport
      PROVE  /\ report.kind \in Kinds /\ report.params \in Setting /\ report.rows \in Verdicts
             /\ \A r \in report.trades \cup report.inGame : IsTrade(r)
  <2>1. /\ halves \in Seq(Half) /\ report.params \in Params /\ report.params \in Setting
        /\ report.rows \in Seq(Rows) /\ report.rows \in Verdicts
        /\ report.kind = report.params.kind
        /\ report.trades = Trades(halves, report.rows, report.params)
        /\ report.inGame = IF report.params.kind = "favorite2"
                            THEN InGame(halves, report.rows, report.params) ELSE {}
    BY <1>2, ReportIs
  <2>2. \A r \in report.trades : IsTrade(r)
    BY <2>1, TradeTypes
  <2>3. \A r \in report.inGame : IsTrade(r)
    BY <2>1, InGameTypes
  <2>4. report.params.kind \in Kinds
    BY <2>1 DEF Params
  <2> QED
    BY <2>1, <2>2, <2>3, <2>4
<1> QED
  BY <1>1, <1>2 DEF RunTypeOK, IsTrade

-----------------------------------------------------------------------------
(***************************************************************************)
(* GameSpots.  The score after a half-inning and the line score count the  *)
(* same runs: the halves of a side are the innings it batted.              *)
(***************************************************************************)
BattedBy(side, i) == {j \in 1..i : j % 2 = (IF side = "away" THEN 1 ELSE 0)}

LEMMA ScoreIsSum ==
  ASSUME NEW hs, NEW side, NEW i \in Nat, \A j \in 1..i : hs[j].runs \in Int
  PROVE  Score(hs, side, i) = SumUp([j \in BattedBy(side, i) |-> hs[j].runs], BattedBy(side, i))
<1> DEFINE S == BattedBy(side, i)
           v == [j \in S |-> hs[j].runs]
           F(g) == [s \in SUBSET S |-> IF s = {} THEN 0
                      ELSE hs[CHOOSE x \in s : TRUE].runs + g[s \ {CHOOSE x \in s : TRUE}]]
           G(g) == [s \in SUBSET S |-> IF s = {} THEN 0
                      ELSE v[CHOOSE x \in s : TRUE] + g[s \ {CHOOSE x \in s : TRUE}]]
<1>1. v \in [S -> Int] /\ IsFiniteSet(S)
  <2>1. S \subseteq 1..i /\ i \in Int /\ 1 \in Int
    BY DEF BattedBy
  <2>2. IsFiniteSet(S)
    BY <2>1, RangeIsFinite
  <2>3. v \in [S -> Int]
    BY <2>1
  <2> QED
    BY <2>2, <2>3
<1>2. \A g : F(g) = G(g)
  OBVIOUS
<1>3. (CHOOSE g : g = F(g)) = (CHOOSE g : g = G(g))
  <2> HIDE DEF F, G
  <2> QED
    BY <1>2
<1>4. Score(hs, side, i) = (CHOOSE g : g = F(g))[S]
  BY DEF Score, MapThenSumSet, MapThenFoldSet, BattedBy
<1>5. MapThenSumSet(LAMBDA j : v[j], S) = (CHOOSE g : g = G(g))[S]
  BY DEF MapThenSumSet, MapThenFoldSet
<1>6. MapThenSumSet(LAMBDA j : v[j], S) = SumUp(v, S)
  <2> HIDE DEF v, S
  <2> QED
    BY <1>1, MapThenSumSetIsSum
<1> QED
  BY <1>3, <1>4, <1>5, <1>6

LEMMA SumSteps ==
  ASSUME NEW S, IsFiniteSet(S), NEW v \in [S -> Int]
  PROVE  \A s \in SUBSET S : /\ SumUp(v, s) \in Int
                            /\ \A x \in s : SumUp(v, s) = v[x] + SumUp(v, s \ {x})
  BY SumStep

\* A sequence is folded from its last element.
FromTheRight(v, S) ==
    CHOOSE g : g = [s \in SUBSET S |-> IF s = {} THEN 0 ELSE g[s \ {Max(s)}] + v[Max(s)]]

LEMMA FoldIsSum ==
  ASSUME NEW S, IsFiniteSet(S), \A s \in SUBSET S : s # {} => Max(s) \in s, NEW v \in [S -> Int]
  PROVE  FromTheRight(v, S)[S] = SumUp(v, S)
<1> DEFINE h == [s \in SUBSET S |-> SumUp(v, s)]
           F(g) == [s \in SUBSET S |-> IF s = {} THEN 0 ELSE g[s \ {Max(s)}] + v[Max(s)]]
           it == CHOOSE g : g = F(g)
<1>0. \A s \in SUBSET S : /\ SumUp(v, s) \in Int
                         /\ \A x \in s : SumUp(v, s) = v[x] + SumUp(v, s \ {x})
  BY SumSteps
<1>3. h = F(h)
  <2> SUFFICES ASSUME NEW s \in SUBSET S, s # {}
               PROVE  SumUp(v, s) = h[s \ {Max(s)}] + v[Max(s)]
    BY SumOfNone
  <2>1. Max(s) \in s
    OBVIOUS
  <2>2. h[s \ {Max(s)}] = SumUp(v, s \ {Max(s)})
    OBVIOUS
  <2>3. s \ {Max(s)} \in SUBSET S /\ v \in [S -> Int] /\ v[Max(s)] \in Int
    BY <2>1
  <2> HIDE DEF h
  <2>4. SumUp(v, s) = v[Max(s)] + SumUp(v, s \ {Max(s)}) /\ SumUp(v, s \ {Max(s)}) \in Int
    BY <1>0, <2>1, <2>3
  <2> QED
    BY <2>2, <2>3, <2>4
<1>4. it = F(it)
  BY <1>3
\* The sum from the right is the one that takes the largest index first.
<1> DEFINE B == {s \in SUBSET S : it[s] # SumUp(v, s)}
<1>5. \A s \in SUBSET S : it[s] = IF s = {} THEN 0 ELSE it[s \ {Max(s)}] + v[Max(s)]
  <2>1. \A s \in SUBSET S : it[s] = F(it)[s]
    <3> HIDE DEF it, F
    <3> QED
      BY <1>4
  <2> HIDE DEF it
  <2> QED
    BY <2>1
<1>6. B = {}
  <2>1. {} \notin B
    BY <1>5, SumOfNone
  <2>2. ASSUME NEW s \in B PROVE \E x \in s : s \ {x} \in B
    <3>1. s # {} /\ s \in SUBSET S
      BY <2>1, <2>2
    <3>2. Max(s) \in s /\ v[Max(s)] \in Int /\ s \ {Max(s)} \in SUBSET S /\ v \in [S -> Int]
      BY <3>1
    <3>3. SumUp(v, s) = v[Max(s)] + SumUp(v, s \ {Max(s)}) /\ SumUp(v, s \ {Max(s)}) \in Int
      <4> HIDE DEF B, it
      <4> QED
        BY <1>0, <3>1, <3>2
    <3>4. it[s] = it[s \ {Max(s)}] + v[Max(s)]
      BY <1>5, <3>1
    <3>5. it[s \ {Max(s)}] # SumUp(v, s \ {Max(s)})
      <4>1. it[s] # SumUp(v, s)
        BY <2>2
      <4> HIDE DEF B, it
      <4> QED
        BY <3>2, <3>3, <3>4, <4>1
    <3> QED
      BY <3>2, <3>5
  <2>3. B \in SUBSET (SUBSET S)
    OBVIOUS
  <2> HIDE DEF B
  <2> QED
    BY <2>1, <2>2, <2>3, OfSubset
<1> QED
  BY <1>6 DEF FromTheRight

\* RunsUpto counts the runs of the first n innings of a line.
LEMMA RunsIsSum ==
  ASSUME NEW m \in Nat, NEW line \in [1..m -> Int], NEW n \in 0..m
  PROVE  RunsUpto(line, n) = SumUp([k \in 1..n |-> line[k]], 1..n)
<1> DEFINE v == [k \in 1..n |-> line[k]]
<1>1. line \in Seq(Int) /\ n \in Nat
  OBVIOUS
<1>2. SubSeq(line, 1, n) = v
  OBVIOUS
<1>3. v \in [1..n -> Int]
  OBVIOUS
<1> HIDE DEF v
<1>4. FoldLeft(LAMBDA x, y : x + y, 0, v) = SumUp(v, 1..n)
  <2>1. 1 \in Int /\ n \in Int
    OBVIOUS
  <2>2. IsFiniteSet(1..n) /\ 1..n \subseteq Int
    BY <2>1, FS_Interval
  <2>3. \A s \in SUBSET (1..n) : IsFiniteSet(s) /\ s \subseteq Int
    BY <2>2, FS_Subset
  <2>4. \A s \in SUBSET (1..n) : s # {} => Max(s) \in s
    BY <2>3, HasBounds
  <2>5. FromTheRight(v, 1..n)[1..n] = SumUp(v, 1..n)
    BY <1>3, <2>2, <2>4, FoldIsSum
  <2>6. DOMAIN v = 1..n
    BY <1>3
  <2> QED
    BY <2>5, <2>6 DEF FromTheRight, FoldLeft, MapThenFoldSet
<1> QED
  BY <1>2, <1>4 DEF RunsUpto, v

\* Halves and innings.
LEMMA Innings ==
  ASSUME NEW i \in Nat
  PROVE  /\ Inning(i) \in Nat /\ i \div 2 \in Nat
         /\ i % 2 = 1 => i = 2 * Inning(i) - 1 /\ i \div 2 = Inning(i) - 1
         /\ i % 2 # 1 => i = 2 * Inning(i) /\ i \div 2 = Inning(i) /\ i % 2 = 0
         /\ \A k \in Nat : (2 * k - 1 <= i <=> k <= Inning(i)) /\ (2 * k <= i <=> k <= i \div 2)
         /\ \A j \in 1..i : j % 2 = 1 => \E k \in 1..Inning(i) : j = 2 * k - 1
         /\ \A j \in 1..i : j % 2 = 0 => \E k \in 1..(i \div 2) : j = 2 * k
<1>1. i \div 2 \in Nat /\ i = 2 * (i \div 2) + (i % 2) /\ i % 2 \in {0, 1}
  OBVIOUS
<1>2. Inning(i) = (i \div 2) + (i % 2)
  BY DEF Inning
<1>3. ASSUME NEW j \in 1..i
      PROVE  /\ j % 2 = 1 => \E k \in 1..Inning(i) : j = 2 * k - 1
             /\ j % 2 = 0 => \E k \in 1..(i \div 2) : j = 2 * k
  <2>1. j \in Nat \ {0} /\ j \div 2 \in Nat /\ j = 2 * (j \div 2) + (j % 2) /\ j <= i
    OBVIOUS
  <2>2. ASSUME j % 2 = 1 PROVE \E k \in 1..Inning(i) : j = 2 * k - 1
    <3>1. j = 2 * ((j \div 2) + 1) - 1 /\ (j \div 2) + 1 \in 1..Inning(i)
      BY <1>1, <1>2, <2>1, <2>2
    <3> QED
      BY <3>1
  <2>3. ASSUME j % 2 = 0 PROVE \E k \in 1..(i \div 2) : j = 2 * k
    <3>1. j = 2 * (j \div 2) /\ j \div 2 \in 1..(i \div 2)
      BY <1>1, <2>1, <2>3
    <3> QED
      BY <3>1
  <2> QED
    BY <2>2, <2>3
<1>4. \A k \in Nat : (2 * k - 1 <= i <=> k <= Inning(i)) /\ (2 * k <= i <=> k <= i \div 2)
  BY <1>1, <1>2
<1>5. /\ i % 2 = 1 => i = 2 * Inning(i) - 1 /\ i \div 2 = Inning(i) - 1
      /\ i % 2 # 1 => i = 2 * Inning(i) /\ i \div 2 = Inning(i) /\ i % 2 = 0
      /\ Inning(i) \in Nat
  BY <1>1, <1>2
<1> QED
  BY <1>1, <1>3, <1>4, <1>5

LEMMA OddHalf == \A k \in Nat \ {0} : (2 * k - 1) % 2 = 1
  OBVIOUS

LEMMA EvenHalf == \A k \in Nat : (2 * k) % 2 = 0
  OBVIOUS

LEMMA RunsAreCounted ==
  ASSUME GameInv, NEW j \in 1..Len(halves)
  PROVE  halves[j].runs \in Int
<1>1. halves[j] \in Half
  BY DEF GameInv
<1>2. halves[j].runs \in Runs
  BY <1>1 DEF Half
<1>3. \A r \in Runs : r \in Nat
  BY RunsAssumption
<1> QED
  BY <1>2, <1>3

LEMMA AwayScore ==
  ASSUME GameInv, NEW i \in 1..Len(halves)
  PROVE  /\ Score(halves, "away", i) = RunsUpto(AwayLine, Inning(i))
         /\ Score(halves, "away", i) \in Int
<1> DEFINE A == 1..Inning(i)
           f == [k \in A |-> 2 * k - 1]
           B == BattedBy("away", i)
           w == [j \in B |-> halves[j].runs]
           m == Inning(Len(halves))
           u == [x \in A |-> w[f[x]]]
<1>1. i \in Nat /\ Len(halves) \in Nat /\ i <= Len(halves)
  BY DEF GameInv
<1>2. /\ Inning(i) \in Nat /\ m \in Nat /\ Inning(i) <= m
      /\ \A k \in 1..m : 2 * k - 1 \in 1..Len(halves)
      /\ \A k \in A : 2 * k - 1 \in 1..i /\ (2 * k - 1) % 2 = 1
  BY <1>1, Innings, OddHalf DEF Inning
<1>3. B \subseteq 1..i /\ \A j \in B : halves[j].runs \in Int
  BY <1>1, RunsAreCounted DEF BattedBy
<1>4. \A k \in A : f[k] \in B /\ w[f[k]] = halves[2 * k - 1].runs
  BY <1>2 DEF BattedBy
<1>5. B = {f[k] : k \in A}
  <2>1. \A j \in B : \E k \in A : j = f[k]
    <3>1. \A j \in B : j \in 1..i /\ j % 2 = 1
      BY DEF BattedBy
    <3>2. \A j \in B : \E k \in A : j = 2 * k - 1
      <4> HIDE DEF B
      <4> QED
        BY <1>1, <3>1, Innings
    <3> HIDE DEF B
    <3> QED
      BY <3>2
  <2> QED
    BY <1>4, <2>1
<1>6. Score(halves, "away", i) = SumUp(w, B)
  BY <1>1, RunsAreCounted, ScoreIsSum
<1>7. IsFiniteSet(A)
  <2>1. 1 \in Int /\ Inning(i) \in Int
    BY <1>2
  <2> QED
    BY <2>1, FS_Interval
<1>8. \A x, y \in A : f[x] = f[y] => x = y
  BY <1>2
<1>9. u \in [A -> Int]
  BY <1>3, <1>4
<1>10. SumUp(w, {f[x] : x \in A}) = SumUp(u, A)
  <2>1. \A x \in A : w[f[x]] \in Int
    BY <1>3, <1>4
  <2> HIDE DEF A, f, w, B
  <2> QED
    BY <1>7, <1>8, <2>1, SumReindexed
<1>11. AwayLine \in [1..m -> Int] /\ \A k \in A : AwayLine[k] = halves[2 * k - 1].runs
  BY <1>1, <1>2, RunsAreCounted DEF AwayLine
<1> DEFINE line == [k \in A |-> AwayLine[k]]
<1>12. RunsUpto(AwayLine, Inning(i)) = SumUp(line, A)
  <2>1. Inning(i) \in 0..m
    BY <1>2
  <2> HIDE DEF m
  <2> QED
    BY <1>2, <1>11, <2>1, RunsIsSum
<1>13. SumUp(line, A) = SumUp(u, A)
  <2>1. \A k \in A : line[k] = u[k]
    BY <1>4, <1>11
  <2> HIDE DEF line, u, A
  <2> QED
    BY <2>1, SumAgrees
<1>14. SumUp(u, A) \in Int
  <2> HIDE DEF u, A
  <2>1. A \in SUBSET A
    OBVIOUS
  <2> QED
    BY <1>7, <1>9, <2>1, SumStep
<1> QED
  <2> HIDE DEF u, A, line, w, B, f
  <2> QED
    BY <1>5, <1>6, <1>10, <1>12, <1>13, <1>14

LEMMA HomeScore ==
  ASSUME GameInv, NEW i \in 1..Len(halves)
  PROVE  /\ Score(halves, "home", i) = RunsUpto(HomeLine, i \div 2)
         /\ Score(halves, "home", i) \in Int
<1> DEFINE A == 1..(i \div 2)
           f == [k \in A |-> 2 * k]
           B == BattedBy("home", i)
           w == [j \in B |-> halves[j].runs]
           m == Len(halves) \div 2
           u == [x \in A |-> w[f[x]]]
<1>1. i \in Nat /\ Len(halves) \in Nat /\ i <= Len(halves)
  BY DEF GameInv
<1>2. /\ (i \div 2) \in Nat /\ m \in Nat /\ (i \div 2) <= m
      /\ \A k \in 1..m : 2 * k \in 1..Len(halves)
      /\ \A k \in A : 2 * k \in 1..i /\ (2 * k) % 2 = 0
  <2>1. i \div 2 \in Nat /\ m \in Nat /\ i \div 2 <= m
    BY <1>1
  <2>2. \A k \in 1..m : 2 * k \in 1..Len(halves)
    BY <1>1, <2>1
  <2>3. \A k \in A : 2 * k \in 1..i /\ k \in Nat
    BY <1>1, <2>1
  <2>4. \A k \in A : (2 * k) % 2 = 0
    <3> HIDE DEF A
    <3> QED
      BY <2>3, EvenHalf
  <2> QED
    BY <2>1, <2>2, <2>3, <2>4
<1>3. B \subseteq 1..i /\ \A j \in B : halves[j].runs \in Int
  BY <1>1, RunsAreCounted DEF BattedBy
<1>4. \A k \in A : f[k] \in B /\ w[f[k]] = halves[2 * k].runs
  BY <1>2 DEF BattedBy
<1>5. B = {f[k] : k \in A}
  <2>1. \A j \in B : \E k \in A : j = f[k]
    <3>1. \A j \in B : j \in 1..i /\ j % 2 = 0
      BY DEF BattedBy
    <3>2. \A j \in B : \E k \in A : j = 2 * k
      <4> HIDE DEF B
      <4> QED
        BY <1>1, <3>1, Innings
    <3> HIDE DEF B
    <3> QED
      BY <3>2
  <2> QED
    BY <1>4, <2>1
<1>6. Score(halves, "home", i) = SumUp(w, B)
  BY <1>1, RunsAreCounted, ScoreIsSum
<1>7. IsFiniteSet(A)
  <2>1. 1 \in Int /\ (i \div 2) \in Int
    BY <1>2
  <2> QED
    BY <2>1, FS_Interval
<1>8. \A x, y \in A : f[x] = f[y] => x = y
  BY <1>2
<1>9. u \in [A -> Int]
  BY <1>3, <1>4
<1>10. SumUp(w, {f[x] : x \in A}) = SumUp(u, A)
  <2>1. \A x \in A : w[f[x]] \in Int
    BY <1>3, <1>4
  <2> HIDE DEF A, f, w, B
  <2> QED
    BY <1>7, <1>8, <2>1, SumReindexed
<1>11. HomeLine \in [1..m -> Int] /\ \A k \in A : HomeLine[k] = halves[2 * k].runs
  BY <1>1, <1>2, RunsAreCounted DEF HomeLine
<1> DEFINE line == [k \in A |-> HomeLine[k]]
<1>12. RunsUpto(HomeLine, i \div 2) = SumUp(line, A)
  <2>1. (i \div 2) \in 0..m
    BY <1>2
  <2> HIDE DEF m
  <2> QED
    BY <1>2, <1>11, <2>1, RunsIsSum
<1>13. SumUp(line, A) = SumUp(u, A)
  <2>1. \A k \in A : line[k] = u[k]
    BY <1>4, <1>11
  <2> HIDE DEF line, u, A
  <2> QED
    BY <2>1, SumAgrees
<1>14. SumUp(u, A) \in Int
  <2> HIDE DEF u, A
  <2>1. A \in SUBSET A
    OBVIOUS
  <2> QED
    BY <1>7, <1>9, <2>1, SumStep
<1> QED
  <2> HIDE DEF u, A, line, w, B, f
  <2> QED
    BY <1>5, <1>6, <1>10, <1>12, <1>13, <1>14

\* The row the fair-value table has for a half-inning.
RowAt(i) == IF i % 2 = 1 THEN AfterTop(Inning(i)) ELSE AfterBottom(Inning(i))

LEMMA RowOfHalf ==
  ASSUME GameInv, NEW i \in 1..Len(halves)
  PROVE  /\ Gap(halves, i) \in Int
         /\ RowAt(i) = [inning |-> Inning(i), next |-> NextHalf(i),
                        deficit |-> Dist(Gap(halves, i)),
                        trailing |-> IF Gap(halves, i) > 0 THEN "home" ELSE "away",
                        won |-> (Gap(halves, i) > 0) = (ended.winner = "home")]
<1> DEFINE a == RunsUpto(AwayLine, Inning(i))
           h == RunsUpto(HomeLine, i \div 2)
<1>1. Score(halves, "away", i) = a /\ a \in Int /\ Score(halves, "home", i) = h /\ h \in Int
  BY AwayScore, HomeScore
<1>2. i \in Nat
  OBVIOUS
<1>3. RowAt(i) = FairRow(Inning(i), NextHalf(i), a, h)
  <2>1. CASE i % 2 = 1
    BY <1>2, <2>1, Innings DEF RowAt, AfterTop, NextHalf
  <2>2. CASE i % 2 # 1
    BY <1>2, <2>2, Innings DEF RowAt, AfterBottom, NextHalf
  <2> QED
    BY <2>1, <2>2
<1> HIDE DEF a, h
<1>4. Gap(halves, i) = a - h
  BY <1>1 DEF Gap
<1>5. (h < a) <=> (a - h > 0)
  BY <1>1
<1> DEFINE up == (h < a)
<1>6. RowAt(i) = [inning |-> Inning(i), next |-> NextHalf(i), deficit |-> Dist(a - h),
                  trailing |-> IF h < a THEN "home" ELSE "away",
                  won |-> (h < a) = (ended.winner = "home")]
  BY <1>3 DEF FairRow
<1>7. (h < a) = (Gap(halves, i) > 0)
  BY <1>4, <1>5
<1>8. Gap(halves, i) \in Int
  BY <1>1, <1>4
<1> QED
  BY <1>4, <1>6, <1>7, <1>8, Zenon

LEMMA SameHalf ==
  ASSUME NEW i \in Nat, NEW j \in Nat, Inning(i) = Inning(j), NextHalf(i) = NextHalf(j)
  PROVE  i = j
<1>1. i % 2 = 1 <=> j % 2 = 1
  BY DEF NextHalf
<1>2. IF i % 2 = 1 THEN i = 2 * Inning(i) - 1 ELSE i = 2 * Inning(i)
  BY Innings
<1>3. IF j % 2 = 1 THEN j = 2 * Inning(j) - 1 ELSE j = 2 * Inning(j)
  BY Innings
<1> QED
  BY <1>1, <1>2, <1>3

\* A row and the spot of the same half-inning agree when a side trails.
LEMMA RowOfSpot ==
  ASSUME GameInv, ended # Playing, NEW i \in 1..Len(halves), Dist(Gap(halves, i)) # 0
  PROVE  /\ StateKey(RowAt(i)) = StateKey(SpotAt(halves, i))
         /\ RowAt(i).won = (Trailing(halves, i) = ended.winner)
<1> DEFINE G == Gap(halves, i)
<1>1. G \in Int /\ RowAt(i) = [inning |-> Inning(i), next |-> NextHalf(i), deficit |-> Dist(G),
                        trailing |-> IF G > 0 THEN "home" ELSE "away",
                        won |-> (G > 0) = (ended.winner = "home")]
  BY RowOfHalf
<1>2. Trailing(halves, i) = IF G >= 0 THEN "home" ELSE "away"
  BY DEF Trailing
<1>3. SpotAt(halves, i).inning = Inning(i) /\ SpotAt(halves, i).next = NextHalf(i)
      /\ SpotAt(halves, i).deficit = Dist(G) /\ SpotAt(halves, i).trailing = Trailing(halves, i)
  BY DEF SpotAt
<1>4. Dist(G) # 0
  OBVIOUS
<1> HIDE DEF G
<1>5. G # 0
  BY <1>1, <1>4 DEF Dist
<1>6. (G > 0) <=> (G >= 0)
  BY <1>1, <1>5
<1>7. (IF G > 0 THEN "home" ELSE "away") = Trailing(halves, i)
  BY <1>2, <1>6
<1>8. StateKey(RowAt(i)) = StateKey(SpotAt(halves, i))
  <2>1. RowAt(i).inning = Inning(i) /\ RowAt(i).next = NextHalf(i) /\ RowAt(i).deficit = Dist(G)
        /\ RowAt(i).trailing = IF G > 0 THEN "home" ELSE "away"
    BY <1>1
  <2> QED
    BY <1>3, <1>7, <2>1 DEF StateKey
<1>9. ended.winner \in {"home", "away"}
  BY DEF GameInv
<1>10. ((G > 0) = (ended.winner = "home")) <=> (Trailing(halves, i) = ended.winner)
  <2>1. CASE G > 0
    BY <1>7, <1>9, <2>1
  <2>2. CASE ~ (G > 0)
    BY <1>7, <1>9, <2>2
  <2> QED
    BY <2>1, <2>2
<1>11. RowAt(i).won = ((G > 0) = (ended.winner = "home"))
  <2> DEFINE won == (G > 0) = (ended.winner = "home")
             trailing == IF G > 0 THEN "home" ELSE "away"
  <2>1. RowAt(i) = [inning |-> Inning(i), next |-> NextHalf(i), deficit |-> Dist(G),
                    trailing |-> trailing, won |-> won]
    BY <1>1, Zenon
  <2> HIDE DEF won, trailing
  <2>2. RowAt(i).won = won
    BY <2>1
  <2> QED
    BY <2>2 DEF won
<1>12. RowAt(i).won = (Trailing(halves, i) = ended.winner)
  BY <1>10, <1>11
<1> QED
  BY <1>8, <1>12

Trailed == {i \in 1..Len(halves) : Inning(i) <= Regulation /\ Dist(Gap(halves, i)) # 0}

LEMMA LineLengths ==
  ASSUME GameInv
  PROVE  /\ Len(halves) \in Nat
         /\ Len(AwayLine) = Inning(Len(halves)) /\ Len(HomeLine) = Len(halves) \div 2
<1>1. Len(halves) \in Nat
  BY DEF GameInv
<1>2. Inning(Len(halves)) \in Nat /\ Len(halves) \div 2 \in Nat
  BY <1>1, Innings
<1>3. ASSUME NEW n \in Nat, NEW f, f = [k \in 1..n |-> f[k]]
      PROVE  Len(f) = n
  BY <1>3
<1>4. Len(AwayLine) = Inning(Len(halves))
  BY <1>2, <1>3 DEF AwayLine
<1>5. Len(HomeLine) = Len(halves) \div 2
  BY <1>2, <1>3 DEF HomeLine
<1> QED
  BY <1>1, <1>4, <1>5

\* The table counts the half-innings at which a side trails, and no other.
LEMMA RowsAreCounted ==
  ASSUME GameInv
  PROVE  /\ \A i \in Trailed : RowAt(i) \in FairRows
         /\ \A r \in FairRows : \E i \in Trailed : r = RowAt(i)
<1> DEFINE M == Inning(Len(halves))
           K == Len(halves) \div 2
<1>1. /\ Len(halves) \in Nat /\ Len(AwayLine) = M /\ Len(HomeLine) = K
      /\ M \in Nat /\ K \in Nat /\ Regulation \in Nat
  BY LineLengths, Innings, LengthAssumption
<1>2. FairRows = {r \in {AfterTop(n) : n \in 1..Least(M, Regulation)}
                          \cup {AfterBottom(n) : n \in 1..Least(K, Regulation)} : r.deficit # 0}
  BY <1>1 DEF FairRows
<1>3. \A i \in 1..Len(halves) : RowAt(i).deficit = Dist(Gap(halves, i))
  BY RowOfHalf
<1>4. ASSUME NEW i \in Trailed PROVE RowAt(i) \in FairRows
  <2>1. i \in 1..Len(halves) /\ i \in Nat /\ Inning(i) <= Regulation /\ Dist(Gap(halves, i)) # 0
    BY DEF Trailed
  <2>2. CASE i % 2 = 1
    <3>1. Inning(i) \in Nat \ {0} /\ 2 * Inning(i) - 1 = i
      BY <2>1, <2>2, Innings
    <3>2. Inning(i) <= M
      BY <1>1, <2>1, <3>1, Innings
    <3>3. Inning(i) \in 1..Least(M, Regulation)
      BY <1>1, <2>1, <3>1, <3>2 DEF Least
    <3>4. RowAt(i) = AfterTop(Inning(i))
      BY <2>2 DEF RowAt
    <3> QED
      BY <1>2, <1>3, <2>1, <3>3, <3>4
  <2>3. CASE i % 2 # 1
    <3>1. Inning(i) \in Nat \ {0} /\ 2 * Inning(i) = i
      BY <2>1, <2>3, Innings
    <3>2. Inning(i) <= K
      BY <1>1, <2>1, <3>1, Innings
    <3>3. Inning(i) \in 1..Least(K, Regulation)
      BY <1>1, <2>1, <3>1, <3>2 DEF Least
    <3>4. RowAt(i) = AfterBottom(Inning(i))
      BY <2>3 DEF RowAt
    <3> QED
      BY <1>2, <1>3, <2>1, <3>3, <3>4
  <2> QED
    BY <2>2, <2>3
<1>5. ASSUME NEW r \in FairRows PROVE \E i \in Trailed : r = RowAt(i)
  <2>1. r.deficit # 0
    BY <1>2
  <2>2. ASSUME NEW n \in 1..Least(M, Regulation), r = AfterTop(n)
        PROVE  \E i \in Trailed : r = RowAt(i)
    <3> DEFINE i == 2 * n - 1
    <3>1. n \in Nat \ {0} /\ n <= M /\ n <= Regulation
      BY <1>1 DEF Least
    <3>2. i \in 1..Len(halves) /\ i \in Nat
      BY <1>1, <3>1, Innings
    <3>3. i % 2 = 1
      BY <3>1, OddHalf
    <3>4. Inning(i) = n
      <4>1. i = 2 * Inning(i) - 1 /\ Inning(i) \in Nat
        <5> HIDE DEF i
        <5> QED
          BY <3>2, <3>3, Innings
      <4> QED
        BY <3>1, <4>1
    <3> HIDE DEF i
    <3>5. r = RowAt(i)
      BY <2>2, <3>3, <3>4 DEF RowAt
    <3>6. i \in Trailed
      BY <1>3, <2>1, <3>1, <3>2, <3>4, <3>5 DEF Trailed
    <3> QED
      BY <3>5, <3>6
  <2>3. ASSUME NEW n \in 1..Least(K, Regulation), r = AfterBottom(n)
        PROVE  \E i \in Trailed : r = RowAt(i)
    <3> DEFINE i == 2 * n
    <3>1. n \in Nat \ {0} /\ n <= K /\ n <= Regulation
      BY <1>1 DEF Least
    <3>2. i \in 1..Len(halves) /\ i \in Nat
      BY <1>1, <3>1, Innings
    <3>3. i % 2 # 1
      BY <3>1, EvenHalf
    <3>4. Inning(i) = n
      <4>1. i = 2 * Inning(i) /\ Inning(i) \in Nat
        <5> HIDE DEF i
        <5> QED
          BY <3>2, <3>3, Innings
      <4> QED
        BY <3>1, <4>1
    <3> HIDE DEF i
    <3>5. r = RowAt(i)
      BY <2>3, <3>3, <3>4 DEF RowAt
    <3>6. i \in Trailed
      BY <1>3, <2>1, <3>1, <3>2, <3>4, <3>5 DEF Trailed
    <3> QED
      BY <3>5, <3>6
  <2> QED
    BY <1>2, <2>2, <2>3
<1> QED
  BY <1>4, <1>5

\* store.fair_table: whatever the runs and the length of the game, a spot of a
\* trailing side is counted once, under its key and as the result it had, and the
\* table counts nothing that was not a moment of the game.
LEMMA FairCountsTheSpotFollows == RunInv => FairCountsTheSpot
<1> SUFFICES ASSUME GameInv, ended # Playing
             PROVE  /\ \A s \in Spots(halves) : (s.deficit > 0 /\ s.inning <= Regulation) =>
                          {r.won : r \in {r \in FairRows : StateKey(r) = StateKey(s)}}
                             = {s.trailing = ended.winner}
                    /\ \A r \in FairRows : \E i \in 1..Len(halves) :
                          StateKey(r) = StateKey(SpotAt(halves, i))
                    /\ \A r, q \in FairRows : StateKey(r) = StateKey(q) => r = q
  BY DEF RunInv, FairCountsTheSpot
<1>1. \A i \in Trailed : /\ i \in 1..Len(halves) /\ i \in Nat /\ RowAt(i) \in FairRows
                         /\ StateKey(RowAt(i)) = StateKey(SpotAt(halves, i))
                         /\ RowAt(i).won = (Trailing(halves, i) = ended.winner)
  BY RowsAreCounted, RowOfSpot DEF Trailed
<1>2. \A r \in FairRows : \E i \in Trailed : r = RowAt(i)
  BY RowsAreCounted
<1>3. \A i \in 1..Len(halves) : /\ SpotAt(halves, i).inning = Inning(i)
                                /\ SpotAt(halves, i).next = NextHalf(i)
                                /\ SpotAt(halves, i).trailing = Trailing(halves, i)
                                /\ SpotAt(halves, i).deficit = Dist(Gap(halves, i))
  BY DEF SpotAt
<1>4. \A i, j \in 1..Len(halves) : StateKey(SpotAt(halves, i)) = StateKey(SpotAt(halves, j)) => i = j
  BY <1>3, SameHalf DEF StateKey
<1>5. ASSUME NEW s \in Spots(halves), s.deficit > 0, s.inning <= Regulation
      PROVE  {r.won : r \in {r \in FairRows : StateKey(r) = StateKey(s)}} = {s.trailing = ended.winner}
  <2>1. PICK i \in 1..Len(halves) : s = SpotAt(halves, i)
    BY SpotsAreSpots DEF GameInv
  <2>2. i \in Trailed
    BY <1>3, <1>5, <2>1 DEF Trailed
  <2>3. RowAt(i) \in FairRows /\ StateKey(RowAt(i)) = StateKey(s)
        /\ RowAt(i).won = (s.trailing = ended.winner)
    BY <1>1, <1>3, <2>1, <2>2
  <2>4. ASSUME NEW r \in FairRows, StateKey(r) = StateKey(s) PROVE r = RowAt(i)
    <3>1. PICK j \in Trailed : r = RowAt(j)
      BY <1>2
    <3>2. StateKey(SpotAt(halves, j)) = StateKey(SpotAt(halves, i)) /\ j \in 1..Len(halves)
      BY <1>1, <2>1, <2>4, <3>1
    <3> QED
      BY <1>4, <3>1, <3>2
  <2>5. {r \in FairRows : StateKey(r) = StateKey(s)} = {RowAt(i)}
    BY <2>3, <2>4
  <2> QED
    BY <2>3, <2>5, Zenon
<1>6. ASSUME NEW r \in FairRows
      PROVE  \E i \in 1..Len(halves) : StateKey(r) = StateKey(SpotAt(halves, i))
  BY <1>1, <1>2
<1>7. ASSUME NEW r \in FairRows, NEW q \in FairRows, StateKey(r) = StateKey(q) PROVE r = q
  BY <1>1, <1>2, <1>4, <1>7
<1> QED
  BY <1>5, <1>6, <1>7

\* GameSpots.FairCountsTheSpot, for every game the model plays.
THEOREM FairCountsTheSpotCorrect == RunSpec => []FairCountsTheSpot
  BY RunInvInit, RunInvInductive, FairCountsTheSpotFollows, PTL DEF RunSpec

-----------------------------------------------------------------------------
(***************************************************************************)
(* The records.  A behaviour moves one part and leaves the others as they  *)
(* began, so every part keeps its own invariant.                           *)
(***************************************************************************)
RecordsInv ==
    /\ SweepInv /\ FillInv /\ AcctShapeInv /\ HeldInv /\ MatchTypeOK /\ AuthInv
    /\ ResetInv /\ RunInv

LEMMA RecordsInitInv == RecordsInit => RecordsInv
  BY SweepInitInv, FillInitInv, AcctTypesInit, SurvivalInit, HeldInit, MatchTypes, AuthInitInv,
     ResetTypesInit, RunInvInit
     DEF RecordsInit, RecordsInv, AcctShapeInv

\* A step of the records is a step of each part, or leaves it alone.
LEMMA RecordsSteps ==
  ASSUME [RecordsNext]_recordsVars
  PROVE  /\ [SweepNext]_sweepVars /\ [FillNext]_fillVars /\ [AcctNext]_acctVars
         /\ [SyncNext]_syncVars /\ [MatchNext]_matchVars /\ [AuthNext]_authVars
         /\ [ResetNext]_resetVars /\ [RunNext]_runVars
  BY Zenon DEF RecordsNext, recordsVars

LEMMA RecordsInvInductive == RecordsInv /\ [RecordsNext]_recordsVars => RecordsInv'
<1> SUFFICES ASSUME RecordsInv, [RecordsNext]_recordsVars PROVE RecordsInv'
  OBVIOUS
<1> USE DEF RecordsInv
<1>1. SweepInv'
  BY RecordsSteps, SweepInvInductive
<1>2. FillInv'
  BY RecordsSteps, FillInvInductive
<1>3. AcctShapeInv'
  BY RecordsSteps, AcctTypes, SurvivalInductive DEF AcctShapeInv
<1>4. HeldInv'
  BY RecordsSteps, HeldInductive
<1>5. MatchTypeOK'
  BY RecordsSteps, MatchTypes
<1>6. AuthInv'
  BY RecordsSteps, AuthInvInductive
<1>7. ResetInv'
  BY RecordsSteps, ResetInductive
<1>8. RunInv'
  BY RecordsSteps, RunInvInductive
<1> QED
  BY <1>1, <1>2, <1>3, <1>4, <1>5, <1>6, <1>7, <1>8

\* Every part of the records has its types: the season, the games, the accounts and
\* their fills, the trips, the people and the trades of the replay.
THEOREM RecordsTypeOKCorrect == RecordsSpec => []RecordsTypeOK
<1>1. RecordsInv => RecordsTypeOK
  BY RunTypes DEF RecordsInv, RecordsTypeOK, SweepInv, FillInv, AcctShapeInv, HeldInv, AuthInv,
            ResetInv
<1> QED
  BY <1>1, RecordsInitInv, RecordsInvInductive, PTL DEF RecordsSpec

\* backtest/engine.py: for every game, verdict and setting, the three promises of
\* a replay together.
THEOREM TradesAreHonestCorrect == RecordsSpec => []TradesAreHonest
<1>1. RecordsInv => TradesAreHonest
  BY NoLookAheadFollows, NoFreeMoneyFollows, OneStakePerGameFollows DEF RecordsInv, TradesAreHonest
<1> QED
  BY <1>1, RecordsInitInv, RecordsInvInductive, PTL DEF RecordsSpec

\* traders/engine.py and service.py, for any tape of fills, any final prices, any
\* transaction and any rows of the activity feed: the results of the trips are the
\* cash of the fills that found a position and the value of what was held, each
\* such fill in one trip, and the fees of a transaction meet its cash up to the
\* rounding of the shares.
THEOREM TripsMeetTheCashCorrect == RecordsSpec => []TripsMeetTheCash
<1>1. RecordsInv => TripsMeetTheCash
  BY TripsOfAnAccount DEF RecordsInv, TripsMeetTheCash
<1> QED
  BY <1>1, RecordsInitInv, RecordsInvInductive, PTL DEF RecordsSpec
=============================================================================
