----------------------------- MODULE FavHistory -----------------------------
(***************************************************************************)
(* backtest/favhistory.py: the Clear Favorite verdict of past games,       *)
(* rebuilt from what was known five minutes before first pitch.            *)
(*                                                                         *)
(* A batch first takes the tracked games without a row, which are priced   *)
(* from the ticks the application holds, and fills up with every finished  *)
(* game of the season, priced from Polymarket's bars or, for older games,  *)
(* from its trades.  Three builds at a time await prices, box score and    *)
(* schedule, and store a row.                                              *)
(*                                                                         *)
(* A price is the time it was quoted at, on the clock of its game; the     *)
(* schedule of a club is the set of its finished games (the model has one  *)
(* club whose games all are), and the season lines of a box score are the  *)
(* games they count.  The points are RebuiltVerdict's subject.  The scale  *)
(* of the starters and the bullpen ranks are those of the day of the batch *)
(* and left out: APPROXIMATIONS says so in every payload.                  *)
(***************************************************************************)
EXTENDS Integers, FiniteSets

CONSTANTS Contest,     \* games of the season
          DateOf,      \* the date of each
          SeasonEnd,   \* bound: the calendar stops here
          BatchLimit,  \* limit of run_batch
          BuildWidth,  \* CONCURRENCY
          Moment,      \* when a price of a game may be quoted
          DayOpen, LockAt, FirstPitchAt,  \* 10:00 UTC, T-5 and first pitch among them
          TickLag,     \* max_lag_s of tick_price_at
          OpenTickLag, \* max_lag_s for the day's open
          BarLag,      \* the hole a bar may be away from T-5
          TapePage, TapePages  \* trades of a page, _MAX_TAPE_PAGES

\* A pitch is TickLag after T-5, and a game starts BarLag after the day's open or
\* later (the two games of an opening series in Asia do not).
ASSUME GameClockAssumption ==
    /\ Moment \subseteq Nat
    /\ {DayOpen, LockAt, FirstPitchAt, TickLag, BarLag} \subseteq Nat
    /\ LockAt + TickLag <= FirstPitchAt
    /\ DayOpen + BarLag <= LockAt
ASSUME SeasonAssumption == SeasonEnd \in Nat \ {0} /\ DateOf \in [Contest -> 1..SeasonEnd]

VARIABLES calendar, \* the UTC date
          final,    \* finished games
          corpus,   \* games of backtest_games with status done
          history,  \* rows of backtest_fav_history
          listed,     \* entries of the batch that wait for the semaphore
          builds,   \* entries in work
          schedule  \* _sched_cache: the finished games of the club, or NoSchedule

histVars == <<calendar, final, corpus, history, listed, builds, schedule>>

Sides == {"home", "away"}
NoQuote == 0 - 1
NoSchedule == {"not read"}
Entry == [pk : Contest, tracked : BOOLEAN]

HistInit ==
    /\ calendar = 1
    /\ final = {} /\ corpus = {}
    /\ history = [g \in {} |-> {}]
    /\ listed = {} /\ builds = {}
    /\ schedule = NoSchedule

-----------------------------------------------------------------------------
(***************************************************************************)
(* Prices: at T-5, and at the day's open for the movement since.           *)
(***************************************************************************)
EarliestOf(S) == CHOOSE t \in S : \A u \in S : t <= u
LatestOf(S) == CHOOSE t \in S : \A u \in S : t >= u
FirstFrom(S, t) == IF \E u \in S : u >= t THEN EarliestOf({u \in S : u >= t}) ELSE NoQuote

\* store.tick_price_at: the first tick from a moment on, unless it is too late.
TickPriceAt(ticks, t, lag) ==
    LET first == FirstFrom(ticks, t) IN IF first > t + lag THEN NoQuote ELSE first

OwnQuotes == {[t5 |-> TickPriceAt(ticks, LockAt, TickLag),
               open |-> TickPriceAt(ticks, DayOpen, OpenTickLag)] : ticks \in SUBSET Moment}

\* _gamma_prices: the last bar before T-5, unless the history has a hole there.
UsableBars(bars) == \E t \in bars : t <= LockAt /\ LockAt - t <= BarLag

BarQuotes == {[t5 |-> LatestOf({t \in bars : t <= LockAt}), open |-> FirstFrom(bars, DayOpen)] :
                 bars \in {b \in SUBSET Moment : UsableBars(b)}}

\* _tape_prices pages backwards and gives up when the last page it may ask for
\* has not crossed the day's open.
Crossed(trades) ==
    LET asked == IF Cardinality(trades) <= TapePage * TapePages THEN Cardinality(trades)
                 ELSE TapePage * TapePages
    IN \/ Cardinality(trades) <= TapePage * (TapePages - 1)
       \/ Cardinality({r \in trades : r.at >= DayOpen}) < asked

\* A side nobody traded is the complement of the other, without an open.
TapeQuote(before, s) ==
    LET own == {r.at : r \in {q \in before : q.side = s}}
    IN IF own # {} THEN [t5 |-> LatestOf(own), open |-> EarliestOf(own)]
       ELSE [t5 |-> LatestOf({r.at : r \in before}), open |-> NoQuote]

Unpriced == [s \in Sides |-> [t5 |-> NoQuote, open |-> NoQuote]]
TapeQuotes(trades) ==
    LET before == {r \in trades : DayOpen <= r.at /\ r.at <= LockAt}
    IN IF ~Crossed(trades) \/ before = {} THEN Unpriced
       ELSE [s \in Sides |-> TapeQuote(before, s)]

\* What a build may find: its own ticks; or bars of both sides, or else the
\* trades, or no event at all.
TrackedPrices == [Sides -> OwnQuotes]
SweptPrices == [Sides -> BarQuotes]
                 \cup {TapeQuotes(trades) : trades \in SUBSET [at : Moment, side : Sides]}
PricesOf(tracked) == IF tracked THEN TrackedPrices ELSE SweptPrices

-----------------------------------------------------------------------------
(***************************************************************************)
(* A batch.                                                                *)
(***************************************************************************)
Smaller(m, n) == IF m <= n THEN m ELSE n
OldestFirst(chosen, S) == \A g \in chosen, h \in S \ chosen : DateOf[g] <= DateOf[h]

\* run_batch: _status["running"].
BatchIsRunning == listed # {} \/ builds # {}

\* _pending: tracked games whose info MLB answers, then the sweep of the days
\* that answer.  The sweep leaves out the games that have a row, and those only.
TakeBatch ==
    /\ ~BatchIsRunning
    /\ \E answered \in SUBSET (corpus \ DOMAIN history), days \in SUBSET (1..calendar - 1) :
       LET room == BatchLimit - Cardinality(answered)
           finished == {g \in final \ DOMAIN history : DateOf[g] \in days}
       IN /\ room >= 0
          /\ \E swept \in SUBSET finished :
                /\ Cardinality(swept) = Smaller(room, Cardinality(finished))
                /\ OldestFirst(swept, finished)
                /\ listed' = [pk : answered, tracked : {TRUE}]
                             \cup [pk : swept, tracked : {FALSE}]
    /\ UNCHANGED <<calendar, final, corpus, history, builds, schedule>>

\* The semaphore lets them in in the order of the batch.
BeginBuild(e) ==
    /\ Cardinality(builds) < BuildWidth
    /\ \A f \in listed : /\ f.tracked => e.tracked
                       /\ ~f.tracked /\ ~e.tracked => DateOf[e.pk] <= DateOf[f.pk]
    /\ listed' = listed \ {e}
    /\ builds' = builds \cup {e}
    /\ UNCHANGED <<calendar, final, corpus, history, schedule>>

Prior(games, g) == {h \in games : DateOf[h] < DateOf[g]}

\* save_fav_history: INSERT OR REPLACE.
SaveFavHistory(g, r) ==
    history' = [h \in DOMAIN history \cup {g} |-> IF h = g THEN r ELSE history[h]]

\* _build: the box score as it was at first pitch, whose season lines MLB stamped before
\* the game; where MLB does not answer that, the box score of now, whose lines may count
\* this game and later ones as well.
SeasonLines(g) == {[timed |-> TRUE, games |-> Prior(final, g)], [timed |-> FALSE, games |-> final]}

\* Without a box score it returns before it has asked for the schedule; the first
\* answer for a club is kept as long as the process lives (two builds that ask for
\* it moments apart are one question here).
FinishBuild(e) ==
    /\ schedule' = IF schedule = NoSchedule THEN final ELSE schedule
    /\ \E p \in PricesOf(e.tracked), box \in SeasonLines(e.pk) :
          SaveFavHistory(e.pk, [tracked |-> e.tracked, prices |-> p, box |-> box,
                                form |-> Prior(schedule', e.pk)])
    /\ builds' = builds \ {e}
    /\ UNCHANGED <<calendar, final, corpus, listed>>

\* An error, or no box score: nothing is stored.
BuildFails(e) ==
    /\ builds' = builds \ {e}
    /\ UNCHANGED <<calendar, final, corpus, history, listed, schedule>>

-----------------------------------------------------------------------------
\* A stop of the process keeps the tables.
HistoryStop ==
    /\ listed' = {} /\ builds' = {} /\ schedule' = NoSchedule
    /\ UNCHANGED <<calendar, final, corpus, history>>

Finishes(g) ==
    /\ g \notin final /\ DateOf[g] <= calendar
    /\ final' = final \cup {g}
    /\ UNCHANGED <<calendar, corpus, history, listed, builds, schedule>>

\* GameBackfill finishes a tracked game.
EntersCorpus(g) ==
    /\ g \in final \ corpus
    /\ corpus' = corpus \cup {g}
    /\ UNCHANGED <<calendar, final, history, listed, builds, schedule>>

NextCalendarDay ==
    /\ calendar < SeasonEnd
    /\ calendar' = calendar + 1
    /\ UNCHANGED <<final, corpus, history, listed, builds, schedule>>

HistNext ==
    \/ TakeBatch
    \/ \E e \in listed : BeginBuild(e)
    \/ \E e \in builds : FinishBuild(e) \/ BuildFails(e)
    \/ \E g \in Contest : Finishes(g) \/ EntersCorpus(g)
    \/ NextCalendarDay \/ HistoryStop

HistSpec == HistInit /\ [][HistNext]_histVars

-----------------------------------------------------------------------------
Quote == [t5 : Moment \cup {NoQuote}, open : Moment \cup {NoQuote}]
HistTypeOK ==
    /\ calendar \in 1..SeasonEnd
    /\ final \subseteq Contest /\ corpus \subseteq final
    /\ listed \subseteq Entry /\ builds \subseteq Entry
    /\ schedule = NoSchedule \/ schedule \subseteq final
    /\ \A g \in DOMAIN history :
          history[g] \in [tracked : BOOLEAN, prices : [Sides -> Quote], form : SUBSET Contest,
                          box : [timed : BOOLEAN, games : SUBSET Contest]]

\* favhistory.py, "all as-of-then", as far as that is so: whatever ticks, bars and trades a
\* game has, a side is scored on no price quoted after first pitch (after T-5 when the
\* price is not from ticks), its movement begins no later than it ends, its strength, rest
\* and form count finished games of earlier dates only, and so do its starter and lineup
\* when the box score is that of first pitch.  A box score of now is an exception that the
\* row does not show.
AsOfThen ==
    \A g \in DOMAIN history :
       /\ \A s \in Sides :
             LET q == history[g].prices[s] IN
             /\ q.t5 <= IF history[g].tracked THEN FirstPitchAt ELSE LockAt
             /\ q.t5 # NoQuote => q.open <= q.t5
       /\ \A h \in history[g].form \cup (IF history[g].box.timed THEN history[g].box.games ELSE {}) :
             h \in final /\ DateOf[h] < DateOf[g]

\* favhistory.run_batch: the job and the page's button start batches that never
\* overlap, so a stored verdict is not rebuilt, except by the entry its own batch
\* listed for the game a second time.
RebuiltOnce ==
    \A e \in listed \cup builds :
       e.pk \in DOMAIN history => history[e.pk].tracked # e.tracked

\* favhistory.py: "tracked games use our own ticks (exact); every other game uses
\* CLOB's settled-market history".  Does not hold: a tracked game without a row is
\* also swept, and the second build replaces the row of the first.
ExactRowsStay ==
    [][\A g \in DOMAIN history : history[g].tracked => history'[g].tracked]_histVars

\* favhistory.py: "season schedules sliced to the date".  Does not hold: the
\* schedule read by the first batch of a process is the schedule of all of them.
FormIsWhole ==
    [][\A g \in DOMAIN history' \ DOMAIN history :
          history'[g].form = Prior(final, g)]_histVars

\* favhistory.py: "boxscore seasonStats (MLB stamps them per game)".  Does not hold for the
\* box score of now, which _build takes when the one of first pitch cannot be had.
LinesAreOfThen ==
    \A g \in DOMAIN history : \A h \in history[g].box.games : DateOf[h] < DateOf[g]
=============================================================================
