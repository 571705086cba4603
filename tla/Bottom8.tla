------------------------------ MODULE Bottom8 ------------------------------
(***************************************************************************)
(* The tracker of games tied at the middle of the 8th: bottom8/tracker.py  *)
(* over the cache of mlb/live.py, with the table of bottom8/store.py.      *)
(*                                                                         *)
(* A pass looks at the states that were cached when it began: it opens rows*)
(* (awaiting a price and the official date), then follows what is tracked  *)
(* and still live, and settles what has left the list, awaiting            *)
(* light_state.  Prices and names are not modelled; a row is twelve hours  *)
(* old by choice.                                                          *)
(***************************************************************************)
EXTENDS MlbFeed

VARIABLES live,     \* live_states() at the start of the pass
          pace,     \* step of the pass
          visits,     \* games the step still has to visit
          rows,     \* bottom8_games
          middle    \* history: the score at the middle of the 8th

eightVars == <<line, before, posted, sched, onList, state, wire,
               live, pace, visits, rows, middle>>

EightInit ==
    /\ MlbInit
    /\ live = <<>>
    /\ pace = "idle"
    /\ visits = {}
    /\ rows = <<>>
    /\ middle = [g \in Game |-> ScoreOf(line[g])]

\* The break before the bottom of an inning, or nobody out in it.
AtBottomOf8(l) == l.at \in {"M8", "B8"}
AtBottomOf9(l) == l.at \in {"M9", "B9"}
Tied(l) == l.away = l.home

EightBegin ==
    /\ pace = "idle"
    /\ live' = LiveStates
    /\ visits' = {g \in DOMAIN LiveStates :
                   /\ LiveStates[g].status = "Live"
                   /\ Tied(LiveStates[g].line) /\ AtBottomOf8(LiveStates[g].line)}
    /\ pace' = "open"
    /\ UNCHANGED <<mlbVars, rows, middle>>

\* INSERT OR IGNORE, from the state the pass began with
OpenRow(g) ==
    rows' = [h \in DOMAIN rows \cup {g} |->
                IF h \in DOMAIN rows THEN rows[h]
                ELSE [b8 |-> ScoreOf(live[g].line), b9 |-> Nothing,
                      final |-> Nothing, status |-> "tracking"]]

OpenGame(g) ==
    /\ pace = "open" /\ g \in visits
    /\ visits' = visits \ {g}
    /\ OpenRow(g)
    /\ UNCHANGED <<mlbVars, live, pace, middle>>

Tracking == {g \in DOMAIN rows : rows[g].status = "tracking"}

\* Rows past the age cap are retired before the others are read.
TrackBegin ==
    /\ pace = "open" /\ visits = {}
    /\ \E old \in SUBSET Tracking :
          /\ rows' = [g \in DOMAIN rows |->
                         IF g \in old THEN [rows[g] EXCEPT !.status = "stale"] ELSE rows[g]]
          /\ visits' = Tracking \ old
    /\ pace' = "track"
    /\ UNCHANGED <<mlbVars, live, middle>>

StillLive(g) == g \in DOMAIN live /\ live[g].status = "Live"

FollowLive(g) ==
    /\ pace = "track" /\ g \in visits /\ StillLive(g)
    /\ visits' = visits \ {g}
    /\ rows' = IF rows[g].b9 = Nothing /\ AtBottomOf9(live[g].line)
               THEN [rows EXCEPT ![g].b9 = ScoreOf(live[g].line)] ELSE rows
    /\ UNCHANGED <<mlbVars, live, pace, middle>>

\* Mutant of IsFinal.
IsFinalIfOffList(st) == TRUE

IsFinal(st) == st.status = "Final"

SettleWith(g, st) ==
    /\ visits' = visits \ {g}
    /\ rows' = IF IsFinal(st)
               THEN [rows EXCEPT ![g].final = ScoreOf(st.line), ![g].status = "final"]
               ELSE rows

MayFinish(g) == pace = "track" /\ g \in visits /\ ~StillLive(g)

\* The schedule still has it going, or light_state knows nothing of the game.
NotYet(g) ==
    /\ MayFinish(g)
    /\ sched[g] = "Live" \/ LightStatus(g) = Unknown
    /\ visits' = visits \ {g}
    /\ UNCHANGED <<mlbVars, live, pace, rows, middle>>

\* light_state answers from the cache: it is fresh, or its request has failed.
FinishFromCache(g) ==
    /\ MayFinish(g) /\ sched[g] # "Live" /\ state[g] # Nothing
    /\ SettleWith(g, state[g])
    /\ UNCHANGED <<mlbVars, live, pace, middle>>

FinishAsk(g) ==
    /\ MayFinish(g) /\ sched[g] # "Live"
    /\ LightAsk(g)
    /\ pace' = "wait"
    /\ UNCHANGED <<live, visits, rows, middle>>

FinishArrive(g) ==
    /\ pace = "wait" /\ g \in visits
    /\ Arrive("caller", g)
    /\ SettleWith(g, wire["caller"][g])
    /\ pace' = "track"
    /\ UNCHANGED <<live, middle>>

FinishFail(g) ==
    /\ pace = "wait" /\ g \in visits
    /\ Fail("caller", g)
    /\ IF state[g] = Nothing THEN visits' = visits \ {g} /\ UNCHANGED rows
                             ELSE SettleWith(g, state[g])
    /\ pace' = "track"
    /\ UNCHANGED <<live, middle>>

EightEnd ==
    /\ pace = "track" /\ visits = {}
    /\ pace' = "idle" /\ live' = <<>>
    /\ UNCHANGED <<mlbVars, visits, rows, middle>>

EightRestart ==
    /\ MlbRestart
    /\ pace' = "idle" /\ live' = <<>> /\ visits' = {}
    /\ UNCHANGED <<rows, middle>>

EightNext ==
    \/ /\ MlbStep
       /\ middle' = [g \in Game |-> IF line'[g].at \in {"T8", "M8"} THEN ScoreOf(line'[g])
                                                                  ELSE middle[g]]
       /\ UNCHANGED <<live, pace, visits, rows>>
    \/ EightBegin \/ TrackBegin \/ EightEnd \/ EightRestart
    \/ \E g \in Game :
          OpenGame(g) \/ FollowLive(g) \/ NotYet(g) \/ FinishFromCache(g) \/ FinishAsk(g)
             \/ FinishArrive(g) \/ FinishFail(g)

EightSpec == EightInit /\ [][EightNext]_eightVars

-----------------------------------------------------------------------------
EightTypeOK ==
    /\ MlbTypeOK
    /\ \A g \in DOMAIN live : live[g] \in State
    /\ pace \in {"idle", "open", "track", "wait"}
    /\ visits \subseteq Game
    /\ \A g \in DOMAIN rows :
          rows[g] \in [b8 : Score, b9 : Score \cup {Nothing}, final : Score \cup {Nothing},
                       status : {"tracking", "final", "stale"}]
    /\ middle \in [Game -> Score]

AtMost(a, b) == a.away <= b.away /\ a.home <= b.home

\* tracker._finish: a row is settled with the score the game ended with, though
\* the state it settles from may come from the cache, from a late answer or from
\* a request that raced the schedule; and the score never runs backwards from
\* the 8th to the 9th to the end.
RowsAreOfTheGame == \A g \in DOMAIN rows :
    LET row == rows[g]  end == ScoreOf(line[g]) IN
    /\ row.status = "final" <=> row.final # Nothing
    /\ row.final # Nothing => line[g].at = "F" /\ row.final = end
    /\ row.b9 # Nothing => AtMost(row.b8, row.b9) /\ AtMost(row.b9, end)

Retired == [kind |-> "stale"]
EntryOf(row) == [moment |-> row.b8, final |-> IF row.status = "stale" THEN Retired ELSE row.final]
EightEntries == [g \in DOMAIN rows |-> EntryOf(rows[g])]

\* bottom8_games as an alert log: a row is opened once, settled or retired once.
EightLog == INSTANCE AlertLog
    WITH Key <- Game, Moment <- Score, Final <- Score \cup {Retired}, entries <- EightEntries
RowsAreALog == EightLog!LogSpec

\* store.py: "one row per game that was TIED at the middle of the 8th".
TiedAtTheMiddle == \A g \in DOMAIN rows : middle[g].away = middle[g].home
=============================================================================
