------------------------------- MODULE MlbFeed -------------------------------
(***************************************************************************)
(* mlb/live.py: the cache of live games that the alerts are read from, over*)
(* the games themselves (mlb/client.py asks for them).                     *)
(*                                                                         *)
(* A request carries the status the schedule had and the linescore MLB read*)
(* for it, and is stored when the answer arrives: of two requests the older*)
(* may be stored last.                                                     *)
(* Slot "poll" is the job's, "caller" that of who asks light_state.        *)
(* A game is followed from the 8th to its end, as far as the alerts look at*)
(* it.  Whether a cached state is still fresh is a choice; counters and    *)
(* extras are not modelled, and one schedule request is one step.          *)
(***************************************************************************)
EXTENDS Integers, FiniteSets, Sequences

CONSTANTS Game, Pitcher, First,   \* pitchers of the away side, the one in at first
          Starts,                 \* stages the games are followed from, at 0-0
          MaxRuns                 \* bound: runs of one side

ASSUME FirstAssumption == First \in Pitcher
VARIABLES line,      \* the linescore of each game as it really is
          before,    \* pitchers of the away side that have come and gone
          posted,    \* what MLB's schedule says of each game
          sched,     \* _sched, Unknown when it holds nothing
          onList,    \* _live["games"]
          state,     \* _state
          wire       \* requests in flight

mlbVars == <<line, before, posted, sched, onList, state, wire>>

Unknown == "unknown"
Nothing == [kind |-> "none"]

\* T8 top of the 8th, M8 the break after it, B8 its bottom with nobody out, B8+
\* with an out; XI extra innings, F the last out.
Stage == {"T8", "M8", "B8", "B8+", "T9", "M9", "B9", "B9+", "XI", "F"}
Runs == 0..MaxRuns
ASSUME StartAssumption == MaxRuns \in Nat /\ Starts \subseteq Stage

ScoreOf(l) == [away |-> l.away, home |-> l.home]
Score == [away : Runs, home : Runs]
Line == [at : Stage, away : Runs, home : Runs, pitcher : Pitcher]
Status == {"Live", "Final"}
Slot == {"poll", "caller"}
State == [line : Line, status : Status]

MlbInit ==
    /\ line \in [Game -> [at : Starts, away : {0}, home : {0}, pitcher : {First}]]
    /\ before = [g \in Game |-> {}]
    /\ posted = [g \in Game |-> "Live"]
    /\ sched = [g \in Game |-> Unknown]
    /\ onList = {}
    /\ state = [g \in Game |-> Nothing]
    /\ wire = [s \in Slot |-> [g \in Game |-> Nothing]]

-----------------------------------------------------------------------------
\* The game itself.  In the 9th and after, the home side stops when it leads.
After(l) == CASE l.at = "T8" -> {"M8"}
              [] l.at = "M8" -> {"B8"}
              [] l.at = "B8" -> {"B8+"}
              [] l.at = "B8+" -> {"T9"}
              [] l.at = "T9" -> IF l.home > l.away THEN {"F"} ELSE {"M9"}
              [] l.at = "M9" -> {"B9"}
              [] l.at = "B9" -> IF l.home > l.away THEN {"F"} ELSE {"B9+"}
              [] l.at = "B9+" -> IF l.home = l.away THEN {"XI"} ELSE {"F"}
              [] l.at = "XI" -> IF l.home = l.away THEN {} ELSE {"F"}
              [] OTHER -> {}

HomeBats == {"B8", "B8+", "B9", "B9+", "XI"}
AwayBats == {"T8", "T9", "XI"}
WalkOff(l) == l.at \in {"B9", "B9+", "XI"} /\ l.home > l.away

PlayGame(g) ==
    /\ \/ \E at \in After(line[g]) : line' = [line EXCEPT ![g].at = at]
       \/ /\ line[g].at \in AwayBats /\ line[g].away < MaxRuns /\ ~WalkOff(line[g])
          /\ line' = [line EXCEPT ![g].away = @ + 1]
       \/ /\ line[g].at \in HomeBats /\ line[g].home < MaxRuns /\ ~WalkOff(line[g])
          /\ line' = [line EXCEPT ![g].home = @ + 1]
    /\ UNCHANGED <<before, posted, sched, onList, state, wire>>

\* A pitcher who leaves does not come back.
ChangePitcher(g) ==
    /\ line[g].at \notin {"T8", "T9", "F"}
    /\ \E p \in Pitcher \ (before[g] \cup {line[g].pitcher}) :
          line' = [line EXCEPT ![g].pitcher = p]
    /\ before' = [before EXCEPT ![g] = @ \cup {line[g].pitcher}]
    /\ UNCHANGED <<posted, sched, onList, state, wire>>

Post(g) ==
    /\ line[g].at = "F" /\ posted[g] = "Live"
    /\ posted' = [posted EXCEPT ![g] = "Final"]
    /\ UNCHANGED <<line, before, sched, onList, state, wire>>

-----------------------------------------------------------------------------
\* The two days are asked for one after the other; the games of a day that
\* fails keep their status and leave the list.
RefreshSchedule ==
    \E answered \in (SUBSET Game) \ {{}} :
       /\ sched' = [g \in Game |-> IF g \in answered THEN posted[g] ELSE sched[g]]
       /\ onList' = {g \in answered : posted[g] = "Live"}
       /\ UNCHANGED <<line, before, posted, state, wire>>

Ask(s, g, status) ==
    /\ wire[s][g] = Nothing
    /\ wire' = [wire EXCEPT ![s][g] = [line |-> line[g], status |-> status]]
    /\ UNCHANGED <<line, before, posted, sched, onList, state>>

\* What arrives is stored and, by light_state, returned.
Arrive(s, g) ==
    /\ wire[s][g] # Nothing
    /\ state' = [state EXCEPT ![g] = wire[s][g]]
    /\ wire' = [wire EXCEPT ![s][g] = Nothing]
    /\ UNCHANGED <<line, before, posted, sched, onList>>

Fail(s, g) ==
    /\ wire[s][g] # Nothing
    /\ wire' = [wire EXCEPT ![s][g] = Nothing]
    /\ UNCHANGED <<line, before, posted, sched, onList, state>>

\* poll: the status comes with the list.
PollGame(g) == g \in onList /\ Ask("poll", g, "Live")

\* light_state on a miss: the status of the schedule, else of the old state.
LightStatus(g) == IF sched[g] # Unknown THEN sched[g]
                  ELSE IF state[g] # Nothing THEN state[g].status ELSE Unknown

\* Mutant of LightAsk.
LightAskRegardless(g) == Ask("caller", g, LightStatus(g))

LightAsk(g) ==
    /\ LightStatus(g) # Unknown
    /\ Ask("caller", g, LightStatus(g))

LiveStates == [g \in {h \in onList : state[h] # Nothing} |-> state[g]]

MlbRestart ==
    /\ sched' = [g \in Game |-> Unknown]
    /\ onList' = {}
    /\ state' = [g \in Game |-> Nothing]
    /\ wire' = [s \in Slot |-> [g \in Game |-> Nothing]]
    /\ UNCHANGED <<line, before, posted>>

\* What goes on whoever reads the cache
MlbStep ==
    \/ RefreshSchedule
    \/ \E g \in Game :
          \/ PlayGame(g) \/ ChangePitcher(g) \/ Post(g)
          \/ PollGame(g) \/ Arrive("poll", g) \/ Fail("poll", g)

MlbTypeOK ==
    /\ line \in [Game -> Line]
    /\ before \in [Game -> SUBSET Pitcher]
    /\ posted \in [Game -> Status]
    /\ sched \in [Game -> Status \cup {Unknown}]
    /\ onList \subseteq Game
    /\ state \in [Game -> State \cup {Nothing}]
    /\ wire \in [Slot -> [Game -> State \cup {Nothing}]]
=============================================================================
