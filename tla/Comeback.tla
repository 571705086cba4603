------------------------------ MODULE Comeback ------------------------------
(***************************************************************************)
(* The comeback alert: comeback/detector.py over the cache of mlb/live.py, *)
(* with the triggers of comeback/store.py and the finals of outcomes.py.   *)
(*                                                                         *)
(* A pass goes through the states that were cached when it began and awaits*)
(* the game log of a pitcher who was not there before; only the away       *)
(* side's pitcher can lead to an alert.  What the game log says, and the   *)
(* switches of the configuration at their defaults, are a choice.  Price   *)
(* samples and acknowledgements are not modelled.                          *)
(***************************************************************************)
EXTENDS MlbFeed

VARIABLES seen,      \* _seen, for the away side
          batch,     \* what the pass still has to look at
          asking,    \* the game log the pass awaits
          alerts     \* comeback_triggers, by game and pitcher

comeVars == <<line, before, posted, sched, onList, state, wire,
              seen, batch, asking, alerts>>

ComeInit ==
    /\ MlbInit
    /\ seen = [g \in Game |-> Unknown]
    /\ batch = <<>>
    /\ asking = Nothing
    /\ alerts = <<>>

Drop(f, g) == [h \in DOMAIN f \ {g} |-> f[h]]

DetectBegin ==
    /\ batch = <<>> /\ asking = Nothing
    /\ batch' = LiveStates
    /\ UNCHANGED <<mlbVars, seen, asking, alerts>>

\* `batting` flips in the break: the away side defends from the middle on.
AwayDefends == {"M8", "B8", "B8+", "M9", "B9", "B9+", "XI"}

\* Leading by one, or tied.
ScoreOk(l) == l.away - l.home \in {0, 1}

\* The pitcher is noted before anything else is asked about him.
Look(g) ==
    /\ asking = Nothing /\ g \in DOMAIN batch
    /\ batch' = Drop(batch, g)
    /\ LET l == batch[g].line IN
          IF batch[g].status = "Live" /\ l.at \in AwayDefends
          THEN /\ seen' = [seen EXCEPT ![g] = l.pitcher]
               /\ IF seen[g] \notin {Unknown, l.pitcher} /\ ScoreOk(l)
                  THEN asking' = [game |-> g, line |-> l]
                  ELSE UNCHANGED asking
          ELSE UNCHANGED <<seen, asking>>
    /\ UNCHANGED <<mlbVars, alerts>>

\* INSERT OR IGNORE, one trigger per game and pitcher
Fire(k, l) ==
    IF k \in DOMAIN alerts THEN UNCHANGED alerts
    ELSE alerts' = [i \in DOMAIN alerts \cup {k} |->
                       IF i = k THEN [moment |-> ScoreOf(l), final |-> Nothing] ELSE alerts[i]]

\* The log is unreachable, or the pitcher is rested, or he is not.
GameLog ==
    /\ asking # Nothing
    /\ asking' = Nothing
    /\ \/ UNCHANGED alerts
       \/ Fire(<<asking.game, asking.line.pitcher>>, asking.line)
    /\ UNCHANGED <<mlbVars, seen, batch>>

\* Mutant of Recordable.
RecordableIfKnown(g) == sched[g] # Unknown

\* The schedule is the judge of what is over.
Recordable(g) == sched[g] = "Final"

\* outcomes.record, for one trigger; the linescore is asked for anew.
RecordFinal(k) ==
    /\ alerts[k].final = Nothing
    /\ Recordable(k[1])
    /\ alerts' = [alerts EXCEPT ![k].final = ScoreOf(line[k[1]])]
    /\ UNCHANGED <<mlbVars, seen, batch, asking>>

\* Pages ask light_state for their rows at any time.
Pages == \E g \in Game : LightAsk(g) \/ Arrive("caller", g) \/ Fail("caller", g)

ComeRestart ==
    /\ MlbRestart
    /\ seen' = [g \in Game |-> Unknown]
    /\ batch' = <<>> /\ asking' = Nothing
    /\ UNCHANGED alerts

ComeNext ==
    \/ MlbStep /\ UNCHANGED <<seen, batch, asking, alerts>>
    \/ DetectBegin \/ GameLog \/ ComeRestart
    \/ \E g \in Game : Look(g)
    \/ Pages /\ UNCHANGED <<seen, batch, asking, alerts>>
    \/ \E k \in DOMAIN alerts : RecordFinal(k)

ComeSpec == ComeInit /\ [][ComeNext]_comeVars

-----------------------------------------------------------------------------
ComeTypeOK ==
    /\ MlbTypeOK
    /\ seen \in [Game -> Pitcher \cup {Unknown}]
    /\ \A g \in DOMAIN batch : batch[g] \in State
    /\ asking \in [game : Game, line : Line] \cup {Nothing}
    /\ DOMAIN alerts \subseteq Game \X Pitcher
    /\ \A k \in DOMAIN alerts : alerts[k] \in [moment : Score, final : Score \cup {Nothing}]

\* outcomes._final_score: the final of an alert is the score the game ended with.
FinalsAreFinal == \A k \in DOMAIN alerts : alerts[k].final # Nothing =>
    /\ line[k[1]].at = "F"
    /\ alerts[k].final = ScoreOf(line[k[1]])

\* The triggers are an alert log: what was detected stays, whatever later passes,
\* stale answers and restarts make the detector see again.
ComeLog == INSTANCE AlertLog WITH Key <- Game \X Pitcher, Moment <- Score, Final <- Score,
                              entries <- alerts
TriggersAreALog == ComeLog!LogSpec
=============================================================================
