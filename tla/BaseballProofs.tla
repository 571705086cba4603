--------------------------- MODULE BaseballProofs ---------------------------
(***************************************************************************)
(* Proofs about the baseball parts of the alerts (MlbFeed with Comeback and*)
(* with Bottom8, FavoriteLock, ClearFavorite with RebuiltVerdict, and      *)
(* FavHistory), for any games, pitchers and scores, any clubs and prices,  *)
(* any season and any quotes of a game.                                    *)
(***************************************************************************)
EXTENDS Comeback, Bottom8, FavoriteLock, RebuiltVerdict, FavHistory, TLAPS, WellFoundedInduction

-----------------------------------------------------------------------------
(***************************************************************************)
(* MlbFeed.  Whatever the job and the pages ask and when it arrives, the   *)
(* schedule calls a game final only after its last out, and a game that is *)
(* over stays as it is.                                                    *)
(***************************************************************************)
OverIsOver ==
    \A g \in Game : posted[g] = "Final" \/ sched[g] = "Final" => line[g].at = "F"

MlbInv == MlbTypeOK /\ OverIsOver

\* What the feed, its readers and the games may do.
MlbMove ==
    \/ RefreshSchedule \/ MlbRestart
    \/ \E g \in Game :
          \/ PlayGame(g) \/ ChangePitcher(g) \/ Post(g)
          \/ PollGame(g) \/ LightAsk(g) \/ \E s \in Slot : Arrive(s, g) \/ Fail(s, g)

\* Of the 8th up to nobody out in its bottom, or from there on.
Late(l) == l.at \notin {"T8", "M8", "B8"}

\* The linescore l may have been read before the linescore m.
NotAfter(l, m) == AtMost(l, m) /\ (Late(l) => Late(m))

LEMMA NothingIsNothing == Nothing \notin State /\ Nothing \notin Score
<1>1. \A x \in State : DOMAIN x = {"line", "status"}
  BY DEF State
<1>2. \A x \in Score : DOMAIN x = {"away", "home"}
  BY DEF Score
<1>3. DOMAIN Nothing = {"kind"}
  BY DEF Nothing
<1> QED
  BY <1>1, <1>2, <1>3

LEMMA AfterIsLater ==
  ASSUME NEW l \in Line, NEW at \in After(l)
  PROVE  at \in Stage /\ l.at # "F" /\ (Late(l) => at \notin {"T8", "M8", "B8"})
<1>1. l.at \in Stage
  BY DEF Line
<1>2. CASE l.at \in {"T8", "M8", "B8", "B8+"}
  BY <1>2 DEF After, Stage, Late
<1>3. CASE l.at \in {"T9", "M9", "B9"}
  BY <1>3 DEF After, Stage, Late
<1>4. CASE l.at \in {"B9+", "XI", "F"}
  BY <1>4 DEF After, Stage, Late
<1> QED
  BY <1>1, <1>2, <1>3, <1>4 DEF Stage

\* A game moves on until its last out.
LEMMA LineMoves ==
  ASSUME MlbTypeOK, NEW g \in Game, PlayGame(g) \/ ChangePitcher(g)
  PROVE  \E new \in Line : /\ line' = [line EXCEPT ![g] = new]
                           /\ line[g].at # "F" /\ NotAfter(line[g], new)
<1> DEFINE l == line[g]
<1>1. line \in [Game -> Line] /\ l \in Line /\ l.at \in Stage
  BY DEF MlbTypeOK, Line
<1>2. l.away \in Nat /\ l.home \in Nat /\ MaxRuns \in Nat
  BY <1>1, StartAssumption DEF Line, Runs
<1>3. ASSUME NEW at \in After(l), line' = [line EXCEPT ![g].at = at]
      PROVE  \E new \in Line : /\ line' = [line EXCEPT ![g] = new]
                               /\ l.at # "F" /\ NotAfter(l, new)
  <2> DEFINE new == [l EXCEPT !.at = at]
  <2>1. at \in Stage /\ l.at # "F" /\ (Late(l) => at \notin {"T8", "M8", "B8"})
    BY <1>1, AfterIsLater
  <2>2. new \in Line /\ new.at = at /\ new.away = l.away /\ new.home = l.home
    BY <1>1, <2>1 DEF Line
  <2>3. NotAfter(l, new)
    BY <1>2, <2>1, <2>2 DEF NotAfter, AtMost, Late
  <2> QED
    BY <1>1, <1>3, <2>1, <2>2, <2>3
<1>4. ASSUME l.at # "F", l.away < MaxRuns, line' = [line EXCEPT ![g].away = @ + 1]
      PROVE  \E new \in Line : /\ line' = [line EXCEPT ![g] = new]
                               /\ l.at # "F" /\ NotAfter(l, new)
  <2> DEFINE new == [l EXCEPT !.away = l.away + 1]
  <2>1. l.away + 1 \in Runs
    BY <1>2, <1>4 DEF Runs
  <2>2. new \in Line /\ new.at = l.at /\ new.away = l.away + 1 /\ new.home = l.home
    BY <1>1, <2>1 DEF Line
  <2>3. NotAfter(l, new)
    BY <1>2, <2>2 DEF NotAfter, AtMost, Late
  <2> QED
    BY <1>1, <1>4, <2>2, <2>3
<1>5. ASSUME l.at # "F", l.home < MaxRuns, line' = [line EXCEPT ![g].home = @ + 1]
      PROVE  \E new \in Line : /\ line' = [line EXCEPT ![g] = new]
                               /\ l.at # "F" /\ NotAfter(l, new)
  <2> DEFINE new == [l EXCEPT !.home = l.home + 1]
  <2>1. l.home + 1 \in Runs
    BY <1>2, <1>5 DEF Runs
  <2>2. new \in Line /\ new.at = l.at /\ new.home = l.home + 1 /\ new.away = l.away
    BY <1>1, <2>1 DEF Line
  <2>3. NotAfter(l, new)
    BY <1>2, <2>2 DEF NotAfter, AtMost, Late
  <2> QED
    BY <1>1, <1>5, <2>2, <2>3
<1>6. ASSUME l.at # "F", NEW p \in Pitcher, line' = [line EXCEPT ![g].pitcher = p]
      PROVE  \E new \in Line : /\ line' = [line EXCEPT ![g] = new]
                               /\ l.at # "F" /\ NotAfter(l, new)
  <2> DEFINE new == [l EXCEPT !.pitcher = p]
  <2>1. new \in Line /\ new.at = l.at /\ new.home = l.home /\ new.away = l.away
    BY <1>1 DEF Line
  <2>2. NotAfter(l, new)
    BY <1>2, <2>1 DEF NotAfter, AtMost, Late
  <2> QED
    BY <1>1, <1>6, <2>1, <2>2
<1>7. CASE PlayGame(g)
  BY <1>3, <1>4, <1>5, <1>7 DEF PlayGame, AwayBats, HomeBats
<1>8. CASE ChangePitcher(g)
  BY <1>6, <1>8 DEF ChangePitcher
<1> QED
  BY <1>7, <1>8

LEMMA GamesGoOn ==
  ASSUME MlbTypeOK, [MlbMove]_mlbVars, NEW g \in Game
  PROVE  /\ line'[g] \in Line
         /\ NotAfter(line[g], line'[g])
         /\ line[g].at = "F" => line'[g] = line[g]
<1>1. line \in [Game -> Line] /\ line[g] \in Line
  BY DEF MlbTypeOK
<1>2. NotAfter(line[g], line[g])
  <2>1. line[g].away \in Nat /\ line[g].home \in Nat
    BY <1>1 DEF Line, Runs
  <2> QED
    BY <2>1 DEF NotAfter, AtMost
<1>3. CASE UNCHANGED line
  BY <1>1, <1>2, <1>3
<1>4. ASSUME NEW h \in Game, PlayGame(h) \/ ChangePitcher(h)
      PROVE  /\ line'[g] \in Line
             /\ NotAfter(line[g], line'[g])
             /\ line[g].at = "F" => line'[g] = line[g]
  BY <1>1, <1>2, <1>4, LineMoves
<1> QED
  BY <1>3, <1>4 DEF MlbMove, mlbVars, RefreshSchedule, MlbRestart, Post, PollGame, LightAsk,
                    Ask, Arrive, Fail

LEMMA MlbTypes == MlbTypeOK /\ [MlbMove]_mlbVars => MlbTypeOK'
<1> SUFFICES ASSUME MlbTypeOK, [MlbMove]_mlbVars PROVE MlbTypeOK'
  OBVIOUS
<1>1. CASE RefreshSchedule
  BY <1>1 DEF RefreshSchedule, MlbTypeOK, Status
<1>2. CASE MlbRestart
  BY <1>2 DEF MlbRestart, MlbTypeOK
<1>3. ASSUME NEW g \in Game, PlayGame(g) \/ ChangePitcher(g) PROVE MlbTypeOK'
  <2>1. line' \in [Game -> Line]
    BY <1>3, LineMoves DEF MlbTypeOK
  <2>2. before' \in [Game -> SUBSET Pitcher]
    <3>1. line[g].pitcher \in Pitcher
      BY DEF MlbTypeOK, Line
    <3> QED
      BY <1>3, <3>1 DEF PlayGame, ChangePitcher, MlbTypeOK
  <2> QED
    BY <1>3, <2>1, <2>2 DEF PlayGame, ChangePitcher, MlbTypeOK
<1>4. ASSUME NEW g \in Game, Post(g) PROVE MlbTypeOK'
  BY <1>4 DEF Post, MlbTypeOK, Status
<1>5. ASSUME NEW g \in Game, NEW s \in Slot, NEW status \in Status, Ask(s, g, status)
      PROVE  MlbTypeOK'
  <2>1. [line |-> line[g], status |-> status] \in State
    BY DEF MlbTypeOK, State
  <2> QED
    BY <1>5, <2>1 DEF Ask, MlbTypeOK
<1>6. ASSUME NEW g \in Game, PollGame(g) \/ LightAsk(g) PROVE MlbTypeOK'
  <2>1. LightStatus(g) # Unknown => LightStatus(g) \in Status
    BY DEF LightStatus, MlbTypeOK, State
  <2>2. "poll" \in Slot /\ "caller" \in Slot /\ "Live" \in Status
    BY DEF Slot, Status
  <2> QED
    BY <1>5, <1>6, <2>1, <2>2 DEF PollGame, LightAsk
<1>7. ASSUME NEW g \in Game, NEW s \in Slot, Arrive(s, g) \/ Fail(s, g) PROVE MlbTypeOK'
  BY <1>7 DEF Arrive, Fail, MlbTypeOK
<1>8. CASE UNCHANGED mlbVars
  BY <1>8 DEF mlbVars, MlbTypeOK
<1> QED
  BY <1>1, <1>2, <1>3, <1>4, <1>6, <1>7, <1>8 DEF MlbMove

LEMMA MlbInvHolds == MlbInv /\ [MlbMove]_mlbVars => MlbInv'
<1> SUFFICES ASSUME MlbInv, [MlbMove]_mlbVars PROVE MlbInv'
  OBVIOUS
<1>1. MlbTypeOK'
  BY MlbTypes DEF MlbInv
<1>2. \A g \in Game : line[g].at = "F" => line'[g].at = "F"
  BY GamesGoOn DEF MlbInv
<1>3. \A g \in Game : posted'[g] = "Final" \/ sched'[g] = "Final" => line[g].at = "F"
  <2> USE DEF MlbInv, OverIsOver
  <2>1. CASE RefreshSchedule
    BY <2>1 DEF RefreshSchedule
  <2>2. CASE MlbRestart
    BY <2>2 DEF MlbRestart, Unknown
  <2>3. ASSUME NEW g \in Game, Post(g)
        PROVE  \A h \in Game : posted'[h] = "Final" \/ sched'[h] = "Final" => line[h].at = "F"
    BY <2>3 DEF Post, MlbTypeOK
  <2>4. CASE UNCHANGED <<posted, sched>>
    BY <2>4
  <2> QED
    BY <2>1, <2>2, <2>3, <2>4 DEF MlbMove, mlbVars, PlayGame, ChangePitcher, PollGame, LightAsk,
                                  Ask, Arrive, Fail
<1> QED
  BY <1>1, <1>2, <1>3 DEF MlbInv, OverIsOver

LEMMA MlbInitInv == MlbInit => MlbInv
<1> SUFFICES ASSUME MlbInit PROVE MlbInv
  OBVIOUS
<1>1. [at : Starts, away : {0}, home : {0}, pitcher : {First}] \subseteq Line
  BY StartAssumption, FirstAssumption DEF Line, Runs
<1>2. line \in [Game -> Line]
  BY <1>1 DEF MlbInit
<1> QED
  BY <1>2 DEF MlbInit, MlbInv, MlbTypeOK, OverIsOver, Status, Unknown

-----------------------------------------------------------------------------
(***************************************************************************)
(* Comeback.                                                               *)
(***************************************************************************)
ComeInv == MlbInv /\ ComeTypeOK /\ FinalsAreFinal

\* Entries that are added or changed under one key.
Trigger == [moment : Score, final : Score \cup {Nothing}]
TriggersOK(t) == DOMAIN t \subseteq Game \X Pitcher /\ \A k \in DOMAIN t : t[k] \in Trigger

LEMMA ScoreOfLine ==
  ASSUME NEW l \in Line
  PROVE  ScoreOf(l) \in Score
  BY DEF Line, ScoreOf, Score

LEMMA LiveStatesAreStates ==
  ASSUME MlbTypeOK
  PROVE  /\ DOMAIN LiveStates \subseteq Game
         /\ \A g \in DOMAIN LiveStates : LiveStates[g] = state[g] /\ LiveStates[g] \in State
  BY DEF LiveStates, MlbTypeOK

LEMMA ComeMoves == [ComeNext]_comeVars => [MlbMove]_mlbVars
<1> SUFFICES ASSUME [ComeNext]_comeVars PROVE [MlbMove]_mlbVars
  OBVIOUS
<1>1. "poll" \in Slot /\ "caller" \in Slot
  BY DEF Slot
<1>2. CASE MlbStep
  BY <1>1, <1>2 DEF MlbStep, MlbMove
<1>3. CASE Pages
  BY <1>1, <1>3 DEF Pages, MlbMove
<1>4. CASE ComeRestart
  BY <1>4 DEF ComeRestart, MlbMove
<1>5. CASE UNCHANGED mlbVars
  BY <1>5
<1> QED
  BY <1>2, <1>3, <1>4, <1>5
     DEF ComeNext, comeVars, mlbVars, DetectBegin, GameLog, Look, RecordFinal

\* What a step does to the triggers: one is raised, one is settled, or nothing.
RaisesOne == \E k \in (Game \X Pitcher) \ DOMAIN alerts, moment \in Score :
    alerts' = [i \in DOMAIN alerts \cup {k} |->
                  IF i = k THEN [moment |-> moment, final |-> Nothing] ELSE alerts[i]]

SettlesOne == \E k \in DOMAIN alerts :
    /\ alerts[k].final = Nothing /\ line[k[1]].at = "F"
    /\ alerts' = [alerts EXCEPT ![k].final = ScoreOf(line[k[1]])]

LEMMA ComeSteps ==
  ASSUME ComeInv, [ComeNext]_comeVars
  PROVE  UNCHANGED alerts \/ RaisesOne \/ (SettlesOne /\ UNCHANGED line)
<1> USE DEF ComeInv
<1>1. CASE UNCHANGED alerts
  BY <1>1
<1>2. CASE GameLog
  <2>1. asking \in [game : Game, line : Line]
    BY <1>2 DEF GameLog, ComeTypeOK
  <2> DEFINE k == <<asking.game, asking.line.pitcher>>
  <2>2. k \in Game \X Pitcher /\ ScoreOf(asking.line) \in Score
    BY <2>1, ScoreOfLine DEF Line
  <2>3. UNCHANGED alerts \/ Fire(k, asking.line)
    BY <1>2 DEF GameLog
  <2> QED
    BY <2>2, <2>3 DEF Fire, RaisesOne
<1>3. ASSUME NEW k \in DOMAIN alerts, RecordFinal(k) PROVE SettlesOne /\ UNCHANGED line
  <2>1. k \in Game \X Pitcher
    BY DEF ComeTypeOK
  <2>2. k[1] \in Game
    BY <2>1
  <2>3. line[k[1]].at = "F"
    BY <1>3, <2>2 DEF RecordFinal, Recordable, MlbInv, OverIsOver
  <2> QED
    BY <1>3, <2>3 DEF RecordFinal, SettlesOne, mlbVars
<1> QED
  BY <1>1, <1>2, <1>3
     DEF ComeNext, comeVars, DetectBegin, Look, ComeRestart

LEMMA ComeTriggers ==
  ASSUME ComeInv, [ComeNext]_comeVars
  PROVE  TriggersOK(alerts') /\ FinalsAreFinal'
<1>1. /\ TriggersOK(alerts) /\ FinalsAreFinal /\ MlbTypeOK
      /\ \A k \in DOMAIN alerts : k[1] \in Game
  BY DEF ComeInv, ComeTypeOK, TriggersOK, Trigger
<1>2. \A g \in Game : line[g].at = "F" => line'[g] = line[g]
  BY <1>1, ComeMoves, GamesGoOn
<1>3. CASE UNCHANGED alerts
  BY <1>1, <1>2, <1>3 DEF FinalsAreFinal
<1>4. CASE RaisesOne
  <2>1. PICK k \in (Game \X Pitcher) \ DOMAIN alerts, moment \in Score :
           alerts' = [i \in DOMAIN alerts \cup {k} |->
                         IF i = k THEN [moment |-> moment, final |-> Nothing] ELSE alerts[i]]
    BY <1>4 DEF RaisesOne
  <2>2. [moment |-> moment, final |-> Nothing] \in Trigger
    BY DEF Trigger
  <2>3. TriggersOK(alerts')
    BY <1>1, <2>1, <2>2 DEF TriggersOK
  <2> QED
    BY <1>1, <1>2, <2>1, <2>3 DEF FinalsAreFinal
<1>5. CASE SettlesOne /\ UNCHANGED line
  <2>1. PICK k \in DOMAIN alerts :
           /\ line[k[1]].at = "F"
           /\ alerts' = [alerts EXCEPT ![k].final = ScoreOf(line[k[1]])]
    BY <1>5 DEF SettlesOne
  <2>2. ScoreOf(line[k[1]]) \in Score /\ alerts[k] \in Trigger
    BY <1>1, ScoreOfLine DEF MlbTypeOK, TriggersOK
  <2>3. alerts'[k] \in Trigger /\ alerts'[k].final = ScoreOf(line[k[1]])
    BY <2>1, <2>2 DEF Trigger
  <2>4. DOMAIN alerts' = DOMAIN alerts /\ \A i \in DOMAIN alerts : i # k => alerts'[i] = alerts[i]
    BY <2>1
  <2> QED
    BY <1>1, <1>5, <2>1, <2>3, <2>4 DEF TriggersOK, FinalsAreFinal
<1> QED
  BY <1>3, <1>4, <1>5, ComeSteps

LEMMA ComeTypes == ASSUME ComeInv, [ComeNext]_comeVars PROVE ComeTypeOK'
<1>1. MlbTypeOK' /\ TriggersOK(alerts')
  BY ComeMoves, MlbTypes, ComeTriggers DEF ComeInv, MlbInv
<1>2. /\ seen' \in [Game -> Pitcher \cup {Unknown}]
      /\ \A g \in DOMAIN batch' : batch'[g] \in State
      /\ asking' \in [game : Game, line : Line] \cup {Nothing}
  <2> USE DEF ComeInv, ComeTypeOK
  <2>1. CASE UNCHANGED <<seen, batch, asking>>
    BY <2>1
  <2>2. CASE DetectBegin
    BY <2>2, LiveStatesAreStates DEF DetectBegin
  <2>3. CASE GameLog
    BY <2>3 DEF GameLog
  <2>4. CASE ComeRestart
    BY <2>4 DEF ComeRestart
  <2>5. ASSUME NEW g \in Game, Look(g)
        PROVE  /\ seen' \in [Game -> Pitcher \cup {Unknown}]
               /\ \A h \in DOMAIN batch' : batch'[h] \in State
               /\ asking' \in [game : Game, line : Line] \cup {Nothing}
    <3>1. batch[g] \in State /\ batch[g].line \in Line /\ batch[g].line.pitcher \in Pitcher
      BY <2>5 DEF Look, State, Line
    <3>2. \A h \in DOMAIN batch' : batch'[h] \in State
      BY <2>5 DEF Look, Drop
    <3>3. seen' \in [Game -> Pitcher \cup {Unknown}]
      BY <2>5, <3>1 DEF Look
    <3>4. asking' \in [game : Game, line : Line] \cup {Nothing}
      BY <2>5, <3>1 DEF Look
    <3> QED
      BY <3>2, <3>3, <3>4
  <2> QED
    BY <2>1, <2>2, <2>3, <2>4, <2>5 DEF ComeNext, comeVars, RecordFinal
<1> QED
  BY <1>1, <1>2 DEF ComeTypeOK, TriggersOK, Trigger

LEMMA ComeInitInv == ComeInit => ComeInv
<1> SUFFICES ASSUME ComeInit PROVE ComeInv
  OBVIOUS
<1>1. MlbInv
  BY MlbInitInv DEF ComeInit
<1>2. ComeTypeOK /\ FinalsAreFinal
  BY <1>1 DEF ComeInit, ComeTypeOK, FinalsAreFinal, MlbInv
<1> QED
  BY <1>1, <1>2 DEF ComeInv

LEMMA ComeInvHolds == ComeInv /\ [ComeNext]_comeVars => ComeInv'
  BY ComeTypes, ComeTriggers, ComeMoves, MlbInvHolds DEF ComeInv

LEMMA ComeAlways == ComeSpec => []ComeInv
  BY ComeInitInv, ComeInvHolds, PTL DEF ComeSpec

\* comeback/outcomes.py: the final kept for a trigger is the score its game ended
\* with, however the schedule was read and however often the process restarts.
THEOREM FinalsAreFinalCorrect == ComeSpec => []FinalsAreFinal
<1>1. ComeInv => FinalsAreFinal
  BY DEF ComeInv
<1> QED
  BY <1>1, ComeAlways, PTL

LEMMA ComeStepIsALogStep ==
  ASSUME ComeInv, [ComeNext]_comeVars
  PROVE  [ComeLog!LogNext]_alerts
<1> USE DEF ComeLog!LogNext, ComeLog!Raise, ComeLog!Settle, ComeLog!Entry, ComeLog!None
<1>1. CASE RaisesOne
  BY <1>1 DEF RaisesOne, Nothing
<1>2. CASE SettlesOne
  <2>1. PICK k \in DOMAIN alerts :
           /\ alerts[k].final = Nothing
           /\ alerts' = [alerts EXCEPT ![k].final = ScoreOf(line[k[1]])]
    BY <1>2 DEF SettlesOne
  <2> DEFINE finals == [i \in {k} |-> ScoreOf(line[k[1]])]
  <2>2. finals \in [{k} -> Score]
    <3>1. k[1] \in Game /\ line \in [Game -> Line]
      BY DEF ComeInv, ComeTypeOK, MlbTypeOK
    <3> QED
      BY <3>1, ScoreOfLine
  <2>3. \A i \in DOMAIN alerts :
           alerts'[i] = IF i \in DOMAIN finals
                        THEN [moment |-> alerts[i].moment, final |-> finals[i]] ELSE alerts[i]
    <3>1. alerts[k] \in Trigger
      BY DEF ComeInv, ComeTypeOK, Trigger
    <3> QED
      BY <2>1, <3>1 DEF Trigger
  <2>4. alerts' = [i \in DOMAIN alerts |->
                      IF i \in DOMAIN finals
                      THEN [moment |-> alerts[i].moment, final |-> finals[i]] ELSE alerts[i]]
    BY <2>1, <2>3
  <2>5. ComeLog!Settle(finals)
    BY <2>1, <2>4 DEF Nothing
  <2> QED
    BY <2>2, <2>5
<1> QED
  BY <1>1, <1>2, ComeSteps

\* comeback/store.py: whatever passes, stale answers and restarts see again, the
\* table of triggers is an alert log.
THEOREM TriggersAreALogCorrect == ComeSpec => TriggersAreALog
<1>1. ComeInit => ComeLog!LogInit
  BY DEF ComeInit, ComeLog!LogInit
<1> QED
  BY <1>1, ComeAlways, ComeStepIsALogStep, PTL DEF ComeSpec, TriggersAreALog, ComeLog!LogSpec

-----------------------------------------------------------------------------
(***************************************************************************)
(* Bottom8.  What is cached, on its way or in the hands of the pass was    *)
(* read off the game at some time, and the cache does not say when: of two *)
(* reads the order is known only if one is of the 8th and the other from   *)
(* after it.  That is enough, because a row opens on the former and goes on*)
(* with the latter.                                                        *)
(***************************************************************************)
Held(g) == {x \in State : \/ x = state[g]
                          \/ \E s \in Slot : x = wire[s][g]
                          \/ g \in DOMAIN live /\ x = live[g]}

SoundRead(x, l) ==
    /\ NotAfter(x.line, l)
    /\ x.status = "Final" => l.at = "F" /\ ScoreOf(x.line) = ScoreOf(l)

InOrder(x, y) == ~Late(x.line) /\ Late(y.line) => AtMost(x.line, y.line)

Row == [b8 : Score, b9 : Score \cup {Nothing}, final : Score \cup {Nothing},
        status : {"tracking", "final", "stale"}]

SoundRow(r, l, reads) ==
    /\ AtMost(r.b8, l)
    /\ \A y \in reads : Late(y.line) => AtMost(r.b8, y.line)
    /\ r.status = "final" <=> r.final # Nothing
    /\ r.final # Nothing => l.at = "F" /\ r.final = ScoreOf(l)
    /\ r.b9 # Nothing => AtMost(r.b8, r.b9) /\ AtMost(r.b9, l)

ReadsAreSound == \A g \in Game : \A x \in Held(g) : SoundRead(x, line[g])
ReadsAreInOrder == \A g \in Game : \A x, y \in Held(g) : InOrder(x, y)
RowsAreSound == \A g \in DOMAIN rows : SoundRow(rows[g], line[g], Held(g))
VisitsAreDue ==
    /\ pace = "open" => \A g \in visits : g \in DOMAIN live /\ ~Late(live[g].line)
    /\ pace \in {"track", "wait"} => visits \subseteq Tracking

EightInv ==
    /\ MlbInv /\ EightTypeOK /\ DOMAIN live \subseteq Game /\ DOMAIN rows \subseteq Game
    /\ ReadsAreSound /\ ReadsAreInOrder /\ RowsAreSound /\ VisitsAreDue

LEMMA EightMoves == [EightNext]_eightVars => [MlbMove]_mlbVars
<1> SUFFICES ASSUME [EightNext]_eightVars PROVE [MlbMove]_mlbVars
  OBVIOUS
<1>1. "poll" \in Slot /\ "caller" \in Slot
  BY DEF Slot
<1>2. CASE MlbStep
  BY <1>1, <1>2 DEF MlbStep, MlbMove
<1>3. ASSUME NEW g \in Game, FinishAsk(g) \/ FinishArrive(g) \/ FinishFail(g) PROVE MlbMove
  BY <1>1, <1>3 DEF FinishAsk, FinishArrive, FinishFail, MlbMove
<1>4. CASE EightRestart
  BY <1>4 DEF EightRestart, MlbMove
<1>5. CASE UNCHANGED mlbVars
  BY <1>5
<1> QED
  BY <1>2, <1>3, <1>4, <1>5
     DEF EightNext, eightVars, mlbVars, EightBegin, TrackBegin, EightEnd, OpenGame, FollowLive,
         NotYet, FinishFromCache

LEMMA SlotsAreHeld ==
  ASSUME NEW g \in Game
  PROVE  /\ state[g] \in State => state[g] \in Held(g)
         /\ \A s \in Slot : wire[s][g] \in State => wire[s][g] \in Held(g)
         /\ g \in DOMAIN live /\ live[g] \in State => live[g] \in Held(g)
  BY DEF Held

\* A request reads the game, and it is asked as final only when the game is over.
LEMMA AskedReadIsNew ==
  ASSUME EightInv, NEW g \in Game, NEW s \in Slot, NEW status \in Status, Ask(s, g, status),
         status = "Final" => line[g].at = "F", UNCHANGED live, NEW h \in Game, NEW x \in Held(h)'
  PROVE  \/ x \in Held(h)
         \/ x.line = line[h] /\ (x.status = "Final" => line[h].at = "F")
<1>1. state' = state /\ wire' = [wire EXCEPT ![s][g] = [line |-> line[g], status |-> status]]
  BY DEF Ask
<1>2. wire \in [Slot -> [Game -> State \cup {Nothing}]]
  BY DEF EightInv, MlbInv, MlbTypeOK
<1>3. x \in State /\ (\/ x = state[h] \/ \E t \in Slot : x = wire'[t][h]
                      \/ h \in DOMAIN live /\ x = live[h])
  BY <1>1 DEF Held
<1>4. ASSUME NEW t \in Slot, x = wire'[t][h]
      PROVE  x = wire[t][h] \/ (h = g /\ x = [line |-> line[g], status |-> status])
  BY <1>1, <1>2, <1>4
<1> QED
  BY <1>3, <1>4 DEF Held

\* What is held after a step was held before, or was read off the game just now.
LEMMA HeldOrNew ==
  ASSUME EightInv, [EightNext]_eightVars, NEW h \in Game, NEW x \in Held(h)'
  PROVE  \/ x \in Held(h)
         \/ x.line = line[h] /\ (x.status = "Final" => line[h].at = "F")
<1> DEFINE P == \/ x \in Held(h)
                \/ x.line = line[h] /\ (x.status = "Final" => line[h].at = "F")
<1>1. /\ state \in [Game -> State \cup {Nothing}]
      /\ wire \in [Slot -> [Game -> State \cup {Nothing}]]
      /\ "poll" \in Slot /\ "caller" \in Slot
  BY DEF EightInv, MlbInv, MlbTypeOK, Slot
<1>2. x \in State /\ (\/ x = state'[h] \/ \E t \in Slot : x = wire'[t][h]
                      \/ h \in DOMAIN live' /\ x = live'[h])
  BY DEF Held
<1>3. CASE UNCHANGED <<state, wire>> /\ (UNCHANGED live \/ live' = <<>> \/ live' = LiveStates)
  BY <1>2, <1>3 DEF Held, LiveStates
<1>4. ASSUME NEW g \in Game, NEW s \in Slot, Arrive(s, g) \/ Fail(s, g), UNCHANGED live PROVE P
  <2>1. state'[h] = state[h] \/ (h = g /\ state'[h] = wire[s][h])
    BY <1>1, <1>4 DEF Arrive, Fail
  <2>2. \A t \in Slot : wire'[t][h] = wire[t][h] \/ wire'[t][h] = Nothing
    BY <1>1, <1>4 DEF Arrive, Fail
  <2>3. x # Nothing
    BY <1>2, NothingIsNothing
  <2> QED
    BY <1>2, <1>4, <2>1, <2>2, <2>3 DEF Held
<1>5. ASSUME NEW g \in Game, PollGame(g), UNCHANGED live PROVE P
  <2>1. Ask("poll", g, "Live") /\ "Live" \in Status
    BY <1>5 DEF PollGame, Status
  <2> QED
    BY <1>1, <1>5, <2>1, AskedReadIsNew
<1>6. ASSUME NEW g \in Game, LightAsk(g), UNCHANGED live PROVE P
  <2>1. Ask("caller", g, LightStatus(g)) /\ LightStatus(g) \in Status
    BY <1>6 DEF LightAsk, LightStatus, EightInv, MlbInv, MlbTypeOK, State
  <2>2. LightStatus(g) = "Final" => line[g].at = "F"
    <3>1. sched[g] = "Final" => line[g].at = "F"
      BY DEF EightInv, MlbInv, OverIsOver
    <3>2. state[g] # Nothing => SoundRead(state[g], line[g])
      BY <1>1, SlotsAreHeld DEF EightInv, ReadsAreSound
    <3> QED
      BY <3>1, <3>2 DEF LightStatus, SoundRead, Unknown
  <2> QED
    BY <1>1, <1>6, <2>1, <2>2, AskedReadIsNew
<1>7. CASE EightRestart
  <2>1. state'[h] = Nothing /\ (\A t \in Slot : wire'[t][h] = Nothing) /\ live' = <<>>
    BY <1>7 DEF EightRestart, MlbRestart
  <2> QED
    BY <1>2, <2>1, NothingIsNothing
<1>8. CASE MlbStep /\ UNCHANGED live
  BY <1>1, <1>3, <1>4, <1>5, <1>8
     DEF MlbStep, RefreshSchedule, PlayGame, ChangePitcher, Post
<1>9. ASSUME NEW g \in Game, FinishAsk(g) \/ FinishArrive(g) \/ FinishFail(g) PROVE P
  BY <1>1, <1>4, <1>6, <1>9 DEF FinishAsk, FinishArrive, FinishFail
<1>10. CASE UNCHANGED mlbVars /\ (UNCHANGED live \/ live' = <<>> \/ live' = LiveStates)
  BY <1>3, <1>10 DEF mlbVars
<1> QED
  BY <1>7, <1>8, <1>9, <1>10
     DEF EightNext, eightVars, mlbVars, EightBegin, TrackBegin, EightEnd, OpenGame, FollowLive,
         NotYet, FinishFromCache

\* Scores and linescores are compared as numbers.
LEMMA Numbers ==
  /\ \A l \in Line \cup Score : l.away \in Nat /\ l.home \in Nat
  /\ \A x \in State : x.line \in Line
  /\ \A l \in Line : ScoreOf(l) \in Score /\ ScoreOf(l).away = l.away /\ ScoreOf(l).home = l.home
<1>1. Runs \subseteq Nat
  BY DEF Runs
<1> QED
  BY <1>1 DEF Line, Score, State, ScoreOf

LEMMA AtMostIsTransitive ==
  ASSUME NEW a \in Line \cup Score, NEW b \in Line \cup Score, NEW c \in Line \cup Score,
         AtMost(a, b), AtMost(b, c)
  PROVE  AtMost(a, c)
  BY Numbers DEF AtMost

LEMMA ReadsStaySound ==
  ASSUME EightInv, [EightNext]_eightVars
  PROVE  ReadsAreSound' /\ ReadsAreInOrder'
<1>1. /\ MlbTypeOK /\ [MlbMove]_mlbVars /\ line \in [Game -> Line]
      /\ \A g \in Game : Held(g) \subseteq State /\ Held(g)' \subseteq State
  BY EightMoves DEF EightInv, MlbInv, MlbTypeOK, Held
<1> SUFFICES ASSUME NEW g \in Game
             PROVE  /\ \A x \in Held(g)' : SoundRead(x, line'[g])
                    /\ \A x, y \in Held(g)' : InOrder(x, y)
  BY DEF ReadsAreSound, ReadsAreInOrder
<1>2. /\ line[g] \in Line /\ line'[g] \in Line /\ NotAfter(line[g], line'[g])
      /\ line[g].at = "F" => line'[g] = line[g]
  BY <1>1, GamesGoOn
<1>3. /\ \A x \in Held(g) : SoundRead(x, line[g])
      /\ \A x, y \in Held(g) : InOrder(x, y)
  BY DEF EightInv, ReadsAreSound, ReadsAreInOrder
<1>4. \A x \in Held(g)' : SoundRead(x, line[g]) /\ (x \in Held(g) \/ x.line = line[g])
  <2>1. AtMost(line[g], line[g])
    BY <1>2, Numbers DEF AtMost
  <2> QED
    BY <1>3, <2>1, HeldOrNew DEF SoundRead, NotAfter
<1>5. ASSUME NEW x \in Held(g)' PROVE SoundRead(x, line'[g])
  <2>1. x.line \in Line
    BY <1>1, Numbers
  <2> QED
    BY <1>2, <1>4, <2>1, AtMostIsTransitive DEF SoundRead, NotAfter
<1>6. ASSUME NEW x \in Held(g)', NEW y \in Held(g)' PROVE InOrder(x, y)
  BY <1>3, <1>4 DEF InOrder, SoundRead, NotAfter
<1> QED
  BY <1>5, <1>6

\* A row that is sound stays so while the game and the cache move on.
LEMMA SoundRowsStay ==
  ASSUME EightInv, [EightNext]_eightVars, NEW g \in Game, NEW r \in Row,
         SoundRow(r, line[g], Held(g))
  PROVE  SoundRow(r, line'[g], Held(g)')
<1>1. /\ line[g] \in Line /\ line'[g] \in Line /\ NotAfter(line[g], line'[g])
      /\ line[g].at = "F" => line'[g] = line[g]
  BY EightMoves, GamesGoOn DEF EightInv, MlbInv, MlbTypeOK
<1>2. r.b8 \in Score /\ (r.b9 # Nothing => r.b9 \in Score)
  BY DEF Row
<1>3. AtMost(r.b8, line[g])
  BY DEF SoundRow
<1>4. \A y \in Held(g)' : Late(y.line) => AtMost(r.b8, y.line)
  BY <1>3, HeldOrNew DEF SoundRow
<1>5. NotAfter(line[g], line'[g]) => AtMost(line[g], line'[g])
  BY DEF NotAfter
<1>6. AtMost(r.b8, line'[g]) /\ (r.b9 # Nothing => AtMost(r.b9, line'[g]))
  BY <1>1, <1>2, <1>5, AtMostIsTransitive DEF SoundRow
<1> QED
  BY <1>1, <1>4, <1>6 DEF SoundRow

\* A row is settled with what is held, and with the end of the game.
LEMMA SettledRow ==
  ASSUME EightInv, NEW g \in Tracking, NEW st \in Held(g), SettleWith(g, st)
  PROVE  /\ DOMAIN rows' = DOMAIN rows
         /\ \A h \in DOMAIN rows : rows'[h] \in Row /\ SoundRow(rows'[h], line[h], Held(h))
<1>1. /\ g \in DOMAIN rows /\ g \in Game /\ line[g] \in Line /\ rows[g].status = "tracking"
      /\ \A h \in DOMAIN rows : rows[h] \in Row /\ SoundRow(rows[h], line[h], Held(h))
  BY DEF EightInv, EightTypeOK, MlbTypeOK, Tracking, Row, RowsAreSound
<1>2. st \in State /\ SoundRead(st, line[g])
  BY <1>1 DEF EightInv, ReadsAreSound, Held
<1>3. ScoreOf(st.line) \in Score /\ ScoreOf(st.line) # Nothing
  BY <1>2, Numbers, NothingIsNothing
<1>4. CASE IsFinal(st)
  <2> DEFINE new == [rows[g] EXCEPT !.final = ScoreOf(st.line), !.status = "final"]
  <2>1. rows' = [rows EXCEPT ![g] = new]
    BY <1>1, <1>4 DEF SettleWith
  <2>2. new \in Row /\ new.b8 = rows[g].b8 /\ new.b9 = rows[g].b9
        /\ new.final = ScoreOf(st.line) /\ new.status = "final"
    BY <1>1, <1>3 DEF Row
  <2> HIDE DEF new
  <2>3. SoundRow(new, line[g], Held(g))
    BY <1>1, <1>2, <1>3, <1>4, <2>2 DEF SoundRow, SoundRead, IsFinal
  <2> QED
    BY <1>1, <2>1, <2>2, <2>3
<1>5. CASE ~IsFinal(st)
  BY <1>1, <1>5 DEF SettleWith
<1> QED
  BY <1>4, <1>5

\* What the rows are after a step: as they were, or one was opened or one went on
\* with something that is held, or some were retired.
LEMMA NewRowsAreSound ==
  ASSUME EightInv, [EightNext]_eightVars
  PROVE  /\ DOMAIN rows' \subseteq Game
         /\ \A g \in DOMAIN rows' : rows'[g] \in Row /\ SoundRow(rows'[g], line[g], Held(g))
<1> DEFINE Goal == /\ DOMAIN rows' \subseteq Game
                   /\ \A g \in DOMAIN rows' :
                         rows'[g] \in Row /\ SoundRow(rows'[g], line[g], Held(g))
<1>1. /\ DOMAIN rows \subseteq Game
      /\ \A g \in DOMAIN rows : rows[g] \in Row /\ SoundRow(rows[g], line[g], Held(g))
  BY DEF EightInv, EightTypeOK, Row, RowsAreSound
<1>2. CASE UNCHANGED rows
  BY <1>1, <1>2
<1>3. ASSUME NEW g \in Game, OpenGame(g) PROVE Goal
  <2>1. g \in DOMAIN live /\ ~Late(live[g].line) /\ live[g] \in State
    BY <1>3 DEF OpenGame, EightInv, VisitsAreDue, EightTypeOK
  <2>2. live[g] \in Held(g) /\ live[g].line \in Line /\ line[g] \in Line
    BY <2>1, SlotsAreHeld, Numbers DEF EightInv, MlbInv, MlbTypeOK
  <2> DEFINE new == [b8 |-> ScoreOf(live[g].line), b9 |-> Nothing, final |-> Nothing,
                     status |-> "tracking"]
  <2>3. new \in Row
    BY <2>2, Numbers DEF Row
  <2>4. AtMost(live[g].line, line[g])
    BY <2>2 DEF EightInv, ReadsAreSound, SoundRead, NotAfter
  <2>5. \A y \in Held(g) : Late(y.line) => AtMost(live[g].line, y.line)
    BY <2>1, <2>2 DEF EightInv, ReadsAreInOrder, InOrder
  <2>6. \A l : AtMost(live[g].line, l) => AtMost(ScoreOf(live[g].line), l)
    BY <2>2, Numbers DEF AtMost
  <2>7. SoundRow(new, line[g], Held(g))
    BY <2>4, <2>5, <2>6 DEF SoundRow
  <2>8. rows' = [h \in DOMAIN rows \cup {g} |-> IF h \in DOMAIN rows THEN rows[h] ELSE new]
    BY <1>3 DEF OpenGame, OpenRow
  <2> HIDE DEF new
  <2> QED
    BY <1>1, <2>3, <2>7, <2>8
<1>4. CASE TrackBegin
  <2>1. PICK old \in SUBSET Tracking :
           rows' = [g \in DOMAIN rows |->
                       IF g \in old THEN [rows[g] EXCEPT !.status = "stale"] ELSE rows[g]]
    BY <1>4 DEF TrackBegin
  <2>2. ASSUME NEW g \in old
        PROVE  /\ [rows[g] EXCEPT !.status = "stale"] \in Row
               /\ SoundRow([rows[g] EXCEPT !.status = "stale"], line[g], Held(g))
    <3> DEFINE new == [rows[g] EXCEPT !.status = "stale"]
    <3>1. rows[g] \in Row /\ SoundRow(rows[g], line[g], Held(g)) /\ rows[g].status = "tracking"
      BY <1>1 DEF Tracking
    <3>2. /\ new \in Row /\ new.b8 = rows[g].b8 /\ new.b9 = rows[g].b9
          /\ new.final = rows[g].final /\ new.status = "stale"
      BY <3>1 DEF Row
    <3> HIDE DEF new
    <3>3. SoundRow(new, line[g], Held(g))
      BY <3>1, <3>2 DEF SoundRow
    <3> QED
      BY <3>2, <3>3 DEF new
  <2> QED
    BY <1>1, <2>1, <2>2
<1>5. ASSUME NEW g \in Game, FollowLive(g) PROVE Goal
  <2>1. g \in Tracking /\ g \in DOMAIN live
    BY <1>5 DEF FollowLive, StillLive, EightInv, VisitsAreDue
  <2>2. live[g] \in Held(g) /\ live[g].line \in Line /\ g \in DOMAIN rows
    BY <2>1, SlotsAreHeld, Numbers DEF EightInv, EightTypeOK, Tracking
  <2>3. CASE UNCHANGED rows
    BY <1>1, <2>3
  <2>4. CASE AtBottomOf9(live[g].line) /\ rows' = [rows EXCEPT ![g].b9 = ScoreOf(live[g].line)]
    <3> DEFINE new == [rows[g] EXCEPT !.b9 = ScoreOf(live[g].line)]
    <3>1. /\ new \in Row /\ new.b8 = rows[g].b8 /\ new.b9 = ScoreOf(live[g].line)
          /\ new.final = rows[g].final /\ new.status = rows[g].status
      BY <1>1, <2>2, Numbers DEF Row
    <3>2. AtMost(rows[g].b8, live[g].line) /\ AtMost(live[g].line, line[g])
      BY <1>1, <2>2, <2>4
         DEF SoundRow, Late, AtBottomOf9, EightInv, ReadsAreSound, SoundRead, NotAfter
    <3>3. AtMost(rows[g].b8, ScoreOf(live[g].line)) /\ AtMost(ScoreOf(live[g].line), line[g])
      BY <2>2, <3>2, Numbers DEF AtMost
    <3>4. rows' = [rows EXCEPT ![g] = new]
      BY <2>4
    <3> HIDE DEF new
    <3>5. SoundRow(new, line[g], Held(g))
      BY <1>1, <2>2, <3>1, <3>3 DEF SoundRow
    <3> QED
      BY <1>1, <3>1, <3>4, <3>5
  <2> QED
    BY <1>5, <2>3, <2>4 DEF FollowLive
<1>6. ASSUME NEW g \in Game, NEW st \in State, SettleWith(g, st), st \in Held(g), g \in visits,
             pace \in {"track", "wait"}
      PROVE  Goal
  <2>1. g \in Tracking
    BY <1>6 DEF EightInv, VisitsAreDue
  <2> QED
    BY <1>1, <1>6, <2>1, SettledRow
<1>7. ASSUME NEW g \in Game, FinishFromCache(g) \/ FinishArrive(g) \/ FinishFail(g) PROVE Goal
  <2>1. /\ state[g] # Nothing => state[g] \in State /\ state[g] \in Held(g)
        /\ wire["caller"][g] # Nothing =>
              wire["caller"][g] \in State /\ wire["caller"][g] \in Held(g)
    BY SlotsAreHeld DEF EightInv, MlbInv, MlbTypeOK, Slot
  <2>2. g \in visits /\ pace \in {"track", "wait"}
    BY <1>7 DEF FinishFromCache, FinishArrive, FinishFail, MayFinish
  <2> QED
    BY <1>2, <1>6, <1>7, <2>1, <2>2 DEF FinishFromCache, FinishArrive, FinishFail, Arrive, Fail
<1> QED
  BY <1>2, <1>3, <1>4, <1>5, <1>7
     DEF EightNext, eightVars, EightBegin, EightEnd, EightRestart, NotYet, FinishAsk

LEMMA VisitsStayDue == ASSUME EightInv, [EightNext]_eightVars PROVE VisitsAreDue'
<1> USE DEF VisitsAreDue, Tracking
<1>1. VisitsAreDue /\ \A g \in DOMAIN rows : rows[g] \in Row
  BY DEF EightInv, EightTypeOK, Row
<1>2. CASE UNCHANGED <<live, pace, visits, rows>>
  BY <1>1, <1>2
<1>3. CASE EightBegin
  BY <1>3 DEF EightBegin, AtBottomOf8, Late
<1>4. CASE TrackBegin
  <2>1. PICK old \in SUBSET Tracking :
           /\ rows' = [g \in DOMAIN rows |->
                          IF g \in old THEN [rows[g] EXCEPT !.status = "stale"] ELSE rows[g]]
           /\ visits' = Tracking \ old
    BY <1>4 DEF TrackBegin
  <2> QED
    BY <1>4, <2>1 DEF TrackBegin
<1>5. CASE EightEnd \/ EightRestart
  BY <1>5 DEF EightEnd, EightRestart
<1>6. ASSUME NEW g \in Game, OpenGame(g) PROVE VisitsAreDue'
  BY <1>1, <1>6 DEF OpenGame
<1>7. ASSUME NEW g \in Game, pace \in {"track", "wait"}, pace' \in {"track", "wait"},
             visits' = visits \/ visits' = visits \ {g},
             DOMAIN rows' = DOMAIN rows,
             \A h \in visits' : rows'[h] = rows[h] \/ rows'[h].status = rows[h].status
      PROVE  VisitsAreDue'
  BY <1>1, <1>7
<1>8. ASSUME NEW g \in Game, FollowLive(g) PROVE VisitsAreDue'
  BY <1>1, <1>7, <1>8 DEF FollowLive
<1>9. ASSUME NEW g \in Game, NotYet(g) \/ FinishAsk(g) PROVE VisitsAreDue'
  BY <1>1, <1>9 DEF NotYet, FinishAsk, MayFinish
<1>10. ASSUME NEW g \in Game, NEW st, SettleWith(g, st), pace \in {"track", "wait"},
              pace' \in {"track", "wait"}
       PROVE  VisitsAreDue'
  BY <1>1, <1>7, <1>10 DEF SettleWith
<1>11. ASSUME NEW g \in Game, FinishFromCache(g) \/ FinishArrive(g) \/ FinishFail(g)
       PROVE  VisitsAreDue'
  <2>1. pace \in {"track", "wait"} /\ pace' \in {"track", "wait"}
    BY <1>11 DEF FinishFromCache, FinishArrive, FinishFail, MayFinish
  <2>2. (\E st : SettleWith(g, st)) \/ (UNCHANGED rows /\ visits' = visits \ {g})
    BY <1>11 DEF FinishFromCache, FinishArrive, FinishFail
  <2> QED
    BY <1>7, <1>10, <2>1, <2>2
<1> QED
  BY <1>2, <1>3, <1>4, <1>5, <1>6, <1>8, <1>9, <1>11 DEF EightNext, eightVars

LEMMA EightTypes ==
  ASSUME EightInv, [EightNext]_eightVars
  PROVE  EightTypeOK' /\ DOMAIN live' \subseteq Game
<1>1. MlbTypeOK' /\ MlbTypeOK
  BY EightMoves, MlbTypes DEF EightInv, MlbInv
<1>2. \A g \in DOMAIN rows' : rows'[g] \in Row
  BY NewRowsAreSound
<1>3. DOMAIN rows \subseteq Game /\ visits \subseteq Game /\ Tracking \subseteq Game
  BY DEF EightInv, EightTypeOK, Tracking
<1>4. visits' \subseteq Game
  BY <1>1, <1>3, LiveStatesAreStates
     DEF EightNext, eightVars, EightBegin, TrackBegin, EightEnd, EightRestart, OpenGame,
         FollowLive, NotYet, FinishFromCache, FinishAsk, FinishArrive, FinishFail, SettleWith
<1>5. pace' \in {"idle", "open", "track", "wait"}
  BY DEF EightInv, EightTypeOK, EightNext, eightVars, EightBegin, TrackBegin, EightEnd,
         EightRestart, OpenGame, FollowLive, NotYet, FinishFromCache, FinishAsk, FinishArrive,
         FinishFail
<1>6. UNCHANGED live \/ live' = <<>> \/ live' = LiveStates
  BY DEF EightNext, eightVars, EightBegin, TrackBegin, EightEnd, EightRestart, OpenGame,
         FollowLive, NotYet, FinishFromCache, FinishAsk, FinishArrive, FinishFail
<1>7. DOMAIN live' \subseteq Game /\ \A g \in DOMAIN live' : live'[g] \in State
  BY <1>1, <1>6, LiveStatesAreStates DEF EightInv, EightTypeOK
<1>8. middle' \in [Game -> Score]
  <2>1. middle \in [Game -> Score]
    BY DEF EightInv, EightTypeOK
  <2>2. CASE UNCHANGED middle
    BY <2>1, <2>2
  <2>3. CASE middle' = [g \in Game |-> IF line'[g].at \in {"T8", "M8"} THEN ScoreOf(line'[g])
                                                                     ELSE middle[g]]
    <3>1. \A g \in Game : line'[g] \in Line
      BY <1>1 DEF MlbTypeOK
    <3> QED
      BY <2>1, <2>3, <3>1, ScoreOfLine
  <2> QED
    BY <2>2, <2>3
       DEF EightNext, eightVars, EightBegin, TrackBegin, EightEnd, EightRestart, OpenGame,
           FollowLive, NotYet, FinishFromCache, FinishAsk, FinishArrive, FinishFail
<1> QED
  BY <1>1, <1>2, <1>4, <1>5, <1>7, <1>8 DEF EightTypeOK, Row

LEMMA EightInvHolds == EightInv /\ [EightNext]_eightVars => EightInv'
<1> SUFFICES ASSUME EightInv, [EightNext]_eightVars PROVE EightInv'
  OBVIOUS
<1>1. MlbInv' /\ EightTypeOK' /\ DOMAIN live' \subseteq Game /\ VisitsAreDue'
      /\ ReadsAreSound' /\ ReadsAreInOrder'
  BY EightMoves, MlbInvHolds, EightTypes, VisitsStayDue, ReadsStaySound DEF EightInv
<1>2. DOMAIN rows' \subseteq Game
  BY NewRowsAreSound
<1>3. \A g \in DOMAIN rows' : SoundRow(rows'[g], line'[g], Held(g)')
  BY NewRowsAreSound, SoundRowsStay
<1>4. RowsAreSound'
  BY <1>3 DEF RowsAreSound
<1> QED
  BY <1>1, <1>2, <1>4 DEF EightInv

LEMMA EightInitInv == EightInit => EightInv
<1> SUFFICES ASSUME EightInit PROVE EightInv
  OBVIOUS
<1>1. MlbInv
  BY MlbInitInv DEF EightInit
<1>2. EightTypeOK
  BY <1>1, ScoreOfLine DEF EightInit, EightTypeOK, MlbInv, MlbTypeOK
<1>3. \A g \in Game : Held(g) = {}
  BY NothingIsNothing DEF EightInit, MlbInit, Held
<1> QED
  BY <1>1, <1>2, <1>3
     DEF EightInit, EightInv, ReadsAreSound, ReadsAreInOrder, RowsAreSound, VisitsAreDue

LEMMA EightAlways == EightSpec => []EightInv
  BY EightInitInv, EightInvHolds, PTL DEF EightSpec

LEMMA EightInvImplies == EightInv => RowsAreOfTheGame
<1> SUFFICES ASSUME EightInv, NEW g \in DOMAIN rows
             PROVE  LET r == rows[g]  end == ScoreOf(line[g]) IN
                    /\ r.status = "final" <=> r.final # Nothing
                    /\ r.final # Nothing => line[g].at = "F" /\ r.final = end
                    /\ r.b9 # Nothing => AtMost(r.b8, r.b9) /\ AtMost(r.b9, end)
  BY DEF RowsAreOfTheGame
<1>1. SoundRow(rows[g], line[g], Held(g)) /\ line[g] \in Line
  BY DEF EightInv, RowsAreSound, MlbInv, MlbTypeOK
<1>2. AtMost(rows[g].b9, line[g]) => AtMost(rows[g].b9, ScoreOf(line[g]))
  BY <1>1, Numbers DEF AtMost
<1> QED
  BY <1>1, <1>2 DEF SoundRow

\* bottom8/tracker.py: though a row is opened, followed and settled from reads that
\* may have overtaken each other, its scores are in the order of the innings and the
\* last is the one its game ended with.
THEOREM RowsAreOfTheGameCorrect == EightSpec => []RowsAreOfTheGame
  BY EightInvImplies, EightAlways, PTL

\* A row that is followed has no final yet.
LEMMA TrackedIsOpen ==
  ASSUME EightInv, NEW g \in Tracking
  PROVE  g \in DOMAIN EightEntries /\ EightEntries[g].final = Nothing
  BY DEF EightInv, RowsAreSound, SoundRow, Tracking, EightEntries, EntryOf

\* Some rows that were followed get their final at one step.
LEMMA RowsSettle ==
  ASSUME EightInv, NEW K \in SUBSET Tracking, NEW finals \in [K -> Score \cup {Retired}],
         DOMAIN rows' = DOMAIN rows,
         \A g \in DOMAIN rows : EntryOf(rows'[g]) =
             IF g \in K THEN [moment |-> rows[g].b8, final |-> finals[g]] ELSE EntryOf(rows[g])
  PROVE  EightLog!LogNext
<1>1. K \in SUBSET DOMAIN EightEntries /\ DOMAIN finals = K
  BY DEF Tracking, EightEntries
<1>2. \A g \in K : EightEntries[g].final = Nothing
  BY TrackedIsOpen
<1>3. EightEntries' = [g \in DOMAIN EightEntries |->
                          IF g \in K THEN [moment |-> EightEntries[g].moment, final |-> finals[g]]
                          ELSE EightEntries[g]]
  BY DEF EightEntries, EntryOf
<1>4. EightLog!Settle(finals)
  BY <1>1, <1>2, <1>3 DEF EightLog!Settle, EightLog!Entry, EightLog!None, Nothing
<1> QED
  BY <1>1, <1>4 DEF EightLog!LogNext

LEMMA RowSettles ==
  ASSUME EightInv, NEW g \in Tracking, NEW st \in State, SettleWith(g, st)
  PROVE  EightLog!LogNext \/ UNCHANGED EightEntries
<1>1. CASE UNCHANGED rows
  BY <1>1 DEF EightEntries, EntryOf
<1>2. CASE rows' = [rows EXCEPT ![g].final = ScoreOf(st.line), ![g].status = "final"]
  <2> DEFINE finals == [h \in {g} |-> ScoreOf(st.line)]
  <2>1. g \in DOMAIN rows /\ rows[g] \in Row
    BY DEF Tracking, EightInv, EightTypeOK, Row
  <2>2. /\ DOMAIN rows' = DOMAIN rows
        /\ \A h \in DOMAIN rows : h # g => rows'[h] = rows[h]
        /\ rows'[g] = [rows[g] EXCEPT !.final = ScoreOf(st.line), !.status = "final"]
    BY <1>2, <2>1
  <2>3. EntryOf(rows'[g]) = [moment |-> rows[g].b8, final |-> ScoreOf(st.line)]
    BY <2>1, <2>2 DEF EntryOf, Row
  <2>4. finals \in [{g} -> Score \cup {Retired}] /\ finals[g] = ScoreOf(st.line)
    BY Numbers
  <2>5. \A h \in DOMAIN rows : EntryOf(rows'[h]) =
           IF h \in {g} THEN [moment |-> rows[h].b8, final |-> finals[h]] ELSE EntryOf(rows[h])
    BY <2>2, <2>3, <2>4
  <2> HIDE DEF finals
  <2> QED
    BY <2>2, <2>4, <2>5, RowsSettle
<1> QED
  BY <1>1, <1>2 DEF SettleWith

LEMMA EightStepIsALogStep ==
  ASSUME EightInv, [EightNext]_eightVars
  PROVE  [EightLog!LogNext]_EightEntries
<1> DEFINE Goal == EightLog!LogNext \/ UNCHANGED EightEntries
<1>1. CASE UNCHANGED rows
  BY <1>1 DEF EightEntries, EntryOf
<1>2. ASSUME NEW g \in Game, OpenGame(g) PROVE Goal
  <2>1. live[g].line \in Line
    BY <1>2, Numbers DEF OpenGame, EightInv, EightTypeOK, VisitsAreDue
  <2>2. CASE g \in DOMAIN rows
    <3>1. DOMAIN rows' = DOMAIN rows /\ \A h \in DOMAIN rows : rows'[h] = rows[h]
      BY <1>2, <2>2 DEF OpenGame, OpenRow
    <3> QED
      BY <3>1 DEF EightEntries, EntryOf
  <2>3. CASE g \notin DOMAIN rows
    <3>1. /\ DOMAIN rows' = DOMAIN rows \cup {g}
          /\ \A h \in DOMAIN rows : rows'[h] = rows[h]
          /\ rows'[g] = [b8 |-> ScoreOf(live[g].line), b9 |-> Nothing, final |-> Nothing,
                         status |-> "tracking"]
      BY <1>2, <2>3 DEF OpenGame, OpenRow
    <3>2. EntryOf(rows'[g]) = [moment |-> ScoreOf(live[g].line), final |-> Nothing]
      BY <3>1 DEF EntryOf
    <3>3. EightEntries' =
             [h \in DOMAIN EightEntries \cup {g} |->
                 IF h = g THEN [moment |-> ScoreOf(live[g].line), final |-> Nothing]
                 ELSE EightEntries[h]]
      BY <2>3, <3>1, <3>2 DEF EightEntries
    <3>4. g \notin DOMAIN EightEntries /\ ScoreOf(live[g].line) \in Score
      BY <2>1, <2>3, Numbers DEF EightEntries
    <3>5. EightLog!Raise(g, ScoreOf(live[g].line))
      BY <3>3, <3>4 DEF EightLog!Raise, EightLog!Entry, EightLog!None, Nothing
    <3> QED
      BY <3>4, <3>5 DEF EightLog!LogNext
  <2> QED
    BY <2>2, <2>3
<1>3. CASE TrackBegin
  <2>1. PICK old \in SUBSET Tracking :
           rows' = [g \in DOMAIN rows |->
                       IF g \in old THEN [rows[g] EXCEPT !.status = "stale"] ELSE rows[g]]
    BY <1>3 DEF TrackBegin
  <2> DEFINE finals == [g \in old |-> Retired]
  <2>2. finals \in [old -> Score \cup {Retired}] /\ \A g \in old : finals[g] = Retired
    OBVIOUS
  <2>3. ASSUME NEW g \in DOMAIN rows
        PROVE  EntryOf(rows'[g]) = IF g \in old THEN [moment |-> rows[g].b8, final |-> finals[g]]
                                   ELSE EntryOf(rows[g])
    <3>1. rows[g] \in Row
      BY DEF EightInv, EightTypeOK, Row
    <3>2. g \in old => /\ rows'[g].b8 = rows[g].b8 /\ rows'[g].status = "stale"
      BY <2>1, <3>1 DEF Row
    <3> QED
      BY <2>1, <3>2 DEF EntryOf
  <2>4. DOMAIN rows' = DOMAIN rows
    BY <2>1
  <2> HIDE DEF finals
  <2> QED
    BY <2>2, <2>3, <2>4, RowsSettle
<1>4. ASSUME NEW g \in Game, FollowLive(g) PROVE Goal
  <2>1. rows' = rows \/ rows' = [rows EXCEPT ![g].b9 = ScoreOf(live[g].line)]
    BY <1>4 DEF FollowLive
  <2>2. \A h \in DOMAIN rows : rows[h] \in Row
    BY DEF EightInv, EightTypeOK, Row
  <2>3. DOMAIN rows' = DOMAIN rows /\ \A h \in DOMAIN rows : EntryOf(rows'[h]) = EntryOf(rows[h])
    BY <2>1, <2>2 DEF EntryOf, Row
  <2> QED
    BY <2>3 DEF EightEntries
<1>5. ASSUME NEW g \in Game, FinishFromCache(g) \/ FinishArrive(g) \/ FinishFail(g) PROVE Goal
  <2>1. /\ state[g] # Nothing => state[g] \in State
        /\ wire["caller"][g] # Nothing => wire["caller"][g] \in State
    BY DEF EightInv, MlbInv, MlbTypeOK, Slot
  <2>2. g \in Tracking
    BY <1>5 DEF FinishFromCache, FinishArrive, FinishFail, MayFinish, EightInv, VisitsAreDue
  <2> QED
    BY <1>1, <1>5, <2>1, <2>2, RowSettles
       DEF FinishFromCache, FinishArrive, FinishFail, Arrive, Fail
<1> QED
  BY <1>1, <1>2, <1>3, <1>4, <1>5
     DEF EightNext, eightVars, EightBegin, EightEnd, EightRestart, NotYet, FinishAsk

LEMMA EightInitIsALog == EightInit => EightLog!LogInit
<1> SUFFICES ASSUME EightInit PROVE EightEntries = <<>>
  BY DEF EightLog!LogInit
<1>1. DOMAIN rows = {}
  BY DEF EightInit
<1> QED
  BY <1>1 DEF EightEntries

\* bottom8/store.py: the table of tracked games is an alert log.
THEOREM RowsAreALogCorrect == EightSpec => RowsAreALog
  BY EightInitIsALog, EightAlways, EightStepIsALogStep, PTL DEF EightSpec, RowsAreALog, EightLog!LogSpec

-----------------------------------------------------------------------------
(***************************************************************************)
(* FavoriteLock.                                                           *)
(***************************************************************************)
LEMMA LockTypes == LockSpec => []LockTypeOK
<1>1. LockInit => LockTypeOK
  BY MinutesAssumption DEF LockInit, LockTypeOK, NoPass
<1>2. LockTypeOK /\ [LockNext]_lockVars => LockTypeOK'
  <2> SUFFICES ASSUME LockTypeOK, [LockNext]_lockVars PROVE LockTypeOK'
    OBVIOUS
  <2> USE MinutesAssumption DEF LockTypeOK
  <2>0. kickoff \in [Match -> Nat]
    OBVIOUS
  <2>1. CASE Minute
    BY <2>1 DEF Minute
  <2>2. ASSUME NEW g \in Match, PutOff(g) PROVE LockTypeOK'
    BY <2>2 DEF PutOff
  <2>3. ASSUME NEW p \in Locker, LockBegin(p) PROVE LockTypeOK'
    BY <2>0, <2>3 DEF LockBegin, Due
  <2>4. ASSUME NEW p \in Locker, NEW g \in Match, SkipGame(p, g) PROVE LockTypeOK'
    BY <2>4 DEF SkipGame
  <2>5. ASSUME NEW p \in Locker, NEW g \in Match, LockGame(p, g) PROVE LockTypeOK'
    <3> DEFINE lock == [lockedAt |-> pass[p].began, priced |-> minute,
                        firstPitch |-> pass[p].rows[g]]
    <3>1. lock \in Lock
      BY DEF Lock
    <3>2. Put(g, lock)
      BY <2>5 DEF LockGame
    <3> HIDE DEF lock
    <3>3. \A h \in DOMAIN locks' : h \in Match /\ locks'[h] \in Lock
      BY <3>1, <3>2 DEF Put
    <3>4. pass' = [pass EXCEPT ![p].due = @ \ {g}] /\ UNCHANGED <<minute, kickoff>>
      BY <2>5 DEF LockGame
    <3> QED
      BY <3>3, <3>4
  <2>6. CASE UNCHANGED lockVars
    BY <2>6 DEF lockVars
  <2> QED
    BY <2>1, <2>2, <2>3, <2>4, <2>5, <2>6 DEF LockNext
<1> QED
  BY <1>1, <1>2, PTL DEF LockSpec

\* favorite/store.put: a lock stays as it is, however many passes of this process and
\* of the one before it work through the same games.
THEOREM LockIsFinalCorrect == LockSpec => LockIsFinal
<1>1. [LockNext]_lockVars
        => [\A g \in DOMAIN locks : g \in DOMAIN locks' /\ locks'[g] = locks[g]]_lockVars
  BY DEF LockNext, LockGame, Put, SkipGame, PutOff, Minute, LockBegin
<1> QED
  BY <1>1, PTL DEF LockSpec, LockIsFinal

-----------------------------------------------------------------------------
(***************************************************************************)
(* ClearFavorite and RebuiltVerdict.  Bands are conditionals.              *)
(***************************************************************************)
LEMMA BandIs ==
  ASSUME NEW x \in Int, NEW bounds, NEW points, NEW n \in Nat, DOMAIN bounds = 1..n,
         \A i \in 1..n : bounds[i] \in Int
  PROVE  /\ \A i \in 1..n : x >= bounds[i] /\ (\A j \in 1..n : j < i => x < bounds[j])
                               => Band(x, bounds, points) = points[i]
         /\ (\A i \in 1..n : x < bounds[i]) => Band(x, bounds, points) = 0
<1> DEFINE reached == {i \in DOMAIN bounds : x >= bounds[i]}
<1>1. ASSUME NEW i \in 1..n, x >= bounds[i], \A j \in 1..n : j < i => x < bounds[j]
      PROVE  Band(x, bounds, points) = points[i]
  <2>1. i \in reached /\ \A j \in reached : i <= j
    BY <1>1
  <2>2. \A k \in reached : (\A j \in reached : k <= j) => k = i
    BY <2>1
  <2>3. (CHOOSE k \in reached : \A j \in reached : k <= j) = i
    <3> HIDE DEF reached
    <3> QED
      BY <2>1, <2>2
  <2> QED
    BY <2>1, <2>3 DEF Band
<1>2. ASSUME \A i \in 1..n : x < bounds[i] PROVE Band(x, bounds, points) = 0
  <2>1. reached = {}
    BY <1>2
  <2> QED
    BY <2>1 DEF Band
<1> QED
  BY <1>1, <1>2

LEMMA BandOfTwo ==
  ASSUME NEW x \in Int, NEW B, NEW P, DOMAIN B = 1..2, \A i \in 1..2 : B[i] \in Int
  PROVE  Band(x, B, P) = IF x >= B[1] THEN P[1] ELSE IF x >= B[2] THEN P[2] ELSE 0
<1>1. \A i \in 1..2 : i = 1 \/ i = 2
  OBVIOUS
<1>2. /\ \A i \in 1..2 : x >= B[i] /\ (\A j \in 1..2 : j < i => x < B[j]) => Band(x, B, P) = P[i]
      /\ (\A i \in 1..2 : x < B[i]) => Band(x, B, P) = 0
  BY BandIs
<1>3. CASE x >= B[1]
  BY <1>2, <1>3
<1>4. CASE x < B[1] /\ x >= B[2]
  BY <1>1, <1>2, <1>4
<1>5. CASE x < B[1] /\ x < B[2]
  BY <1>1, <1>2, <1>5
<1> QED
  BY <1>3, <1>4, <1>5

LEMMA BandOfThree ==
  ASSUME NEW x \in Int, NEW B, NEW P, DOMAIN B = 1..3, \A i \in 1..3 : B[i] \in Int
  PROVE  Band(x, B, P) = IF x >= B[1] THEN P[1] ELSE IF x >= B[2] THEN P[2]
                         ELSE IF x >= B[3] THEN P[3] ELSE 0
<1>1. \A i \in 1..3 : i = 1 \/ i = 2 \/ i = 3
  OBVIOUS
<1>2. /\ \A i \in 1..3 : x >= B[i] /\ (\A j \in 1..3 : j < i => x < B[j]) => Band(x, B, P) = P[i]
      /\ (\A i \in 1..3 : x < B[i]) => Band(x, B, P) = 0
  BY BandIs
<1>3. CASE x >= B[1]
  BY <1>2, <1>3
<1>4. CASE x < B[1] /\ x >= B[2]
  BY <1>1, <1>2, <1>4
<1>5. CASE x < B[1] /\ x < B[2] /\ x >= B[3]
  BY <1>1, <1>2, <1>5
<1>6. CASE x < B[1] /\ x < B[2] /\ x < B[3]
  BY <1>1, <1>2, <1>6
<1> QED
  BY <1>3, <1>4, <1>5, <1>6

LEMMA BandOfFour ==
  ASSUME NEW x \in Int, NEW B, NEW P, DOMAIN B = 1..4, \A i \in 1..4 : B[i] \in Int
  PROVE  Band(x, B, P) = IF x >= B[1] THEN P[1] ELSE IF x >= B[2] THEN P[2]
                         ELSE IF x >= B[3] THEN P[3] ELSE IF x >= B[4] THEN P[4] ELSE 0
<1>1. \A i \in 1..4 : i = 1 \/ i = 2 \/ i = 3 \/ i = 4
  OBVIOUS
<1>2. /\ \A i \in 1..4 : x >= B[i] /\ (\A j \in 1..4 : j < i => x < B[j]) => Band(x, B, P) = P[i]
      /\ (\A i \in 1..4 : x < B[i]) => Band(x, B, P) = 0
  BY BandIs
<1>3. CASE x >= B[1]
  BY <1>2, <1>3
<1>4. CASE x < B[1] /\ x >= B[2]
  BY <1>1, <1>2, <1>4
<1>5. CASE x < B[1] /\ x < B[2] /\ x >= B[3]
  BY <1>1, <1>2, <1>5
<1>6. CASE x < B[1] /\ x < B[2] /\ x < B[3] /\ x >= B[4]
  BY <1>1, <1>2, <1>6
<1>7. CASE x < B[1] /\ x < B[2] /\ x < B[3] /\ x < B[4]
  BY <1>1, <1>2, <1>7
<1> QED
  BY <1>3, <1>4, <1>5, <1>6, <1>7

\* The bands of the factors.
LEMMA StarterBand ==
  ASSUME NEW x \in Int
  PROVE  Band(x, <<20, 7, 3, 1>>, <<18, 12, 8, 4>>) =
            IF x >= 20 THEN 18 ELSE IF x >= 7 THEN 12 ELSE IF x >= 3 THEN 8
            ELSE IF x >= 1 THEN 4 ELSE 0
<1> DEFINE B == <<20, 7, 3, 1>>
           P == <<18, 12, 8, 4>>
<1>1. /\ DOMAIN B = 1..4 /\ B[1] = 20 /\ B[2] = 7 /\ B[3] = 3 /\ B[4] = 1
      /\ P[1] = 18 /\ P[2] = 12 /\ P[3] = 8 /\ P[4] = 4 /\ \A i \in 1..4 : B[i] \in Int
  OBVIOUS
<1> HIDE DEF B, P
<1>2. Band(x, B, P) = IF x >= B[1] THEN P[1] ELSE IF x >= B[2] THEN P[2]
                      ELSE IF x >= B[3] THEN P[3] ELSE IF x >= B[4] THEN P[4] ELSE 0
  BY <1>1, BandOfFour
<1>3. Band(x, B, P) = IF x >= 20 THEN 18 ELSE IF x >= 7 THEN 12 ELSE IF x >= 3 THEN 8
                      ELSE IF x >= 1 THEN 4 ELSE 0
  BY <1>1, <1>2
<1> QED
  BY <1>3 DEF B, P

LEMMA StrengthBand ==
  ASSUME NEW x \in Int
  PROVE  Band(x, <<8, 4, 2, 1>>, <<12, 7, 4, 2>>) =
            IF x >= 8 THEN 12 ELSE IF x >= 4 THEN 7 ELSE IF x >= 2 THEN 4
            ELSE IF x >= 1 THEN 2 ELSE 0
<1> DEFINE B == <<8, 4, 2, 1>>
           P == <<12, 7, 4, 2>>
<1>1. /\ DOMAIN B = 1..4 /\ B[1] = 8 /\ B[2] = 4 /\ B[3] = 2 /\ B[4] = 1
      /\ P[1] = 12 /\ P[2] = 7 /\ P[3] = 4 /\ P[4] = 2 /\ \A i \in 1..4 : B[i] \in Int
  OBVIOUS
<1> HIDE DEF B, P
<1>2. Band(x, B, P) = IF x >= B[1] THEN P[1] ELSE IF x >= B[2] THEN P[2]
                      ELSE IF x >= B[3] THEN P[3] ELSE IF x >= B[4] THEN P[4] ELSE 0
  BY <1>1, BandOfFour
<1>3. Band(x, B, P) = IF x >= 8 THEN 12 ELSE IF x >= 4 THEN 7 ELSE IF x >= 2 THEN 4
                      ELSE IF x >= 1 THEN 2 ELSE 0
  BY <1>1, <1>2
<1> QED
  BY <1>3 DEF B, P

LEMMA BullpenBands ==
  ASSUME NEW x \in Int
  PROVE  /\ Band(x, <<-15, -22, -26>>, <<8, 5, 2>>) =
               IF x >= -15 THEN 8 ELSE IF x >= -22 THEN 5 ELSE IF x >= -26 THEN 2 ELSE 0
         /\ Band(x, <<-8, -15, -22, -26>>, <<12, 8, 5, 2>>) =
               IF x >= -8 THEN 12 ELSE IF x >= -15 THEN 8 ELSE IF x >= -22 THEN 5
               ELSE IF x >= -26 THEN 2 ELSE 0
<1> DEFINE B == <<-15, -22, -26>>
           P == <<8, 5, 2>>
           C == <<-8, -15, -22, -26>>
           Q == <<12, 8, 5, 2>>
<1>1. /\ DOMAIN B = 1..3 /\ B[1] = -15 /\ B[2] = -22 /\ B[3] = -26
      /\ P[1] = 8 /\ P[2] = 5 /\ P[3] = 2 /\ \A i \in 1..3 : B[i] \in Int
  OBVIOUS
<1>2. /\ DOMAIN C = 1..4 /\ C[1] = -8 /\ C[2] = -15 /\ C[3] = -22 /\ C[4] = -26
      /\ Q[1] = 12 /\ Q[2] = 8 /\ Q[3] = 5 /\ Q[4] = 2 /\ \A i \in 1..4 : C[i] \in Int
  OBVIOUS
<1> HIDE DEF B, P, C, Q
<1>3. /\ Band(x, B, P) = IF x >= B[1] THEN P[1] ELSE IF x >= B[2] THEN P[2]
                         ELSE IF x >= B[3] THEN P[3] ELSE 0
      /\ Band(x, C, Q) = IF x >= C[1] THEN Q[1] ELSE IF x >= C[2] THEN Q[2]
                         ELSE IF x >= C[3] THEN Q[3] ELSE IF x >= C[4] THEN Q[4] ELSE 0
  BY <1>1, <1>2, BandOfThree, BandOfFour
<1>4. /\ Band(x, B, P) = IF x >= -15 THEN 8 ELSE IF x >= -22 THEN 5 ELSE IF x >= -26 THEN 2 ELSE 0
      /\ Band(x, C, Q) = IF x >= -8 THEN 12 ELSE IF x >= -15 THEN 8 ELSE IF x >= -22 THEN 5
                         ELSE IF x >= -26 THEN 2 ELSE 0
  BY <1>1, <1>2, <1>3
<1> QED
  BY <1>4 DEF B, P, C, Q

LEMMA DriftBand ==
  ASSUME NEW x \in Int
  PROVE  Band(x, <<3, 1>>, <<4, 2>>) \in {0, 2, 4}
<1> DEFINE B == <<3, 1>>
           P == <<4, 2>>
<1>1. DOMAIN B = 1..2 /\ P[1] = 4 /\ P[2] = 2 /\ \A i \in 1..2 : B[i] \in Int
  OBVIOUS
<1> HIDE DEF B, P
<1>2. Band(x, B, P) = IF x >= B[1] THEN P[1] ELSE IF x >= B[2] THEN P[2] ELSE 0
  BY <1>1, BandOfTwo
<1>3. Band(x, B, P) \in {0, 2, 4}
  BY <1>1, <1>2
<1> QED
  BY <1>3 DEF B, P

LEMMA PriceBand ==
  ASSUME NEW x \in Int
  PROVE  Band(x, <<66, 63, 59>>, <<24, 18, 12>>) \in {0, 12, 18, 24}
<1> DEFINE B == <<66, 63, 59>>
           P == <<24, 18, 12>>
<1>1. /\ DOMAIN B = 1..3 /\ P[1] = 24 /\ P[2] = 18 /\ P[3] = 12 /\ \A i \in 1..3 : B[i] \in Int
  OBVIOUS
<1> HIDE DEF B, P
<1>2. Band(x, B, P) = IF x >= B[1] THEN P[1] ELSE IF x >= B[2] THEN P[2]
                      ELSE IF x >= B[3] THEN P[3] ELSE 0
  BY <1>1, BandOfThree
<1>3. Band(x, B, P) \in {0, 12, 18, 24}
  BY <1>1, <1>2
<1> QED
  BY <1>3 DEF B, P

LEMMA MarketIsInt ==
  ASSUME NEW p \in Int, NEW d \in Int
  PROVE  Market(p, d) \in Int
<1> DEFINE x == Band(p, <<66, 63, 59>>, <<24, 18, 12>>)
           y == Band(d, <<3, 1>>, <<4, 2>>)
<1>1. x \in Int /\ y \in Int
  BY PriceBand, DriftBand
<1>2. Market(p, d) = IF p = NoPrice THEN 0 ELSE Least(28, x + y)
  BY DEF Market
<1> HIDE DEF x, y
<1> QED
  BY <1>1, <1>2 DEF Least

\* The gap in deviations, in the units of the composite.
LEMMA QualityIs ==
  ASSUME NEW x \in Int
  PROVE  Quality(x) = IF 10 * x >= 20 * Spread THEN 18 ELSE IF 10 * x >= 7 * Spread THEN 12
                      ELSE IF 10 * x >= 3 * Spread THEN 8 ELSE IF 10 * x >= Spread THEN 4 ELSE 0
<1> DEFINE B == <<20 * Spread, 7 * Spread, 3 * Spread, Spread>>
           P == <<18, 12, 8, 4>>
<1>0. Spread \in Int
  BY SpreadAssumption
<1>1. /\ DOMAIN B = 1..4 /\ B[1] = 20 * Spread /\ B[2] = 7 * Spread /\ B[3] = 3 * Spread
      /\ B[4] = Spread /\ P[1] = 18 /\ P[2] = 12 /\ P[3] = 8 /\ P[4] = 4
      /\ \A i \in 1..4 : B[i] \in Int
  BY <1>0
<1>2. Quality(x) = Band(10 * x, B, P)
  BY DEF Quality
<1> HIDE DEF B, P
<1>3. 10 * x \in Int
  OBVIOUS
<1>4. Band(10 * x, B, P) =
         IF 10 * x >= B[1] THEN P[1] ELSE IF 10 * x >= B[2] THEN P[2]
         ELSE IF 10 * x >= B[3] THEN P[3] ELSE IF 10 * x >= B[4] THEN P[4] ELSE 0
  BY <1>1, <1>3, BandOfFour
<1> QED
  BY <1>1, <1>2, <1>4

LEMMA DepthIsSmall ==
  ASSUME NEW m \in Nat, NEW t \in Nat
  PROVE  DepthPoints(m, t) \in Int /\ DepthPoints(m, t) <= 1 /\ DepthPoints(0, 0) = 0
  BY DEF DepthPoints

LEMMA ClubFields ==
  ASSUME NEW c \in Club
  PROVE  /\ c.starter \in Starters /\ c.lineup \in Lineups
         /\ c.far \in BOOLEAN /\ c.standing \in BOOLEAN
         /\ c.raw \in Int /\ c.strength \in Int /\ c.diff \in Int
         /\ c.depth \in Nat /\ c.penRank \in Nat /\ c.penUsed \in Nat /\ c.games \in Nat
         /\ c.wins \in Nat /\ c.rest \in Int
         /\ DOMAIN c = Inputs
  BY ClubAssumption DEF NoRest

LEMMA StarterIsOneSided ==
  ASSUME NEW h, NEW a, h.raw \in Int, a.raw \in Int, h.depth \in Nat, a.depth \in Nat
  PROVE  Starter(h, a) > 1 => Starter(a, h) <= 1
<1> DEFINE x == h.raw - a.raw
<1>1. /\ x \in Int /\ a.raw - h.raw = 0 - x /\ 0 - x \in Int
  OBVIOUS
<1>2. Spread \in Int /\ Spread >= 1
  BY SpreadAssumption
<1>3. /\ Quality(x) \in Int /\ Quality(0 - x) \in Int
      /\ Quality(x) > 0 => Quality(0 - x) = 0
  <2> HIDE DEF x
  <2>1. Quality(x) \in Int /\ Quality(x) > 0 => 10 * x >= Spread
    BY <1>1, <1>2, QualityIs
  <2>2. /\ Quality(0 - x) \in Int
        /\ 10 * (0 - x) < Spread => Quality(0 - x) = 0
    BY <1>1, <1>2, QualityIs
  <2>3. Quality(x) \in Int
    BY <1>1, <1>2, QualityIs
  <2> QED
    BY <1>1, <1>2, <2>1, <2>2, <2>3
<1>4. /\ DepthPoints(h.depth, a.depth) \in Int /\ DepthPoints(h.depth, a.depth) <= 1
      /\ DepthPoints(a.depth, h.depth) \in Int /\ DepthPoints(a.depth, h.depth) <= 1
  BY DepthIsSmall
<1>5. BothRated(h, a) <=> BothRated(a, h)
  BY DEF BothRated
<1>6. CASE BothRated(h, a)
  <2>1. /\ Starter(h, a) = Most(0, Least(18, Quality(x) + DepthPoints(h.depth, a.depth)))
        /\ Starter(a, h) = Most(0, Least(18, Quality(0 - x) + DepthPoints(a.depth, h.depth)))
    BY <1>1, <1>5, <1>6 DEF Starter
  <2> HIDE DEF x
  <2> QED
    BY <1>3, <1>4, <2>1 DEF Most, Least
<1>7. CASE ~BothRated(h, a)
  BY <1>7 DEF Starter
<1> QED
  BY <1>6, <1>7

LEMMA StrengthIsOneSided ==
  ASSUME NEW h, NEW a, h.strength \in Int, a.strength \in Int
  PROVE  Strength(h, a) > 0 => Strength(a, h) = 0
<1> DEFINE x == h.strength - a.strength
           Bnd(y) == Band(y, <<8, 4, 2, 1>>, <<12, 7, 4, 2>>)
<1>1. /\ x \in Int /\ a.strength - h.strength = 0 - x
      /\ Bnd(x) \in Int
      /\ Bnd(x) > 0 => Bnd(0 - x) = 0
  BY StrengthBand
<1>2. CASE h.standing /\ a.standing
  <2>1. Strength(h, a) = Bnd(x) /\ Strength(a, h) = Bnd(0 - x)
    BY <1>1, <1>2 DEF Strength
  <2> HIDE DEF x, Bnd
  <2> QED
    BY <1>1, <2>1
<1>3. CASE ~(h.standing /\ a.standing)
  BY <1>3 DEF Strength
<1> QED
  BY <1>2, <1>3

LEMMA RestIsOneSided ==
  ASSUME NEW h, NEW a, h.rest \in Int, a.rest \in Int, h.far \in BOOLEAN, a.far \in BOOLEAN
  PROVE  Rest(h, a) > 5 => Rest(a, h) < 5
<1>0. CASE h.rest = NoRest \/ a.rest = NoRest
  BY <1>0 DEF Rest
<1> SUFFICES ASSUME h.rest # NoRest, a.rest # NoRest
             PROVE  Rest(h, a) > 5 => Rest(a, h) < 5
  BY <1>0
<1>1. CASE h.rest > a.rest
  BY <1>1 DEF Rest
<1>2. CASE h.rest = a.rest
  <2>1. Rest(h, a) = EqualRest(h, a) /\ Rest(a, h) = EqualRest(a, h)
    BY <1>2 DEF Rest
  <2>2. CASE a.far /\ ~h.far
    <3>1. EqualRest(a, h) = 2
      BY Zenon, <2>2 DEF EqualRest
    <3> QED
      BY <2>1, <3>1
  <2>3. CASE ~(a.far /\ ~h.far)
    <3>1. EqualRest(h, a) = 2 \/ EqualRest(h, a) = 5
      BY Zenon, <2>3 DEF EqualRest
    <3> QED
      BY <2>1, <3>1
  <2> QED
    BY <2>2, <2>3
<1>3. CASE h.rest < a.rest
  BY <1>3 DEF Rest
<1> QED
  BY <1>1, <1>2, <1>3

\* The verdict is none, or what the clubs and the row give.
VerdictOf(h, a, r) ==
    LET p == HomePrice(r)  d == HomeDrift(r)  x == r.extreme IN
    [price |-> [home |-> p, away |-> Opposite(p)],
     favorite |-> Favorite(Qualifies(h, a, p, d, x), Qualifies(a, h, Opposite(p), 0 - d, x),
                           Total(h, a, p, d, x), Total(a, h, Opposite(p), 0 - d, x))]

FavInv ==
    /\ away \in Club /\ home \in Club /\ row \in Rows
    /\ verdict = NoVerdict \/ verdict = VerdictOf(home, away, row)

LEMMA FavAlways == FavSpec => []FavInv
<1>1. FavInit => FavInv
  BY DEF FavInit, FavInv
<1>2. FavInv /\ [ScoreGame]_favVars => FavInv'
  <2> SUFFICES ASSUME FavInv, [ScoreGame]_favVars PROVE FavInv'
    OBVIOUS
  <2>1. CASE ScoreGame
    <3>1. verdict' = VerdictOf(home, away, row) /\ UNCHANGED <<away, home, row>>
      BY Zenon, <2>1 DEF ScoreGame, VerdictOf
    <3> QED
      BY <3>1 DEF FavInv
  <2>2. CASE UNCHANGED favVars
    BY <2>2 DEF favVars, FavInv
  <2> QED
    BY <2>1, <2>2
<1> QED
  BY <1>1, <1>2, PTL DEF FavSpec

LEMMA FavoriteQualifies ==
  ASSUME NEW h \in BOOLEAN, NEW a \in BOOLEAN, NEW m, NEW n
  PROVE  /\ Favorite(h, a, m, n) \in {"home", "away", "nobody"}
         /\ Favorite(h, a, m, n) = "home" => h
         /\ Favorite(h, a, m, n) = "away" => a
  BY DEF Favorite

LEMMA PricesOfRow ==
  ASSUME NEW r \in Rows
  PROVE  /\ HomePrice(r) \in Int /\ Opposite(HomePrice(r)) \in Int
         /\ HomeDrift(r) \in Int /\ r.extreme \in BOOLEAN
         /\ r.homeKnown \/ r.awayKnown =>
               HomePrice(r) = (IF r.flipped THEN Opposite(r.homePrice) ELSE r.homePrice)
<1>1. /\ r.homePrice \in Int /\ r.drift \in Int
      /\ r.flipped \in BOOLEAN /\ r.homeKnown \in BOOLEAN /\ r.awayKnown \in BOOLEAN
      /\ r.extreme \in BOOLEAN
  <2>1. Price \subseteq Int /\ Drift \subseteq Int /\ NoPrice \in Int
    BY PriceAssumption DEF NoPrice
  <2> HIDE PriceAssumption
  <2> QED
    BY <2>1 DEF Rows
<1>2. \A p \in Int : Opposite(p) \in Int
  BY DEF Opposite, NoPrice
<1>3. HomePrice(r) \in Int /\ HomeDrift(r) \in Int
  BY <1>1, <1>2 DEF HomePrice, HomeDrift
<1>4. CASE r.flipped
  <2>1. HomeName(r) # "home" /\ AwayName(r) # "away"
    BY <1>4 DEF HomeName, AwayName, Name
  <2> QED
    BY <1>1, <1>2, <1>3, <1>4, <2>1 DEF HomePrice, Aligned
<1>5. CASE ~r.flipped
  <2>1. r.homeKnown \/ r.awayKnown => HomeName(r) = "home" \/ AwayName(r) = "away"
    BY <1>5 DEF HomeName, AwayName, Name
  <2> QED
    BY <1>1, <1>2, <1>3, <1>5, <2>1 DEF HomePrice, Aligned
<1> QED
  BY <1>4, <1>5

LEMMA QualifiedPrice ==
  ASSUME NEW m, NEW t, NEW p \in Int, NEW d, NEW x, Qualifies(m, t, p, d, x)
  PROVE  p >= 59
  BY DEF Qualifies, Disqualified

\* The prices of the two sides are a dollar, so one of them at most is 59 or more.
LEMMA OneIsPriced == ASSUME NEW p \in Int PROVE ~(p >= 59 /\ Opposite(p) >= 59)
  BY DEF Opposite, NoPrice

\* favorite/engine.py: for any clubs, prices and order of the row, a club is scored on
\* its own price, and the favourite is one that the market has at 59 or more.
THEOREM PricedByNameCorrect == FavSpec => []PricedByName
<1>1. FavInv => PricedByName
  <2> SUFFICES ASSUME FavInv, verdict # NoVerdict
               PROVE  /\ row.homeKnown \/ row.awayKnown =>
                            verdict.price.home = (IF row.flipped THEN Opposite(row.homePrice)
                                                  ELSE row.homePrice)
                      /\ verdict.favorite # "nobody" => verdict.price[verdict.favorite] >= 59
    BY DEF PricedByName
  <2> DEFINE p == HomePrice(row)  q == Opposite(p)  d == HomeDrift(row)  x == row.extreme
             h == Qualifies(home, away, p, d, x)
             a == Qualifies(away, home, q, 0 - d, x)
  <2>1. p \in Int /\ q \in Int
    BY PricesOfRow DEF FavInv
  <2>2. /\ verdict.price = [home |-> p, away |-> q]
        /\ verdict.favorite = Favorite(h, a, Total(home, away, p, d, x),
                                       Total(away, home, q, 0 - d, x))
    BY DEF FavInv, VerdictOf
  <2>3. (h => p >= 59) /\ (a => q >= 59) /\ h \in BOOLEAN /\ a \in BOOLEAN
    <3>1. h => p >= 59
      BY <2>1, QualifiedPrice
    <3>2. a => q >= 59
      BY <2>1, QualifiedPrice
    <3>3. h \in BOOLEAN /\ a \in BOOLEAN
      BY DEF Qualifies
    <3> QED
      BY <3>1, <3>2, <3>3
  <2>4. verdict.price.home = p /\ verdict.price["home"] = p /\ verdict.price["away"] = q
    BY <2>2
  <2> HIDE DEF h, a, p, q, d, x
  <2>5. /\ verdict.favorite \in {"home", "away", "nobody"}
        /\ verdict.favorite = "home" => p >= 59
        /\ verdict.favorite = "away" => q >= 59
    BY <2>2, <2>3, FavoriteQualifies
  <2>6. row.homeKnown \/ row.awayKnown =>
           p = (IF row.flipped THEN Opposite(row.homePrice) ELSE row.homePrice)
    BY PricesOfRow DEF FavInv, p
  <2> QED
    BY <2>4, <2>5, <2>6
<1> QED
  BY <1>1, FavAlways, PTL

LEMMA FavTypes == FavInv => FavTypeOK
<1> SUFFICES ASSUME FavInv PROVE FavTypeOK
  OBVIOUS
<1>1. DOMAIN away = Inputs /\ DOMAIN home = Inputs /\ row \in Rows
  BY ClubFields DEF FavInv
<1>2. verdict # NoVerdict => verdict.favorite \in {"home", "away", "nobody"}
  <2>1. ASSUME NEW h, NEW a, NEW m, NEW n PROVE Favorite(h, a, m, n) \in {"home", "away", "nobody"}
    BY DEF Favorite
  <2> QED
    BY <2>1 DEF FavInv, VerdictOf
<1> QED
  BY <1>1, <1>2 DEF FavTypeOK

LEMMA NeverBothQualify ==
  ASSUME NEW h, NEW a, NEW p \in Int, Opposite(p) \in Int, NEW d, NEW x
  PROVE  ~(Qualifies(h, a, p, d, x) /\ Qualifies(a, h, Opposite(p), 0 - d, x))
  BY QualifiedPrice, OneIsPriced

\* favorite/engine.py: of any two clubs one at most has the edge of the starters, of
\* strength and of rest, and one at most qualifies.
THEOREM EdgesAreOneSidedCorrect == FavSpec => []EdgesAreOneSided
<1>1. FavInv => EdgesAreOneSided
  <2> SUFFICES ASSUME FavInv PROVE EdgesAreOneSided
    OBVIOUS
  <2>1. home \in Club /\ away \in Club /\ row \in Rows
    BY DEF FavInv
  <2>2. Starter(home, away) > 1 => Starter(away, home) <= 1
    BY <2>1, ClubFields, StarterIsOneSided
  <2>3. Strength(home, away) > 0 => Strength(away, home) = 0
    BY <2>1, ClubFields, StrengthIsOneSided
  <2>4. Rest(home, away) > 5 => Rest(away, home) < 5
    BY <2>1, ClubFields, RestIsOneSided
  <2>5. ~ (/\ Qualifies(home, away, HomePrice(row), HomeDrift(row), row.extreme)
           /\ Qualifies(away, home, Opposite(HomePrice(row)), 0 - HomeDrift(row), row.extreme))
    BY <2>1, PricesOfRow, NeverBothQualify
  <2> QED
    BY <2>2, <2>3, <2>4, <2>5 DEF EdgesAreOneSided
<1> QED
  BY <1>1, FavAlways, PTL

-----------------------------------------------------------------------------
\* A gap of the composites is no smaller in deviations, of which none is above 10 tenths.
LEMMA StartersMirror ==
  ASSUME NEW m, NEW t, m.raw \in Int, t.raw \in Int, m.depth = 0, t.depth = 0
  PROVE  /\ RebuiltStarter(m, t) \in Int /\ Starter(m, t) \in Int
         /\ RebuiltStarter(m, t) <= Starter(m, t)
         /\ Spread = 10 => RebuiltStarter(m, t) = Starter(m, t)
<1> DEFINE x == m.raw - t.raw
           b == Band(x, <<20, 7, 3, 1>>, <<18, 12, 8, 4>>)
           q == Quality(x)
<1>1. x \in Int /\ Spread \in Int /\ 1 <= Spread /\ Spread <= 10
  BY SpreadAssumption
<1>2. CASE BothRated(m, t)
  <2>1. RebuiltStarter(m, t) = b
    BY <1>2 DEF RebuiltStarter
  <2>2. Starter(m, t) = Most(0, Least(18, q + 0))
    <3>1. DepthPoints(m.depth, t.depth) = 0
      BY DEF DepthPoints
    <3> QED
      BY <1>2, <3>1 DEF Starter
  <2>3. b = IF x >= 20 THEN 18 ELSE IF x >= 7 THEN 12 ELSE IF x >= 3 THEN 8
            ELSE IF x >= 1 THEN 4 ELSE 0
    BY StarterBand
  <2>4. q = IF 10 * x >= 20 * Spread THEN 18 ELSE IF 10 * x >= 7 * Spread THEN 12
            ELSE IF 10 * x >= 3 * Spread THEN 8 ELSE IF 10 * x >= Spread THEN 4 ELSE 0
    BY QualityIs
  <2> HIDE DEF x, b, q
  <2>5. b \in 0..18 /\ q \in 0..18 /\ b <= q
    BY <1>1, <2>3, <2>4
  <2>6. Spread = 10 => b = q
    BY <1>1, <2>3, <2>4
  <2>7. Starter(m, t) = q
    BY <2>2, <2>5 DEF Most, Least
  <2> QED
    BY <2>1, <2>5, <2>6, <2>7
<1>3. CASE ~BothRated(m, t)
  BY <1>3 DEF Starter, RebuiltStarter
<1> QED
  BY <1>2, <1>3

LEMMA BullpensMirror ==
  ASSUME NEW c, c.penRank \in Int, c.penUsed \in Int, c.penUsed <= 6
  PROVE  RebuiltBullpen(c) = Bullpen(c) /\ Bullpen(c) \in Int
<1>1. /\ 0 - c.penRank \in Int /\ -c.penRank = 0 - c.penRank
  OBVIOUS
<1>2. RebuiltBullpen(c) =
         IF c.penRank = Unranked THEN 0
         ELSE IF 0 - c.penRank >= -8 THEN 12 ELSE IF 0 - c.penRank >= -15 THEN 8
         ELSE IF 0 - c.penRank >= -22 THEN 5 ELSE IF 0 - c.penRank >= -26 THEN 2 ELSE 0
  BY <1>1, BullpenBands DEF RebuiltBullpen
<1>3. Bullpen(c) =
         IF c.penRank = Unranked THEN 0
         ELSE IF c.penRank <= 8 THEN 12
         ELSE IF 0 - c.penRank >= -15 THEN 8 ELSE IF 0 - c.penRank >= -22 THEN 5
              ELSE IF 0 - c.penRank >= -26 THEN 2 ELSE 0
  BY <1>1, BullpenBands DEF Bullpen
<1> QED
  BY <1>2, <1>3

LEMMA StrengthsMirror ==
  ASSUME NEW m, NEW t, m.strength \in Int, t.strength \in Int,
         m.standing, t.standing, ~TooThin(m, t)
  PROVE  RebuiltStrength(m, t) = Strength(m, t) /\ Strength(m, t) \in Int
  BY StrengthBand DEF RebuiltStrength, Strength

LEMMA FormsMirror ==
  ASSUME NEW c, c.wins \in Int, c.diff \in Int
  PROVE  RebuiltForm(c) = Form(c) /\ Form(c) \in Int
<1>1. c.wins >= 7 \/ c.wins = 6 \/ c.wins = 5 \/ c.wins = 4 \/ c.wins < 4
  OBVIOUS
<1> QED
  BY <1>1 DEF RebuiltForm, Form

LEMMA RestsMirror ==
  ASSUME NEW m, NEW t, m.rest \in Int, t.rest \in Int, m.far \in BOOLEAN, t.far \in BOOLEAN
  PROVE  RebuiltRest(m, t) = Rest(m, t) /\ Rest(m, t) \in Int
<1>0. CASE m.rest = NoRest \/ t.rest = NoRest
  BY <1>0 DEF RebuiltRest, Rest
<1> SUFFICES ASSUME m.rest # NoRest, t.rest # NoRest
             PROVE  RebuiltRest(m, t) = Rest(m, t) /\ Rest(m, t) \in Int
  BY <1>0
<1>1. CASE m.rest > t.rest
  BY <1>1 DEF RebuiltRest, Rest
<1>2. CASE m.rest = t.rest
  <2>1. CASE m.far = TRUE /\ t.far = TRUE
    BY <1>2, <2>1 DEF RebuiltRest, Rest, EqualRest
  <2>2. CASE m.far = TRUE /\ t.far = FALSE
    BY <1>2, <2>2 DEF RebuiltRest, Rest, EqualRest
  <2>3. CASE m.far = FALSE /\ t.far = TRUE
    BY <1>2, <2>3 DEF RebuiltRest, Rest, EqualRest
  <2>4. CASE m.far = FALSE /\ t.far = FALSE
    BY <1>2, <2>4 DEF RebuiltRest, Rest, EqualRest
  <2> QED
    BY <2>1, <2>2, <2>3, <2>4
<1>3. CASE m.rest < t.rest
  BY <1>3 DEF RebuiltRest, Rest
<1> QED
  BY <1>1, <1>2, <1>3

LEMMA LineupsMirror ==
  ASSUME NEW c
  PROVE  /\ Lineup(c) \in Int
         /\ c.lineup # "noTable" => RebuiltLineup(c) = Lineup(c)
  BY DEF RebuiltLineup, Lineup

\* favhistory.py, "factor bands (mirror backend/favorite/*)": for any clubs, the factors
\* written a second time score as the live ones do where both have the same to go by, and
\* the starter no more than the live one.
THEOREM FactorsMirrorHolds == FactorsMirror
<1> SUFFICES ASSUME NEW mine \in Club, NEW theirs \in Club
             PROVE  /\ RebuiltRest(mine, theirs) = Rest(mine, theirs)
                    /\ RebuiltForm(mine) = Form(mine)
                    /\ mine.penUsed <= 6 => RebuiltBullpen(mine) = Bullpen(mine)
                    /\ mine.standing /\ theirs.standing /\ ~TooThin(mine, theirs) =>
                          RebuiltStrength(mine, theirs) = Strength(mine, theirs)
                    /\ mine.lineup # "noTable" => RebuiltLineup(mine) = Lineup(mine)
                    /\ mine.depth = 0 /\ theirs.depth = 0 =>
                          /\ RebuiltStarter(mine, theirs) <= Starter(mine, theirs)
                          /\ Spread = 10 => RebuiltStarter(mine, theirs) = Starter(mine, theirs)
  BY Zenon DEF FactorsMirror
<1>1. RebuiltRest(mine, theirs) = Rest(mine, theirs)
  BY ClubFields, RestsMirror
<1>2. RebuiltForm(mine) = Form(mine)
  BY ClubFields, FormsMirror
<1>3. mine.penUsed <= 6 => RebuiltBullpen(mine) = Bullpen(mine)
  BY ClubFields, BullpensMirror
<1>4. mine.standing /\ theirs.standing /\ ~TooThin(mine, theirs) =>
         RebuiltStrength(mine, theirs) = Strength(mine, theirs)
  BY ClubFields, StrengthsMirror
<1>5. mine.lineup # "noTable" => RebuiltLineup(mine) = Lineup(mine)
  BY LineupsMirror
<1>6. mine.depth = 0 /\ theirs.depth = 0 =>
         /\ RebuiltStarter(mine, theirs) <= Starter(mine, theirs)
         /\ Spread = 10 => RebuiltStarter(mine, theirs) = Starter(mine, theirs)
  BY ClubFields, StartersMirror
<1> QED
  BY <1>1, <1>2, <1>3, <1>4, <1>5, <1>6

\* From the same inputs a club that qualifies in the rebuild qualifies live.
LEMMA RebuiltSide ==
  ASSUME NEW m \in Club, NEW t \in Club, NEW p \in Int, NEW d \in Int,
         m.starter # "unannounced", t.starter # "unannounced", m.depth = 0, t.depth = 0,
         m.penUsed <= 6, m.standing, t.standing, m.lineup # "noTable",
         RebuiltQualifies(m, t, p, d)
  PROVE  Qualifies(m, t, p, d, FALSE)
<1>1. /\ p >= 59 /\ BothRated(m, t) /\ m.penRank # Unranked /\ ~TooThin(m, t)
      /\ RebuiltTotal(m, t, p, d) >= 75
  BY DEF RebuiltQualifies, RebuiltDisqualified
<1>2. ~Disqualified(m, t, p, FALSE)
  BY <1>1 DEF Disqualified
<1> DEFINE rebuilt == RebuiltTotal(m, t, p, d)  total == Total(m, t, p, d, FALSE)
<1>3. rebuilt \in Int /\ total \in Int /\ rebuilt <= total
  <2> DEFINE rs == RebuiltStarter(m, t)  ls == Starter(m, t)  mk == Market(p, d)
             bp == Bullpen(m)  st == Strength(m, t)  re == Rest(m, t)
             li == Lineup(m)  fo == Form(m)  pk == Park(FALSE)
  <2>1. rs \in Int /\ ls \in Int /\ rs <= ls
    BY ClubFields, StartersMirror
  <2>2. RebuiltBullpen(m) = bp /\ bp \in Int
    BY ClubFields, BullpensMirror
  <2>3. RebuiltStrength(m, t) = st /\ st \in Int
    BY <1>1, ClubFields, StrengthsMirror
  <2>4. RebuiltForm(m) = fo /\ fo \in Int
    BY ClubFields, FormsMirror
  <2>5. RebuiltRest(m, t) = re /\ re \in Int
    BY ClubFields, RestsMirror
  <2>6. RebuiltLineup(m) = li /\ li \in Int
    BY LineupsMirror
  <2>7. RebuiltPark = pk /\ pk \in Int
    BY DEF Park, RebuiltPark
  <2>8. mk \in Int
    BY MarketIsInt
  <2>9. /\ rebuilt = mk + rs + bp + st + re + li + fo + pk
        /\ total = mk + ls + bp + st + re + li + fo + pk
    <3> HIDE DEF pk
    <3> QED
      BY Zenon, <2>2, <2>3, <2>4, <2>5, <2>6, <2>7 DEF RebuiltTotal, Total, pk
  <2> HIDE DEF rs, ls, mk, bp, st, re, li, fo, pk, rebuilt, total
  <2>10. /\ rs \in Int /\ ls \in Int /\ rs <= ls /\ mk \in Int /\ bp \in Int /\ st \in Int
         /\ re \in Int /\ li \in Int /\ fo \in Int /\ pk \in Int
    BY Zenon, <2>1, <2>2, <2>3, <2>4, <2>5, <2>6, <2>7, <2>8
  <2> QED
    BY <2>9, <2>10
<1>4. rebuilt >= 75
  BY <1>1
<1> HIDE DEF rebuilt, total
<1>5. total >= 75
  BY <1>3, <1>4
<1> QED
  BY Zenon, <1>2, <1>5 DEF Qualifies, total

LEMMA ThinIsNobody ==
  ASSUME NEW h, NEW a, NEW p, NEW d, TooThin(h, a)
  PROVE  RebuiltFavorite(h, a, p, d) = "nobody"
<1>1. TooThin(a, h)
  BY DEF TooThin
<1>2. \A m, n : Favorite(FALSE, FALSE, m, n) = "nobody"
  BY DEF Favorite
<1>3. /\ RebuiltQualifies(h, a, p, d) = FALSE
      /\ RebuiltQualifies(a, h, Opposite(p), 0 - d) = FALSE
  BY <1>1 DEF RebuiltQualifies, RebuiltDisqualified
<1> QED
  BY Zenon, <1>2, <1>3 DEF RebuiltFavorite

\* favhistory.py, "reconstruct the Clear Favorite verdict": for any clubs and prices,
\* where nothing that is left out would have counted, whomever the rebuild names is the
\* favourite the live engine names.
THEOREM RebuildAddsNoFavoriteCorrect == FavSpec => []RebuildAddsNoFavorite
<1>1. FavInv => RebuildAddsNoFavorite
  <2> SUFFICES ASSUME FavInv, verdict # NoVerdict
               PROVE  LET rebuilt == RebuiltFavorite(home, away, HomePrice(row), HomeDrift(row))
                      IN /\ NothingLeftOut => rebuilt \in {verdict.favorite, "nobody"}
                         /\ TooThin(home, away) => rebuilt = "nobody"
    BY DEF RebuildAddsNoFavorite
  <2> DEFINE p == HomePrice(row)  q == Opposite(p)  d == HomeDrift(row)  e == 0 - d
             rebuilt == RebuiltFavorite(home, away, p, d)
             rh == RebuiltQualifies(home, away, p, d)
             ra == RebuiltQualifies(away, home, q, e)
             lh == Qualifies(home, away, p, d, FALSE)
             la == Qualifies(away, home, q, e, FALSE)
  <2>1. /\ p \in Int /\ q \in Int /\ d \in Int /\ e \in Int /\ row.extreme \in BOOLEAN
        /\ home \in Club /\ away \in Club
    BY PricesOfRow DEF FavInv
  <2>2. ASSUME NothingLeftOut PROVE rebuilt \in {verdict.favorite, "nobody"}
    <3>1. /\ row.extreme = FALSE
          /\ home.starter # "unannounced" /\ home.depth = 0 /\ home.penUsed <= 6
          /\ home.standing /\ home.lineup # "noTable"
          /\ away.starter # "unannounced" /\ away.depth = 0 /\ away.penUsed <= 6
          /\ away.standing /\ away.lineup # "noTable"
      BY <2>1, <2>2 DEF NothingLeftOut
    <3>2. verdict.favorite = Favorite(lh, la, Total(home, away, p, d, FALSE),
                                      Total(away, home, q, e, FALSE))
      <4>1. verdict = VerdictOf(home, away, row)
        BY DEF FavInv
      <4>2. verdict.favorite = Favorite(Qualifies(home, away, p, d, row.extreme),
                                        Qualifies(away, home, q, e, row.extreme),
                                        Total(home, away, p, d, row.extreme),
                                        Total(away, home, q, e, row.extreme))
        BY <4>1 DEF VerdictOf
      <4> QED
        BY Zenon, <3>1, <4>2
    <3>3. rh => lh
      BY <2>1, <3>1, RebuiltSide
    <3>4. ra => la
      BY <2>1, <3>1, RebuiltSide
    <3>5. ~(lh /\ la)
      BY <2>1, NeverBothQualify
    <3>6. rebuilt = Favorite(rh, ra, RebuiltTotal(home, away, p, d), RebuiltTotal(away, home, q, e))
      BY Zenon DEF RebuiltFavorite
    <3>7. rh \in BOOLEAN /\ ra \in BOOLEAN /\ lh \in BOOLEAN /\ la \in BOOLEAN
      BY DEF RebuiltQualifies, Qualifies
    <3> HIDE DEF rh, ra, lh, la, rebuilt
    <3>8. CASE rebuilt = "home"
      <4>1. lh /\ ~la
        BY <3>3, <3>5, <3>6, <3>7, <3>8, FavoriteQualifies
      <4>2. verdict.favorite = Favorite(TRUE, FALSE, Total(home, away, p, d, FALSE),
                                        Total(away, home, q, e, FALSE))
        BY Zenon, <3>2, <3>7, <4>1
      <4>3. verdict.favorite = "home"
        BY <4>2 DEF Favorite
      <4> QED
        BY <3>8, <4>3
    <3>9. CASE rebuilt = "away"
      <4>1. la /\ ~lh
        BY <3>4, <3>5, <3>6, <3>7, <3>9, FavoriteQualifies
      <4>2. verdict.favorite = Favorite(FALSE, TRUE, Total(home, away, p, d, FALSE),
                                        Total(away, home, q, e, FALSE))
        BY Zenon, <3>2, <3>7, <4>1
      <4>3. verdict.favorite = "away"
        BY <4>2 DEF Favorite
      <4> QED
        BY <3>9, <4>3
    <3> QED
      BY <3>6, <3>7, <3>8, <3>9, FavoriteQualifies
  <2>3. TooThin(home, away) => rebuilt = "nobody"
    BY Zenon, ThinIsNobody
  <2> HIDE DEF rebuilt
  <2>4. rebuilt = RebuiltFavorite(home, away, HomePrice(row), HomeDrift(row))
    BY Zenon DEF rebuilt
  <2> QED
    BY Zenon, <2>2, <2>3, <2>4
<1> QED
  BY <1>1, FavAlways, PTL

-----------------------------------------------------------------------------
(***************************************************************************)
(* FavHistory.  What a price is found by is a first or a last of a set of  *)
(* moments, which has one because moments are natural numbers.             *)
(***************************************************************************)
Below == {ss \in Nat \X Nat : ss[1] < ss[2]}

LEMMA EverySetHasALeast ==
  ASSUME NEW S \in SUBSET Nat, S # {}
  PROVE  \E t \in S : \A u \in S : t <= u
<1>1. IsWellFoundedOn(Below, Nat)
  <2>1. Below = OpToRel(<, Nat)
    BY Zenon DEF OpToRel, Below
  <2> QED
    BY Zenon, <2>1, NatLessThanWellFounded
<1>2. \A T \in SUBSET Nat : T # {} => \E t \in T : \A u \in T : <<u, t>> \notin Below
  BY Zenon, <1>1, WFMin
<1>3. PICK t \in S : \A u \in S : <<u, t>> \notin Below
  BY <1>2
<1>4. ASSUME NEW u \in S PROVE t <= u
  <2>1. t \in Nat /\ u \in Nat
    OBVIOUS
  <2>2. ~(u < t)
    BY <1>3, <2>1 DEF Below
  <2> QED
    BY <2>1, <2>2
<1> QED
  BY <1>4

LEMMA HasEarliest ==
  ASSUME NEW S \in SUBSET Nat, S # {}
  PROVE  /\ EarliestOf(S) \in S
         /\ \A u \in S : EarliestOf(S) <= u
  BY EverySetHasALeast DEF EarliestOf

LEMMA HasLatest ==
  ASSUME NEW S \in SUBSET Nat, S # {}, NEW b \in Nat, \A t \in S : t <= b
  PROVE  /\ LatestOf(S) \in S
         /\ \A u \in S : u <= LatestOf(S)
<1> DEFINE D == {b - t : t \in S}
<1>1. \A t \in S : t \in Nat /\ b - t \in Nat
  OBVIOUS
<1>2. D \in SUBSET Nat /\ D # {}
  BY <1>1
<1>3. PICK d \in D : \A u \in D : d <= u
  <2> HIDE DEF D
  <2> QED
    BY <1>2, EverySetHasALeast
<1>4. PICK m \in S : d = b - m
  OBVIOUS
<1>5. ASSUME NEW u \in S PROVE u <= m
  <2>1. b - u \in D
    OBVIOUS
  <2>2. b - m <= b - u
    BY <1>3, <1>4, <2>1
  <2>3. m \in Nat /\ u \in Nat
    BY <1>1
  <2> QED
    BY <2>2, <2>3
<1> QED
  BY <1>5 DEF LatestOf

LEMMA FirstFromFact ==
  ASSUME NEW S \in SUBSET Nat, NEW t \in Nat
  PROVE  \/ FirstFrom(S, t) = NoQuote
         \/ /\ FirstFrom(S, t) \in S /\ FirstFrom(S, t) >= t
            /\ \A u \in S : u >= t => FirstFrom(S, t) <= u
<1> DEFINE F == {u \in S : u >= t}
<1>1. CASE F = {}
  BY <1>1 DEF FirstFrom
<1>2. CASE F # {}
  <2>1. EarliestOf(F) \in F /\ \A u \in F : EarliestOf(F) <= u
    BY <1>2, HasEarliest
  <2>2. FirstFrom(S, t) = EarliestOf(F)
    BY <1>2 DEF FirstFrom
  <2> QED
    BY <2>1, <2>2
<1> QED
  BY <1>1, <1>2

\* A side that is priced in time, and moves from an open to that price.
InTime(q, last) == q.t5 <= last /\ (q.t5 # NoQuote => q.open <= q.t5)

LEMMA OwnQuotesInTime == \A q \in OwnQuotes : InTime(q, FirstPitchAt)
<1> SUFFICES ASSUME NEW ticks \in SUBSET Moment
             PROVE  InTime([t5 |-> TickPriceAt(ticks, LockAt, TickLag),
                            open |-> TickPriceAt(ticks, DayOpen, OpenTickLag)], FirstPitchAt)
  BY DEF OwnQuotes
<1> USE GameClockAssumption
<1> DEFINE p == FirstFrom(ticks, LockAt)  o == FirstFrom(ticks, DayOpen)
<1>0. ticks \in SUBSET Nat
  OBVIOUS
<1>1. p = NoQuote \/ (p \in ticks /\ p >= LockAt /\ p \in Nat)
  BY <1>0, FirstFromFact
<1>2. o = NoQuote \/ (o \in Nat /\ \A u \in ticks : u >= DayOpen => o <= u)
  BY <1>0, FirstFromFact
<1>3. TickPriceAt(ticks, LockAt, TickLag) = NoQuote
        \/ (TickPriceAt(ticks, LockAt, TickLag) = p /\ p <= LockAt + TickLag)
  BY <1>1 DEF TickPriceAt, NoQuote
<1>4. TickPriceAt(ticks, DayOpen, OpenTickLag) \in {NoQuote, o}
  BY DEF TickPriceAt
<1>5. CASE TickPriceAt(ticks, LockAt, TickLag) = NoQuote
  BY <1>5 DEF InTime, NoQuote
<1>6. CASE TickPriceAt(ticks, LockAt, TickLag) # NoQuote
  <2>1. p \in ticks /\ p >= DayOpen /\ p \in Nat /\ p <= FirstPitchAt
    BY <1>1, <1>3, <1>6 DEF NoQuote
  <2>2. TickPriceAt(ticks, DayOpen, OpenTickLag) <= p
    BY <1>2, <1>4, <2>1 DEF NoQuote
  <2> QED
    BY <1>3, <1>6, <2>1, <2>2 DEF InTime
<1> QED
  BY <1>5, <1>6

LEMMA BarQuotesInTime == \A q \in BarQuotes : InTime(q, LockAt)
<1> SUFFICES ASSUME NEW bars \in SUBSET Moment, UsableBars(bars)
             PROVE  InTime([t5 |-> LatestOf({t \in bars : t <= LockAt}),
                            open |-> FirstFrom(bars, DayOpen)], LockAt)
  BY DEF BarQuotes
<1> USE GameClockAssumption
<1> DEFINE B == {t \in bars : t <= LockAt}
<1>1. PICK t \in bars : t <= LockAt /\ LockAt - t <= BarLag
  BY DEF UsableBars
<1>2. LatestOf(B) \in B /\ \A u \in B : u <= LatestOf(B)
  <2>1. B \in SUBSET Nat /\ B # {} /\ \A u \in B : u <= LockAt
    BY <1>1
  <2> QED
    BY <2>1, HasLatest
<1>3. LatestOf(B) \in bars /\ LatestOf(B) <= LockAt /\ LatestOf(B) >= DayOpen
  <2>1. t \in Nat /\ LatestOf(B) \in Nat /\ LatestOf(B) \in bars /\ LatestOf(B) <= LockAt
    BY <1>2
  <2>2. t >= DayOpen
    BY <1>1, <2>1
  <2>3. t <= LatestOf(B)
    BY <1>1, <1>2
  <2> HIDE DEF B
  <2> QED
    BY <2>1, <2>2, <2>3
<1>4. FirstFrom(bars, DayOpen) = NoQuote
        \/ \A u \in bars : u >= DayOpen => FirstFrom(bars, DayOpen) <= u
  <2>1. bars \in SUBSET Nat
    OBVIOUS
  <2> QED
    BY <2>1, FirstFromFact
<1>5. FirstFrom(bars, DayOpen) <= LatestOf(B)
  <2>1. LatestOf(B) \in Nat
    BY <1>3
  <2> HIDE DEF B
  <2> QED
    BY <1>3, <1>4, <2>1 DEF NoQuote
<1> QED
  BY <1>3, <1>5 DEF InTime

LEMMA TapeQuotesInTime ==
  ASSUME NEW trades \in SUBSET [at : Moment, side : Sides], NEW s \in Sides
  PROVE  InTime(TapeQuotes(trades)[s], LockAt)
<1> USE GameClockAssumption
<1> DEFINE window == {r \in trades : DayOpen <= r.at /\ r.at <= LockAt}
           own == {r.at : r \in {q \in window : q.side = s}}
           any == {r.at : r \in window}
<1>1. CASE TapeQuotes(trades) = Unpriced
  BY <1>1 DEF Unpriced, InTime, NoQuote
<1>2. CASE TapeQuotes(trades) # Unpriced
  <2>1. window # {} /\ TapeQuotes(trades)[s] = TapeQuote(window, s)
    BY <1>2 DEF TapeQuotes
  <2>2. /\ own \in SUBSET Nat /\ \A t \in own : t <= LockAt
        /\ any \in SUBSET Nat /\ any # {} /\ \A t \in any : t <= LockAt
    BY <2>1
  <2>3. CASE own # {}
    <3>1. EarliestOf(own) \in own /\ LatestOf(own) \in own /\ EarliestOf(own) <= LatestOf(own)
      BY <2>2, <2>3, HasEarliest, HasLatest
    <3>2. TapeQuote(window, s) = [t5 |-> LatestOf(own), open |-> EarliestOf(own)]
      BY <2>3 DEF TapeQuote
    <3> QED
      BY <2>1, <2>2, <3>1, <3>2 DEF InTime
  <2>4. CASE own = {}
    <3>1. LatestOf(any) \in any
      BY <2>2, HasLatest
    <3>2. TapeQuote(window, s) = [t5 |-> LatestOf(any), open |-> NoQuote]
      BY <2>4 DEF TapeQuote
    <3> QED
      BY <2>1, <2>2, <3>1, <3>2 DEF InTime, NoQuote
  <2> QED
    BY <2>3, <2>4
<1> QED
  BY <1>1, <1>2

LEMMA PricesInTime ==
  ASSUME NEW b \in BOOLEAN, NEW p \in PricesOf(b), NEW s \in Sides
  PROVE  InTime(p[s], IF b THEN FirstPitchAt ELSE LockAt)
<1>1. CASE b
  <2>1. p[s] \in OwnQuotes
    BY <1>1 DEF PricesOf, TrackedPrices
  <2> QED
    BY <1>1, <2>1, OwnQuotesInTime
<1>2. CASE ~b
  <2>1. p \in SweptPrices
    BY <1>2 DEF PricesOf
  <2>2. CASE p \in [Sides -> BarQuotes]
    <3>1. p[s] \in BarQuotes
      BY <2>2
    <3> QED
      BY <1>2, <3>1, BarQuotesInTime
  <2>3. CASE \E trades \in SUBSET [at : Moment, side : Sides] : p = TapeQuotes(trades)
    BY <1>2, <2>3, TapeQuotesInTime
  <2> QED
    BY <2>1, <2>2, <2>3 DEF SweptPrices
<1> QED
  BY <1>1, <1>2

\* The quotes are moments of the game.
LEMMA OwnQuotesAreQuotes == OwnQuotes \subseteq Quote
<1> USE GameClockAssumption
<1> SUFFICES ASSUME NEW ticks \in SUBSET Moment, NEW t \in Nat, NEW lag
             PROVE  TickPriceAt(ticks, t, lag) \in Moment \cup {NoQuote}
  BY DEF OwnQuotes, Quote
<1>1. FirstFrom(ticks, t) \in Moment \cup {NoQuote}
  BY FirstFromFact
<1> QED
  BY <1>1 DEF TickPriceAt

LEMMA BarQuotesAreQuotes == BarQuotes \subseteq Quote
<1> USE GameClockAssumption
<1> SUFFICES ASSUME NEW bars \in SUBSET Moment, UsableBars(bars)
             PROVE  [t5 |-> LatestOf({t \in bars : t <= LockAt}),
                     open |-> FirstFrom(bars, DayOpen)] \in Quote
  BY DEF BarQuotes
<1> DEFINE B == {t \in bars : t <= LockAt}
<1>1. B \in SUBSET Nat /\ B # {} /\ \A u \in B : u <= LockAt
  BY DEF UsableBars
<1>2. LatestOf(B) \in B
  BY <1>1, HasLatest
<1>3. FirstFrom(bars, DayOpen) \in Moment \cup {NoQuote}
  BY FirstFromFact
<1> QED
  BY <1>2, <1>3 DEF Quote

LEMMA TapeQuotesAreQuotes ==
  ASSUME NEW trades \in SUBSET [at : Moment, side : Sides]
  PROVE  TapeQuotes(trades) \in [Sides -> Quote]
<1> USE GameClockAssumption
<1> DEFINE window == {r \in trades : DayOpen <= r.at /\ r.at <= LockAt}
           any == {r.at : r \in window}
<1>1. CASE ~Crossed(trades) \/ window = {}
  BY <1>1 DEF TapeQuotes, Unpriced, Quote
<1>2. CASE Crossed(trades) /\ window # {}
  <2>1. TapeQuotes(trades) = [s \in Sides |-> TapeQuote(window, s)]
    BY <1>2 DEF TapeQuotes
  <2>2. ASSUME NEW s \in Sides PROVE TapeQuote(window, s) \in Quote
    <3> DEFINE own == {r.at : r \in {q \in window : q.side = s}}
    <3>1. /\ own \in SUBSET Nat /\ own \subseteq Moment /\ \A t \in own : t <= LockAt
          /\ any \in SUBSET Nat /\ any \subseteq Moment /\ any # {} /\ \A t \in any : t <= LockAt
      BY <1>2
    <3>2. CASE own # {}
      <4>1. EarliestOf(own) \in own /\ LatestOf(own) \in own
        BY <3>1, <3>2, HasEarliest, HasLatest
      <4>2. TapeQuote(window, s) = [t5 |-> LatestOf(own), open |-> EarliestOf(own)]
        BY <3>2 DEF TapeQuote
      <4> QED
        BY <3>1, <4>1, <4>2 DEF Quote
    <3>3. CASE own = {}
      <4>1. LatestOf(any) \in any
        BY <3>1, HasLatest
      <4>2. TapeQuote(window, s) = [t5 |-> LatestOf(any), open |-> NoQuote]
        BY <3>3 DEF TapeQuote
      <4> QED
        BY <3>1, <4>1, <4>2 DEF Quote
    <3> QED
      BY <3>2, <3>3
  <2> QED
    BY <2>1, <2>2
<1> QED
  BY <1>1, <1>2

LEMMA PricesAreQuotes ==
  ASSUME NEW b \in BOOLEAN
  PROVE  PricesOf(b) \subseteq [Sides -> Quote]
<1>1. SweptPrices \subseteq [Sides -> Quote]
  BY BarQuotesAreQuotes, TapeQuotesAreQuotes DEF SweptPrices
<1>2. TrackedPrices \subseteq [Sides -> Quote]
  BY OwnQuotesAreQuotes DEF TrackedPrices
<1> QED
  BY <1>1, <1>2 DEF PricesOf

-----------------------------------------------------------------------------
(***************************************************************************)
(* The inductive invariant.  An entry is in one place only, and what it is *)
(* about was not stored when its batch was taken: if it is stored now, the *)
(* game's other entry did it.                                              *)
(***************************************************************************)
StoredRow == [tracked : BOOLEAN, prices : [Sides -> Quote], form : SUBSET Contest,
              box : [timed : BOOLEAN, games : SUBSET Contest]]
Earlier(h, g) == h \in final /\ DateOf[h] < DateOf[g]

Sound(g, r) ==
    /\ r \in StoredRow
    /\ \A s \in Sides : InTime(r.prices[s], IF r.tracked THEN FirstPitchAt ELSE LockAt)
    /\ \A h \in r.form : Earlier(h, g)
    /\ r.box.timed => \A h \in r.box.games : Earlier(h, g)

HistInv ==
    /\ calendar \in 1..SeasonEnd
    /\ final \subseteq Contest /\ corpus \subseteq final
    /\ listed \subseteq Entry /\ builds \subseteq Entry /\ listed \cap builds = {}
    /\ schedule = NoSchedule \/ schedule \subseteq final
    /\ RebuiltOnce
    /\ \A g \in DOMAIN history : Sound(g, history[g])

LEMMA TwinsDiffer ==
  ASSUME NEW e \in Entry, NEW f \in Entry, e # f, e.pk = f.pk
  PROVE  e.tracked # f.tracked
<1>1. e = [pk |-> e.pk, tracked |-> e.tracked] /\ f = [pk |-> f.pk, tracked |-> f.tracked]
  BY DEF Entry
<1> QED
  BY Zenon, <1>1

LEMMA FinishedBuildIsSound ==
  ASSUME HistInv, NEW e \in builds, FinishBuild(e)
  PROVE  HistInv'
<1> USE DEF HistInv
<1>1. e \in Entry /\ e.tracked \in BOOLEAN /\ e.pk \in Contest
  BY DEF Entry
<1>2. PICK p \in PricesOf(e.tracked), box \in SeasonLines(e.pk) :
         SaveFavHistory(e.pk, [tracked |-> e.tracked, prices |-> p, box |-> box,
                               form |-> Prior(schedule', e.pk)])
  BY DEF FinishBuild
<1> DEFINE r == [tracked |-> e.tracked, prices |-> p, box |-> box, form |-> Prior(schedule', e.pk)]
<1>3. schedule' \subseteq final
  BY DEF FinishBuild
<1>4. /\ final' = final /\ corpus' = corpus /\ listed' = listed /\ builds' = builds \ {e}
      /\ calendar' = calendar
  BY DEF FinishBuild
<1>5. Sound(e.pk, r)
  <2>1. /\ r.tracked = e.tracked /\ r.prices = p /\ r.box = box
        /\ r.form = Prior(schedule', e.pk)
    OBVIOUS
  <2>2. \A s \in Sides : InTime(p[s], IF e.tracked THEN FirstPitchAt ELSE LockAt)
    BY <1>1, PricesInTime
  <2>3. \A h \in Prior(schedule', e.pk) : Earlier(h, e.pk)
    BY <1>3 DEF Prior, Earlier
  <2>4. /\ box \in [timed : BOOLEAN, games : SUBSET Contest]
        /\ box.timed => \A h \in box.games : Earlier(h, e.pk)
    <3>1. CASE box = [timed |-> TRUE, games |-> Prior(final, e.pk)]
      <4>1. box.timed = TRUE /\ box.games = Prior(final, e.pk)
        BY <3>1
      <4>2. Prior(final, e.pk) \subseteq Contest /\ \A h \in Prior(final, e.pk) : Earlier(h, e.pk)
        BY DEF Prior, Earlier
      <4> QED
        BY <3>1, <4>1, <4>2
    <3>2. CASE box = [timed |-> FALSE, games |-> final]
      BY <3>2
    <3> QED
      BY <3>1, <3>2 DEF SeasonLines
  <2>5. r \in StoredRow
    <3>1. p \in [Sides -> Quote] /\ Prior(schedule', e.pk) \in SUBSET Contest
      BY <1>1, <1>3, PricesAreQuotes DEF Prior
    <3> QED
      BY <1>1, <2>4, <3>1 DEF StoredRow
  <2> HIDE DEF r
  <2> QED
    BY Zenon, <2>1, <2>2, <2>3, <2>4, <2>5 DEF Sound
<1>6. /\ DOMAIN history' = DOMAIN history \cup {e.pk}
      /\ history'[e.pk] = r
      /\ \A g \in DOMAIN history : g # e.pk => history'[g] = history[g]
  <2> HIDE DEF r
  <2> QED
    BY <1>2 DEF SaveFavHistory, r
<1>7. (\A g \in DOMAIN history : Sound(g, history[g]))'
  <2> HIDE DEF r
  <2> SUFFICES ASSUME NEW g \in DOMAIN history' PROVE Sound(g, history'[g])
    BY <1>4, Zenon DEF Sound, Earlier
  <2> QED
    BY <1>5, <1>6
<1>8. RebuiltOnce'
  <2> SUFFICES ASSUME NEW f \in listed' \cup builds', f.pk \in DOMAIN history'
               PROVE  history'[f.pk].tracked # f.tracked
    BY DEF RebuiltOnce
  <2>1. f \in Entry /\ f # e /\ f \in listed \cup builds
    BY <1>4
  <2>2. CASE f.pk = e.pk
    <3>1. history'[f.pk].tracked = e.tracked
      BY <1>6, <2>2
    <3>2. e.tracked # f.tracked
      BY <1>1, <2>1, <2>2, TwinsDiffer
    <3> QED
      BY <3>1, <3>2, Zenon
  <2>3. CASE f.pk # e.pk
    <3>1. f.pk \in DOMAIN history /\ history'[f.pk] = history[f.pk]
      BY <1>6, <2>3
    <3> QED
      BY <2>1, <3>1, Zenon DEF RebuiltOnce
  <2> QED
    BY <2>2, <2>3
<1>9. schedule' = NoSchedule \/ schedule' \subseteq final'
  BY <1>3, <1>4
<1> QED
  BY <1>4, <1>7, <1>8, <1>9

LEMMA HistInvInductive == HistInv /\ [HistNext]_histVars => HistInv'
<1> SUFFICES ASSUME HistInv, [HistNext]_histVars PROVE HistInv'
  OBVIOUS
<1>1. ASSUME TakeBatch PROVE HistInv'
  <2>1. /\ builds = {} /\ builds' = builds /\ final' = final /\ corpus' = corpus /\ history' = history
        /\ schedule' = schedule /\ calendar' = calendar
    BY <1>1 DEF TakeBatch, BatchIsRunning
  <2>2. \A e \in listed' : e \in Entry /\ e.pk \notin DOMAIN history
    <3>1. PICK answered \in SUBSET (corpus \ DOMAIN history),
               swept \in SUBSET (final \ DOMAIN history) :
                  listed' = [pk : answered, tracked : {TRUE}] \cup [pk : swept, tracked : {FALSE}]
      BY <1>1 DEF TakeBatch
    <3>2. answered \subseteq Contest /\ swept \subseteq Contest
      BY DEF HistInv
    <3> QED
      BY <3>1, <3>2 DEF Entry
  <2> QED
    BY <2>1, <2>2 DEF HistInv, RebuiltOnce, Sound, Earlier
<1>2. ASSUME NEW e \in listed, BeginBuild(e) PROVE HistInv'
  BY <1>2 DEF BeginBuild, HistInv, RebuiltOnce, Sound, Earlier
<1>3. ASSUME NEW e \in builds, FinishBuild(e) PROVE HistInv'
  BY <1>3, FinishedBuildIsSound
<1>4. ASSUME NEW e \in builds, BuildFails(e) PROVE HistInv'
  BY <1>4 DEF BuildFails, HistInv, RebuiltOnce, Sound, Earlier
<1>5. ASSUME NEW g \in Contest, Finishes(g) PROVE HistInv'
  BY <1>5 DEF Finishes, HistInv, RebuiltOnce, Sound, Earlier
<1>6. ASSUME NEW g \in Contest, EntersCorpus(g) PROVE HistInv'
  BY <1>6 DEF EntersCorpus, HistInv, RebuiltOnce, Sound, Earlier
<1>7. CASE NextCalendarDay
  BY <1>7, SeasonAssumption DEF NextCalendarDay, HistInv, RebuiltOnce, Sound, Earlier
<1>8. CASE HistoryStop
  BY <1>8 DEF HistoryStop, HistInv, RebuiltOnce, Sound, Earlier
<1>9. CASE UNCHANGED histVars
  BY <1>9 DEF histVars, HistInv, RebuiltOnce, Sound, Earlier
<1> QED
  BY <1>1, <1>2, <1>3, <1>4, <1>5, <1>6, <1>7, <1>8, <1>9 DEF HistNext

LEMMA HistAlways == HistSpec => []HistInv
<1>1. HistInit => HistInv
  BY SeasonAssumption DEF HistInit, HistInv, RebuiltOnce
<1> QED
  BY <1>1, HistInvInductive, PTL DEF HistSpec

\* The tables and the batch of favhistory.py have their types.
LEMMA HistTypesFollow == HistInv => HistTypeOK
  BY DEF HistInv, HistTypeOK, Sound, StoredRow

\* favhistory.py, for any season and any ticks, bars and trades of a game: no price of a
\* rebuilt verdict is from after its game began, its strength, rest and form count earlier
\* dates only, and so do its starter and lineup unless the box score was that of now.
THEOREM AsOfThenCorrect == HistSpec => []AsOfThen
<1>1. HistInv => AsOfThen
  <2> SUFFICES ASSUME HistInv, NEW g \in DOMAIN history
               PROVE  /\ \A s \in Sides :
                            LET q == history[g].prices[s] IN
                            /\ q.t5 <= IF history[g].tracked THEN FirstPitchAt ELSE LockAt
                            /\ q.t5 # NoQuote => q.open <= q.t5
                      /\ \A h \in history[g].form
                                  \cup (IF history[g].box.timed THEN history[g].box.games ELSE {}) :
                            h \in final /\ DateOf[h] < DateOf[g]
    BY Zenon DEF AsOfThen
  <2>1. Sound(g, history[g])
    BY DEF HistInv
  <2> QED
    BY <2>1 DEF Sound, InTime, Earlier
<1> QED
  BY <1>1, HistAlways, PTL

\* favhistory.run_batch: whatever fails or is cut off, no batch rebuilds what an
\* earlier one stored.
THEOREM RebuiltOnceCorrect == HistSpec => []RebuiltOnce
<1>1. HistInv => RebuiltOnce
  BY DEF HistInv
<1> QED
  BY <1>1, HistAlways, PTL
=============================================================================
