---------------------------- MODULE AlertsProofs ----------------------------
(***************************************************************************)
(* Proofs about the alert services: no soccer alert without a match that   *)
(* the running pass was told is in play, no outcome but the final score,   *)
(* no configuration older than the copy may be, one scorecard of a match;  *)
(* and, with BaseballProofs, that all parts keep what MCAlerts checks.     *)
(***************************************************************************)
EXTENDS MCAlerts, BaseballProofs, FiniteSetTheorems

-----------------------------------------------------------------------------
(***************************************************************************)
(* FootballAlerts.  Between the feed and the end of the rows, what the     *)
(* cache shows as in play is in the feed of this pass.                     *)
(***************************************************************************)
MatchState == [status : {"NS", Over} \cup Playing, home : Goals, away : Goals, open : BOOLEAN]
SeenState == [status : Playing \cup {Over, Unseen}, home : Goals, away : Goals]
Kept == [final : Results \cup {Owed}, pending : BOOLEAN]

SeenTypeOK ==
    /\ match \in [Fixture -> MatchState]
    /\ \A f \in DOMAIN fixtures : fixtures[f] \in SeenState
    /\ liveIds \subseteq Fixture

PlayingIsLive == job = "rows" =>
    \A f \in DOMAIN fixtures : fixtures[f].status \in Playing => f \in liveIds

TriggersAreFinal ==
    /\ \A f \in DOMAIN triggers : triggers[f] \in Kept
    /\ OutcomeIsFinal

\* What the end of a pass still asks for has no outcome yet.
AskedAreOwed == job = "outcomes" =>
    \A f \in todo : f \in DOMAIN triggers /\ triggers[f].final = Owed

Steps == {"idle", "feed", "rows", "outcomes"}

FootInv ==
    /\ SeenTypeOK /\ PlayingIsLive /\ job \in Steps /\ todo \subseteq Fixture
    /\ DOMAIN triggers \subseteq Fixture /\ TriggersAreFinal /\ AskedAreOwed

LEMMA GoneIsNotPlaying ==
  ASSUME NEW m \in SeenState
  PROVE  Gone(m) \in SeenState /\ Gone(m).status \notin Playing
  BY DEF Gone, SeenState, Playing, Over, Unseen

LEMMA FootSeen == FootInv /\ [FootNext]_footVars => SeenTypeOK' /\ PlayingIsLive'
<1> SUFFICES ASSUME SeenTypeOK, PlayingIsLive, [FootNext]_footVars
             PROVE  SeenTypeOK' /\ PlayingIsLive'
  BY DEF FootInv
<1> USE DEF SeenTypeOK, PlayingIsLive
<1>1. CASE NoRows
  BY <1>1 DEF NoRows
<1>2. CASE PassBegin \/ OutcomesBegin \/ PassEnd
  BY <1>2 DEF PassBegin, OutcomesBegin, PassEnd
<1>3. CASE Feed
  <2>1. PICK answer \in {{}, {f \in Fixture : match[f].status \in Playing}} :
         \E dropped \in SUBSET (DOMAIN fixtures \ answer) :
            /\ liveIds' = answer
            /\ fixtures' = [f \in (DOMAIN fixtures \cup answer) \ dropped |->
                               IF f \in answer THEN View(match[f]) ELSE Gone(fixtures[f])]
    BY <1>3 DEF Feed
  <2>9. PICK dropped \in SUBSET (DOMAIN fixtures \ answer) :
          /\ liveIds' = answer
          /\ fixtures' = [f \in (DOMAIN fixtures \cup answer) \ dropped |->
                             IF f \in answer THEN View(match[f]) ELSE Gone(fixtures[f])]
    BY <2>1
  <2>2. \A f \in answer : f \in Fixture /\ View(match[f]) \in SeenState
    BY DEF View, MatchState, SeenState
  <2>3. \A f \in DOMAIN fixtures' :
          /\ fixtures'[f] \in SeenState
          /\ fixtures'[f].status \in Playing => f \in liveIds'
    BY <2>9, <2>2, GoneIsNotPlaying
  <2>4. liveIds' \subseteq Fixture
    BY <2>9, <2>2
  <2> QED
    BY <1>3, <2>3, <2>4 DEF Feed
<1>4. CASE FootRestart
  BY <1>4 DEF FootRestart
<1>5. ASSUME NEW f \in Fixture, VisitRow(f) \/ VisitTrigger(f) \/ AgeOut(f)
      PROVE  SeenTypeOK' /\ PlayingIsLive'
  BY <1>5 DEF VisitRow, VisitTrigger, AgeOut
<1>6. ASSUME NEW f \in Fixture, Play(f) PROVE SeenTypeOK' /\ PlayingIsLive'
  <2>1. UNCHANGED <<fixtures, liveIds, job>>
    BY <1>6 DEF Play
  <2>2. match[f] \in MatchState
    OBVIOUS
  <2>3. CASE match' = [match EXCEPT ![f].open = TRUE] \/ match' = [match EXCEPT ![f].open = FALSE]
    BY <2>1, <2>2, <2>3 DEF MatchState
  <2>4. CASE /\ match[f].open /\ match[f].status # Over
             /\ match' = [match EXCEPT ![f].status = NextStatus[@]]
    <3>1. NextStatus[match[f].status] \in {Over} \cup Playing
      BY <2>2, <2>4 DEF MatchState, NextStatus, Playing, Over
    <3> QED
      BY <2>1, <2>2, <2>4, <3>1 DEF MatchState
  <2>5. CASE /\ match[f].home + match[f].away < MaxGoals
             /\ \/ match' = [match EXCEPT ![f].home = @ + 1]
                \/ match' = [match EXCEPT ![f].away = @ + 1]
    <3>1. match[f].home + 1 \in Goals /\ match[f].away + 1 \in Goals
      BY <2>2, <2>5, GoalsAssumption DEF MatchState, Goals
    <3> QED
      BY <2>1, <2>2, <2>5, <3>1 DEF MatchState
  <2> QED
    BY <1>6, <2>3, <2>4, <2>5 DEF Play
<1>7. CASE UNCHANGED footVars
  BY <1>7 DEF footVars
<1> QED
  BY <1>1, <1>2, <1>3, <1>4, <1>5, <1>6, <1>7 DEF FootNext

\* A match that is over keeps its score.
LEMMA OverStaysOver ==
  ASSUME SeenTypeOK, [FootNext]_footVars, NEW f \in Fixture, match[f].status = Over
  PROVE  match'[f].status = Over /\ Result(match'[f]) = Result(match[f])
<1>1. CASE UNCHANGED match
  BY <1>1
<1>2. ASSUME NEW g \in Fixture, Play(g)
      PROVE  match'[f].status = Over /\ Result(match'[f]) = Result(match[f])
  <2>1. match \in [Fixture -> MatchState] /\ match[f] \in MatchState
    BY DEF SeenTypeOK
  <2>2. CASE g # f
    BY <1>2, <2>1, <2>2 DEF Play
  <2>3. CASE g = f
    <3>1. match' = [match EXCEPT ![f].open = FALSE]
      BY <1>2, <2>3 DEF Play, Over, Playing
    <3>2. match'[f] = [match[f] EXCEPT !.open = FALSE]
      BY <2>1, <3>1
    <3> QED
      BY <2>1, <3>2 DEF MatchState, Result
  <2> QED
    BY <2>2, <2>3
<1> QED
  BY <1>1, <1>2 DEF FootNext, footVars, NoRows, PassBegin, Feed, OutcomesBegin, PassEnd,
                    FootRestart, VisitRow, VisitTrigger, AgeOut

LEMMA FootTriggers ==
  FootInv /\ [FootNext]_footVars => DOMAIN triggers' \subseteq Fixture /\ TriggersAreFinal'
<1> SUFFICES ASSUME FootInv, [FootNext]_footVars
             PROVE  DOMAIN triggers' \subseteq Fixture /\ TriggersAreFinal'
  OBVIOUS
<1>1. \A f \in Fixture : match[f].status = Over =>
         match'[f].status = Over /\ Result(match'[f]) = Result(match[f])
  BY OverStaysOver DEF FootInv
<1>2. /\ DOMAIN triggers \subseteq Fixture
      /\ \A f \in DOMAIN triggers : triggers[f] \in Kept
      /\ OutcomeIsFinal
  BY DEF FootInv, TriggersAreFinal
<1>3. CASE UNCHANGED triggers
  BY <1>1, <1>2, <1>3 DEF TriggersAreFinal, OutcomeIsFinal
<1>4. ASSUME NEW f \in Fixture, InsertTrigger(f), UNCHANGED match
      PROVE  DOMAIN triggers' \subseteq Fixture /\ TriggersAreFinal'
  <2>1. DOMAIN triggers' = DOMAIN triggers \cup {f}
    BY <1>4 DEF InsertTrigger
  <2>2. \A g \in DOMAIN triggers' :
           \/ g \in DOMAIN triggers /\ triggers'[g] = triggers[g]
           \/ triggers'[g] \in Kept /\ triggers'[g].final = Owed
    BY <1>4 DEF InsertTrigger, Kept
  <2> QED
    BY <1>2, <1>4, <2>1, <2>2 DEF TriggersAreFinal, OutcomeIsFinal
<1>5. ASSUME NEW f \in DOMAIN triggers, AgeOut(f)
      PROVE  DOMAIN triggers' \subseteq Fixture /\ TriggersAreFinal'
  <2>1. UNCHANGED match /\ DOMAIN triggers' = DOMAIN triggers
    BY <1>5 DEF AgeOut
  <2>2. \A g \in DOMAIN triggers :
           triggers'[g] \in Kept /\ triggers'[g].final = triggers[g].final
    BY <1>2, <1>5 DEF AgeOut, Kept
  <2> QED
    BY <1>2, <2>1, <2>2 DEF TriggersAreFinal, OutcomeIsFinal
<1>6. ASSUME NEW f \in DOMAIN triggers, IsOver(match[f]), SaveOutcome(f, Result(match[f])),
             UNCHANGED match
      PROVE  DOMAIN triggers' \subseteq Fixture /\ TriggersAreFinal'
  <2>1. DOMAIN triggers' = DOMAIN triggers
    BY <1>6 DEF SaveOutcome
  <2>2. \A g \in DOMAIN triggers :
           /\ triggers'[g] \in Kept
           /\ triggers'[g].final = IF g = f THEN Result(match[f]) ELSE triggers[g].final
    <3>1. match[f] \in MatchState
      BY <1>2 DEF FootInv, SeenTypeOK
    <3>2. Result(match[f]) \in Results
      BY <3>1 DEF MatchState, Result, Results
    <3> QED
      BY <1>2, <1>6, <3>2 DEF SaveOutcome, Kept
  <2> QED
    BY <1>2, <1>6, <2>1, <2>2 DEF TriggersAreFinal, OutcomeIsFinal, IsOver
<1>7. ASSUME NEW f \in Fixture, VisitTrigger(f)
      PROVE  DOMAIN triggers' \subseteq Fixture /\ TriggersAreFinal'
  <2>1. f \in DOMAIN triggers
    BY <1>7 DEF VisitTrigger, FootInv, AskedAreOwed
  <2> QED
    BY <1>3, <1>6, <1>7, <2>1 DEF VisitTrigger
<1> QED
  BY <1>3, <1>4, <1>5, <1>7
     DEF FootNext, footVars, NoRows, PassBegin, Feed, OutcomesBegin, PassEnd, FootRestart,
         VisitRow, Play, AgeOut

LEMMA FootAsked ==
  FootInv /\ [FootNext]_footVars => AskedAreOwed' /\ job' \in Steps /\ todo' \subseteq Fixture
<1> SUFFICES ASSUME FootInv, [FootNext]_footVars
             PROVE  AskedAreOwed' /\ job' \in Steps /\ todo' \subseteq Fixture
  OBVIOUS
<1> USE DEF AskedAreOwed, Steps
<1>0. /\ AskedAreOwed /\ job \in Steps /\ todo \subseteq Fixture /\ DOMAIN triggers \subseteq Fixture
      /\ \A f \in DOMAIN triggers : triggers[f] \in Kept
  BY DEF FootInv, TriggersAreFinal
<1>1. CASE NoRows \/ PassBegin \/ Feed \/ PassEnd \/ FootRestart \/ UNCHANGED footVars
  BY <1>0, <1>1 DEF NoRows, PassBegin, Feed, PassEnd, FootRestart, footVars, Matched
<1>2. CASE OutcomesBegin
  BY <1>0, <1>2 DEF OutcomesBegin, PendingOutcomes
<1>3. ASSUME NEW f \in Fixture, VisitRow(f)
      PROVE  AskedAreOwed' /\ job' \in Steps /\ todo' \subseteq Fixture
  BY <1>0, <1>3 DEF VisitRow
<1>4. ASSUME NEW f \in Fixture, VisitTrigger(f)
      PROVE  AskedAreOwed' /\ job' \in Steps /\ todo' \subseteq Fixture
  <2>1. /\ DOMAIN triggers' = DOMAIN triggers
        /\ \A g \in DOMAIN triggers : g # f => triggers'[g] = triggers[g]
    BY <1>4 DEF VisitTrigger, SaveOutcome
  <2> QED
    BY <1>0, <1>4, <2>1 DEF VisitTrigger
<1>5. ASSUME NEW f \in Fixture, AgeOut(f)
      PROVE  AskedAreOwed' /\ job' \in Steps /\ todo' \subseteq Fixture
  <2>1. /\ DOMAIN triggers' = DOMAIN triggers
        /\ \A g \in DOMAIN triggers : triggers'[g].final = triggers[g].final
    BY <1>0, <1>5 DEF AgeOut, Kept
  <2> QED
    BY <1>0, <1>5, <2>1 DEF AgeOut
<1>6. ASSUME NEW f \in Fixture, Play(f)
      PROVE  AskedAreOwed' /\ job' \in Steps /\ todo' \subseteq Fixture
  BY <1>0, <1>6 DEF Play
<1> QED
  BY <1>1, <1>2, <1>3, <1>4, <1>5, <1>6 DEF FootNext

LEMMA FootAlways == FootSpec => []FootInv
<1>1. FootInit => FootInv
  <2> SUFFICES ASSUME FootInit PROVE FootInv
    OBVIOUS
  <2>1. 0 \in Goals
    BY GoalsAssumption DEF Goals
  <2>2. SeenTypeOK /\ PlayingIsLive
    BY <2>1 DEF FootInit, SeenTypeOK, PlayingIsLive, MatchState
  <2>3. /\ DOMAIN triggers \subseteq Fixture /\ TriggersAreFinal /\ AskedAreOwed
        /\ job \in Steps /\ todo \subseteq Fixture
    BY DEF FootInit, TriggersAreFinal, OutcomeIsFinal, AskedAreOwed, Steps
  <2> QED
    BY <2>2, <2>3 DEF FootInv
<1>2. FootInv /\ [FootNext]_footVars => FootInv'
  BY FootSeen, FootTriggers, FootAsked DEF FootInv
<1> QED
  BY <1>1, <1>2, PTL DEF FootSpec

LEMMA FootTypesFollow == FootInv => FootTypeOK
  BY DEF FootInv, SeenTypeOK, MatchState, SeenState, TriggersAreFinal, Kept, Steps, FootTypeOK

\* football/live.py: the score kept for an alert is the one its match ended with.
THEOREM OutcomeIsFinalCorrect == FootSpec => []OutcomeIsFinal
<1>1. FootInv => OutcomeIsFinal
  BY DEF FootInv, TriggersAreFinal
<1> QED
  BY <1>1, FootAlways, PTL

\* football/live.py: every alert is about a match of the feed that the running pass
\* received, whatever the cache remembers of matches that left it.
THEOREM NoStaleAlertCorrect == FootSpec => NoStaleAlert
<1>1. FootInv /\ [FootNext]_footVars
        => [\A f \in DOMAIN triggers' \ DOMAIN triggers : f \in liveIds]_footVars
  <2> SUFFICES ASSUME FootInv, FootNext, NEW f \in DOMAIN triggers' \ DOMAIN triggers
               PROVE  f \in liveIds
    OBVIOUS
  <2>1. ASSUME NEW g \in Fixture, VisitTrigger(g) PROVE DOMAIN triggers' = DOMAIN triggers
    BY <2>1 DEF VisitTrigger, SaveOutcome
  <2>2. ASSUME NEW g \in Fixture, AgeOut(g) PROVE DOMAIN triggers' = DOMAIN triggers
    BY <2>2 DEF AgeOut
  <2>3. PICK g \in Fixture : VisitRow(g)
    BY <2>1, <2>2 DEF FootNext, NoRows, PassBegin, Feed, OutcomesBegin, PassEnd, FootRestart, Play
  <2>4. /\ job = "rows" /\ g \in DOMAIN fixtures /\ fixtures[g].status = "late"
        /\ DOMAIN triggers' = DOMAIN triggers \cup {g}
    BY <2>3 DEF VisitRow, InsertTrigger, Check
  <2> QED
    BY <2>4 DEF FootInv, PlayingIsLive, Playing
<1> QED
  BY <1>1, FootAlways, PTL DEF FootSpec, NoStaleAlert

\* One trigger is raised, one gets its outcome, or the entries of the log stay.
LEMMA FootStepIsALogStep ==
  ASSUME FootInv, [FootNext]_footVars
  PROVE  [FootLog!LogNext]_FootEntries
<1> DEFINE Goal == FootLog!LogNext \/ UNCHANGED FootEntries
<1> USE DEF FootEntries, Owed, FootLog!Entry, FootLog!None
<1>1. CASE UNCHANGED triggers
  BY <1>1
<1>2. ASSUME NEW f \in Fixture, InsertTrigger(f) PROVE Goal
  <2>1. CASE f \in DOMAIN triggers
    <3>1. DOMAIN triggers' = DOMAIN triggers /\ \A g \in DOMAIN triggers : triggers'[g] = triggers[g]
      BY <1>2, <2>1 DEF InsertTrigger
    <3> QED
      BY <3>1
  <2>2. CASE f \notin DOMAIN triggers
    <3>1. /\ DOMAIN triggers' = DOMAIN triggers \cup {f}
          /\ triggers'[f].final = Owed
          /\ \A g \in DOMAIN triggers : triggers'[g] = triggers[g]
      BY <1>2, <2>2 DEF InsertTrigger
    <3>2. FootLog!Raise(f, "0-0")
      BY <2>2, <3>1 DEF FootLog!Raise
    <3> QED
      BY <3>2 DEF FootLog!LogNext
  <2> QED
    BY <2>1, <2>2
<1>3. ASSUME NEW f \in Fixture, VisitTrigger(f) PROVE Goal
  <2>1. f \in DOMAIN triggers /\ triggers[f].final = Owed
    BY <1>3 DEF VisitTrigger, FootInv, AskedAreOwed
  <2>2. match[f] \in MatchState /\ \A g \in DOMAIN triggers : triggers[g] \in Kept
    BY DEF FootInv, SeenTypeOK, TriggersAreFinal
  <2>3. CASE SaveOutcome(f, Result(match[f]))
    <3> DEFINE finals == [g \in {f} |-> Result(match[f])]
    <3>1. finals \in [{f} -> Results]
      BY <2>2 DEF MatchState, Result, Results
    <3>2. /\ DOMAIN triggers' = DOMAIN triggers
          /\ triggers'[f].final = Result(match[f])
          /\ \A g \in DOMAIN triggers : g # f => triggers'[g] = triggers[g]
      BY <2>1, <2>2, <2>3 DEF SaveOutcome, Kept
    <3>3. FootLog!Settle(finals)
      BY <2>1, <3>2 DEF FootLog!Settle
    <3>4. {f} \in SUBSET DOMAIN FootEntries
      BY <2>1
    <3> HIDE DEF finals, FootEntries
    <3> QED
      BY <3>1, <3>3, <3>4 DEF FootLog!LogNext
  <2> QED
    BY <1>1, <1>3, <2>3 DEF VisitTrigger
<1>4. ASSUME NEW f \in Fixture, AgeOut(f) PROVE Goal
  <2>1. DOMAIN triggers' = DOMAIN triggers
        /\ \A g \in DOMAIN triggers : triggers'[g].final = triggers[g].final
    BY <1>4 DEF AgeOut, FootInv, TriggersAreFinal, Kept
  <2> QED
    BY <2>1
<1>5. ASSUME NEW f \in Fixture, VisitRow(f) PROVE Goal
  BY <1>1, <1>2, <1>5 DEF VisitRow
<1> QED
  BY <1>1, <1>3, <1>4, <1>5
     DEF FootNext, footVars, NoRows, PassBegin, Feed, OutcomesBegin, PassEnd, FootRestart, Play

\* football/store.py: the table of triggers is an alert log; in particular no outcome
\* is saved twice, though passes are cut off and triggers age out between.
THEOREM AlertsAreALogCorrect == FootSpec => AlertsAreALog
<1>1. FootInit => FootLog!LogInit
  <2> SUFFICES ASSUME FootInit PROVE FootEntries = <<>>
    BY DEF FootLog!LogInit
  <2>1. DOMAIN triggers = {}
    BY DEF FootInit
  <2> QED
    BY <2>1 DEF FootEntries
<1> QED
  BY <1>1, FootAlways, FootStepIsALogStep, PTL DEF FootSpec, AlertsAreALog, FootLog!LogSpec

-----------------------------------------------------------------------------
(***************************************************************************)
(* ConfigCache.  `held' remembers when each configuration was last the     *)
(* saved one.  A thread that has read the row holds what was saved after   *)
(* it asked, the copy what was saved at the time it carries, and a thread  *)
(* that took the copy what was saved less than CfgTtl before it asked.     *)
(***************************************************************************)
Step == {"idle", "miss", "read", "has", "clear"}
WorkerState == [at : Step, since : 0..LastTick, cfg : Config, update : Update \cup {NoUpdate}]
Copy == [at : 0..LastTick, cfg : Config]

HeldByNow == \A c \in Config : held[c] <= tick
SavedIsHeld == held[saved] = tick
SinceIsPast == \A w \in Worker : worker[w].since <= tick
ReadIsFresh == \A w \in Worker : worker[w].at = "read" => held[worker[w].cfg] >= worker[w].since
CopyIsOfItsTime == copy # NoCopy => copy.at <= tick /\ held[copy.cfg] >= copy.at

CfgInv == CfgTypeOK /\ HeldByNow /\ SavedIsHeld /\ SinceIsPast /\ ReadIsFresh
          /\ CopyIsOfItsTime /\ ConfigIsRecent

LEMMA NoCopyIsNoCopy == NoCopy \notin Copy
  BY DEF NoCopy, Copy

LEMMA WorkerUpdates ==
  ASSUME CfgTypeOK, NEW w \in Worker, NEW at \in Step
  PROVE  LET new == [worker EXCEPT ![w].at = at]
         IN /\ new \in [Worker -> WorkerState]
            /\ \A v \in Worker : new[v].cfg = worker[v].cfg /\ new[v].since = worker[v].since
                                 /\ new[v].at = IF v = w THEN at ELSE worker[v].at
  BY DEF CfgTypeOK, WorkerState, Step

LEMMA CfgInitInv == CfgInit => CfgInv
<1> SUFFICES ASSUME CfgInit PROVE CfgInv
  OBVIOUS
<1>1. saved \in Config /\ tick = 0 /\ 0 \in 0..LastTick /\ Never \in Int /\ Never < 0
  BY ConfigAssumption DEF CfgInit, Config, Never
<1>2. \A w \in Worker : worker[w] = Idle /\ Idle \in WorkerState
  BY <1>1 DEF CfgInit, Idle, WorkerState, Step, Config
<1>3. CfgTypeOK
  BY <1>1, <1>2 DEF CfgInit, CfgTypeOK, WorkerState, Step
<1>4. HeldByNow /\ SavedIsHeld
  BY <1>1 DEF CfgInit, HeldByNow, SavedIsHeld
<1>5. SinceIsPast /\ ReadIsFresh /\ CopyIsOfItsTime /\ ConfigIsRecent
  BY <1>1, <1>2 DEF CfgInit, Idle, SinceIsPast, ReadIsFresh, CopyIsOfItsTime, ConfigIsRecent
<1> QED
  BY <1>3, <1>4, <1>5 DEF CfgInv

\* What CfgTypeOK says of the numbers and the configurations the steps compare.
LEMMA CfgTypes ==
  ASSUME CfgTypeOK
  PROVE  /\ tick \in Int /\ saved \in Config /\ CfgTtl \in Nat \ {0}
         /\ \A c \in Config : held[c] \in Int
         /\ \A w \in Worker : worker[w].since \in Int /\ worker[w].cfg \in Config
         /\ worker \in [Worker -> WorkerState]
         /\ copy # NoCopy => copy \in Copy /\ copy.at \in Int /\ copy.cfg \in Config
<1>1. Never \in Int
  BY ConfigAssumption DEF Never
<1>2. \A c \in Config : held[c] \in {Never} \cup 0..LastTick
  BY DEF CfgTypeOK
<1>3. worker \in [Worker -> WorkerState]
  BY DEF CfgTypeOK, WorkerState, Step
<1>4. \A w \in Worker : worker[w].since \in 0..LastTick /\ worker[w].cfg \in Config
  BY <1>3 DEF WorkerState
<1>5. copy # NoCopy => copy \in Copy
  BY DEF CfgTypeOK, Copy
<1>6. tick \in 0..LastTick /\ saved \in Config
  BY DEF CfgTypeOK
<1> QED
  BY <1>1, <1>2, <1>3, <1>4, <1>5, <1>6, ConfigAssumption DEF Copy

\* What a thread may be doing, and what the copy may be, at the present moment.
SoundState(doing) ==
    /\ doing \in WorkerState
    /\ doing.since <= tick
    /\ doing.at = "read" => held[doing.cfg] >= doing.since
    /\ doing.at = "has" => held[doing.cfg] > doing.since - CfgTtl

SoundCopy(c) ==
    \/ c = NoCopy
    \/ c \in Copy /\ c.at <= tick /\ held[c.cfg] >= c.at

LEMMA CopyIsSound == CfgInv => SoundCopy(copy)
<1> SUFFICES ASSUME CfgInv PROVE SoundCopy(copy)
  OBVIOUS
<1>1. copy # NoCopy => copy \in Copy
  BY CfgTypes DEF CfgInv
<1>2. copy # NoCopy => copy.at <= tick /\ held[copy.cfg] >= copy.at
  BY DEF CfgInv, CopyIsOfItsTime
<1> QED
  BY <1>1, <1>2 DEF SoundCopy

\* A step of one thread that leaves the clock, the row and its history alone.
LEMMA OneWorker ==
  ASSUME CfgInv, UNCHANGED tick, UNCHANGED saved, UNCHANGED held, NEW w \in Worker,
         worker' \in [Worker -> WorkerState],
         \A v \in Worker \ {w} : worker'[v] = worker[v],
         SoundState(worker'[w]), SoundCopy(copy')
  PROVE  CfgInv'
<1> USE DEF SoundState, SoundCopy
<1>1. worker \in [Worker -> WorkerState] /\ CfgTypeOK
  BY CfgTypes DEF CfgInv
<1>2. \A v \in Worker : v = w \/ worker'[v] = worker[v]
  OBVIOUS
<1>3. worker' \in [Worker -> WorkerState]
  OBVIOUS
<1>4. copy' \in Copy \cup {NoCopy}
  BY <1>1 DEF CfgTypeOK, Copy
<1>5. CfgTypeOK'
  BY <1>1, <1>3, <1>4 DEF CfgTypeOK, WorkerState, Step, Copy
<1>6. HeldByNow' /\ SavedIsHeld'
  BY DEF CfgInv, HeldByNow, SavedIsHeld
<1>7. SinceIsPast' /\ ReadIsFresh' /\ ConfigIsRecent'
  BY <1>2 DEF CfgInv, SinceIsPast, ReadIsFresh, ConfigIsRecent
<1>8. CopyIsOfItsTime'
  BY DEF CfgInv, CopyIsOfItsTime
<1> QED
  BY <1>5, <1>6, <1>7, <1>8 DEF CfgInv

LEMMA CfgAsk == ASSUME CfgInv, NEW w \in Worker, AskConfig(w) PROVE CfgInv'
<1>1. PICK update \in Update \cup {NoUpdate} :
         worker' = [worker EXCEPT ![w] =
             IF IsFresh(tick)
             THEN [at |-> "has", since |-> tick, cfg |-> copy.cfg, update |-> update]
             ELSE [at |-> "miss", since |-> tick, cfg |-> saved, update |-> update]]
  BY DEF AskConfig
<1>2. UNCHANGED tick /\ UNCHANGED saved /\ UNCHANGED held /\ SoundCopy(copy')
  BY CopyIsSound DEF AskConfig
<1>3. tick \in 0..LastTick /\ saved \in Config
  BY DEF CfgInv, CfgTypeOK
<1>4. CASE IsFresh(tick)
  <2> DEFINE doing == [at |-> "has", since |-> tick, cfg |-> copy.cfg, update |-> update]
  <2>1. copy.cfg \in Config /\ copy.at \in Int /\ held[copy.cfg] >= copy.at
        /\ tick - copy.at < CfgTtl
    BY <1>4, CfgTypes DEF CfgInv, CopyIsOfItsTime, IsFresh
  <2>2. doing \in WorkerState
    BY <1>3, <2>1 DEF WorkerState, Step
  <2>3. held[copy.cfg] > tick - CfgTtl
    BY <2>1, CfgTypes DEF CfgInv
  <2>4. /\ doing.since <= tick
        /\ doing.at = "read" => held[doing.cfg] >= doing.since
        /\ doing.at = "has" => held[doing.cfg] > doing.since - CfgTtl
    BY <1>3, <2>3
  <2>5. worker' = [worker EXCEPT ![w] = doing]
    BY <1>1, <1>4
  <2> HIDE DEF doing
  <2>6. SoundState(doing)
    BY <2>2, <2>4 DEF SoundState
  <2>7. /\ worker' \in [Worker -> WorkerState] /\ worker'[w] = doing
        /\ \A v \in Worker \ {w} : worker'[v] = worker[v]
    BY <2>2, <2>5, CfgTypes DEF CfgInv
  <2> QED
    BY <1>2, <2>6, <2>7, OneWorker
<1>5. CASE ~IsFresh(tick)
  <2> DEFINE doing == [at |-> "miss", since |-> tick, cfg |-> saved, update |-> update]
  <2>1. doing \in WorkerState
    BY <1>3 DEF WorkerState, Step
  <2>2. doing.at = "miss" /\ doing.since <= tick
    BY <1>3
  <2>3. worker' = [worker EXCEPT ![w] = doing]
    BY <1>1, <1>5
  <2> HIDE DEF doing
  <2>4. SoundState(doing)
    BY <2>1, <2>2 DEF SoundState
  <2>5. /\ worker' \in [Worker -> WorkerState] /\ worker'[w] = doing
        /\ \A v \in Worker \ {w} : worker'[v] = worker[v]
    BY <2>1, <2>3, CfgTypes DEF CfgInv
  <2> QED
    BY <1>2, <2>4, <2>5, OneWorker
<1> QED
  BY <1>4, <1>5

\* One thread changes its step only.
LEMMA StepOf ==
  ASSUME CfgInv, NEW w \in Worker, NEW at \in Step, worker' = [worker EXCEPT ![w].at = at]
  PROVE  /\ worker' \in [Worker -> WorkerState]
         /\ \A v \in Worker \ {w} : worker'[v] = worker[v]
         /\ worker'[w] \in WorkerState /\ worker'[w].at = at
         /\ worker'[w].since = worker[w].since /\ worker'[w].cfg = worker[w].cfg
<1>1. worker \in [Worker -> WorkerState] /\ worker[w] \in WorkerState
  BY CfgTypes DEF CfgInv
<1>2. worker'[w] = [worker[w] EXCEPT !.at = at]
  BY <1>1
<1>3. /\ worker'[w] \in WorkerState /\ worker'[w].at = at
      /\ worker'[w].since = worker[w].since /\ worker'[w].cfg = worker[w].cfg
  BY <1>1, <1>2 DEF WorkerState
<1> QED
  BY <1>1, <1>3

LEMMA CfgRead == ASSUME CfgInv, NEW w \in Worker, ReadRow(w) PROVE CfgInv'
<1>1. worker \in [Worker -> WorkerState] /\ worker[w] \in WorkerState /\ saved \in Config
  BY CfgTypes DEF CfgInv
<1>2. worker' = [worker EXCEPT ![w] = [@ EXCEPT !.at = "read", !.cfg = saved]]
  BY <1>1 DEF ReadRow
<1>3. worker'[w] = [worker[w] EXCEPT !.at = "read", !.cfg = saved]
  BY <1>1, <1>2
<1>4. worker'[w] \in WorkerState
  BY <1>1, <1>3 DEF WorkerState, Step
<1>5. worker'[w].at = "read" /\ worker'[w].since = worker[w].since /\ worker'[w].cfg = saved
  BY <1>1, <1>3 DEF WorkerState
<1>6. worker' \in [Worker -> WorkerState] /\ \A v \in Worker \ {w} : worker'[v] = worker[v]
  BY <1>1, <1>2, <1>3, <1>4
<1>7. worker[w].since <= tick /\ held[saved] >= worker[w].since
  BY CfgTypes DEF CfgInv, SinceIsPast, SavedIsHeld
<1>8. SoundState(worker'[w])
  BY <1>4, <1>5, <1>7 DEF SoundState
<1>9. UNCHANGED tick /\ UNCHANGED saved /\ UNCHANGED held /\ SoundCopy(copy')
  BY CopyIsSound DEF ReadRow
<1> QED
  BY <1>6, <1>8, <1>9, OneWorker

LEMMA CfgOther ==
  ASSUME CfgInv, NEW w \in Worker, FillCopy(w) \/ Return(w) \/ ClearCopy(w)
  PROVE  CfgInv'
<1>1. worker \in [Worker -> WorkerState] /\ worker[w] \in WorkerState /\ worker[w].since <= tick
  BY CfgTypes DEF CfgInv, SinceIsPast
<1>2. UNCHANGED tick /\ UNCHANGED saved /\ UNCHANGED held
  BY DEF FillCopy, Return, ClearCopy
<1>3. CASE FillCopy(w)
  <2>1. worker[w].at = "read" /\ worker' = [worker EXCEPT ![w].at = "has"]
    BY <1>3 DEF FillCopy
  <2>2. /\ worker' \in [Worker -> WorkerState] /\ \A v \in Worker \ {w} : worker'[v] = worker[v]
        /\ worker'[w] \in WorkerState /\ worker'[w].at = "has"
        /\ worker'[w].since = worker[w].since /\ worker'[w].cfg = worker[w].cfg
    BY <2>1, StepOf DEF Step
  <2>3. held[worker[w].cfg] >= worker[w].since
    BY <2>1 DEF CfgInv, ReadIsFresh
  <2>4. worker[w].since - CfgTtl < worker[w].since
    BY CfgTypes DEF CfgInv
  <2>5. held[worker[w].cfg] > worker[w].since - CfgTtl
    BY <2>3, <2>4, CfgTypes DEF CfgInv
  <2>6. SoundState(worker'[w])
    BY <1>1, <2>2, <2>5 DEF SoundState
  <2>7. copy' = [at |-> worker[w].since, cfg |-> worker[w].cfg]
    BY <1>3 DEF FillCopy
  <2>8. SoundCopy(copy')
    BY <1>1, <2>3, <2>7 DEF SoundCopy, Copy, WorkerState
  <2> QED
    BY <1>2, <2>2, <2>6, <2>8, OneWorker
<1>4. ASSUME worker' = [worker EXCEPT ![w] = Idle], SoundCopy(copy') PROVE CfgInv'
  <2>1. Idle \in WorkerState
    BY ConfigAssumption DEF Idle, WorkerState, Step, Config
  <2>2. Idle.at = "idle" /\ Idle.since = 0
    BY DEF Idle
  <2>3. 0 <= tick
    BY DEF CfgInv, CfgTypeOK
  <2>4. SoundState(Idle)
    BY <2>1, <2>2, <2>3 DEF SoundState
  <2>5. /\ worker' \in [Worker -> WorkerState] /\ worker'[w] = Idle
        /\ \A v \in Worker \ {w} : worker'[v] = worker[v]
    BY <1>1, <1>4, <2>1
  <2> QED
    BY <1>2, <1>4, <2>4, <2>5, OneWorker
<1>5. CASE Return(w)
  BY <1>4, <1>5, CopyIsSound DEF Return
<1>6. CASE ClearCopy(w)
  BY <1>4, <1>6 DEF ClearCopy, SoundCopy
<1> QED
  BY <1>3, <1>5, <1>6

\* The clock and the row: every configuration is held at least as late as before.
LEMMA HeldLater ==
  ASSUME CfgInv, UNCHANGED copy, CfgTypeOK', HeldByNow', SavedIsHeld',
         tick <= tick', \A c \in Config : held[c] <= held'[c],
         \A w \in Worker : /\ worker'[w].since = worker[w].since
                           /\ worker'[w].cfg = worker[w].cfg
                           /\ worker'[w].at \in {"read", "has"} => worker'[w].at = worker[w].at
  PROVE  CfgInv'
<1>1. tick' \in Int /\ \A c \in Config : held'[c] \in Int
  BY CfgTypeOK', ConfigAssumption DEF CfgTypeOK, Never
<1>2. SinceIsPast'
  BY <1>1, CfgTypes DEF CfgInv, SinceIsPast
<1>3. ReadIsFresh'
  <2> SUFFICES ASSUME NEW w \in Worker, worker'[w].at = "read"
               PROVE  held'[worker'[w].cfg] >= worker'[w].since
    BY DEF ReadIsFresh
  <2>1. held[worker[w].cfg] >= worker[w].since
    BY DEF CfgInv, ReadIsFresh
  <2> QED
    BY <1>1, <2>1, CfgTypes DEF CfgInv
<1>4. ConfigIsRecent'
  <2> SUFFICES ASSUME NEW w \in Worker, worker'[w].at = "has"
               PROVE  held'[worker'[w].cfg] > worker'[w].since - CfgTtl
    BY DEF ConfigIsRecent
  <2>1. held[worker[w].cfg] > worker[w].since - CfgTtl
    BY DEF CfgInv, ConfigIsRecent
  <2> QED
    BY <1>1, <2>1, CfgTypes DEF CfgInv
<1>5. CopyIsOfItsTime'
  <2> SUFFICES ASSUME copy # NoCopy PROVE copy.at <= tick' /\ held'[copy.cfg] >= copy.at
    BY DEF CopyIsOfItsTime
  <2>1. copy.at <= tick /\ held[copy.cfg] >= copy.at
    BY DEF CfgInv, CopyIsOfItsTime
  <2> QED
    BY <1>1, <2>1, CfgTypes DEF CfgInv
<1> QED
  BY <1>2, <1>3, <1>4, <1>5 DEF CfgInv

LEMMA CfgSave == ASSUME CfgInv, NEW w \in Worker, SaveRow(w) PROVE CfgInv'
<1>1. /\ worker[w].at = "has" /\ worker[w].update \in Update /\ saved' = Merged(w)
      /\ held' = [held EXCEPT ![Merged(w)] = tick] /\ worker' = [worker EXCEPT ![w].at = "clear"]
      /\ UNCHANGED <<tick, copy>>
  BY DEF SaveRow, CfgInv, CfgTypeOK
<1>2. Merged(w) \in Config
  BY <1>1, CfgTypes DEF Merged, Config, Update, CfgInv
<1>3. /\ worker' \in [Worker -> WorkerState]
      /\ \A v \in Worker \ {w} : worker'[v] = worker[v]
      /\ worker'[w].at = "clear" /\ worker'[w].since = worker[w].since
      /\ worker'[w].cfg = worker[w].cfg
  BY <1>1, StepOf DEF Step
<1>4. /\ held \in [Config -> {Never} \cup 0..LastTick] /\ tick \in 0..LastTick
      /\ \A c \in Config : held[c] <= tick /\ held[c] \in Int /\ tick \in Int
  BY CfgTypes DEF CfgInv, CfgTypeOK, HeldByNow
<1>5. /\ held' \in [Config -> {Never} \cup 0..LastTick]
      /\ \A c \in Config : held'[c] = IF c = Merged(w) THEN tick ELSE held[c]
  BY <1>1, <1>4
<1>6. \A c \in Config : held[c] <= held'[c] /\ held'[c] <= tick
  BY <1>4, <1>5
<1>7. CfgTypeOK'
  BY <1>1, <1>2, <1>3, <1>5 DEF CfgInv, CfgTypeOK, WorkerState, Step
<1>8. HeldByNow' /\ SavedIsHeld'
  BY <1>1, <1>2, <1>5, <1>6 DEF HeldByNow, SavedIsHeld
<1>9. \A v \in Worker : /\ worker'[v].since = worker[v].since
                        /\ worker'[v].cfg = worker[v].cfg
                        /\ worker'[v].at \in {"read", "has"} => worker'[v].at = worker[v].at
  BY <1>3
<1> QED
  BY <1>1, <1>4, <1>6, <1>7, <1>8, <1>9, HeldLater

LEMMA CfgTick == ASSUME CfgInv, Tick PROVE CfgInv'
<1>1. /\ tick < LastTick /\ tick' = tick + 1 /\ held' = [held EXCEPT ![saved] = tick + 1]
      /\ UNCHANGED <<saved, copy, worker>>
  BY DEF Tick
<1>2. /\ held \in [Config -> {Never} \cup 0..LastTick] /\ tick \in 0..LastTick
      /\ tick + 1 \in 0..LastTick /\ saved \in Config
      /\ \A c \in Config : held[c] <= tick /\ held[c] \in Int
  BY <1>1, CfgTypes, ConfigAssumption DEF CfgInv, CfgTypeOK, HeldByNow
<1>3. /\ held' \in [Config -> {Never} \cup 0..LastTick]
      /\ \A c \in Config : held'[c] = IF c = saved THEN tick + 1 ELSE held[c]
  BY <1>1, <1>2
<1>4. \A c \in Config : held[c] <= held'[c] /\ held'[c] <= tick + 1
  BY <1>2, <1>3
<1>5. CfgTypeOK' /\ HeldByNow' /\ SavedIsHeld' /\ tick <= tick'
  BY <1>1, <1>2, <1>3, <1>4 DEF CfgInv, CfgTypeOK, HeldByNow, SavedIsHeld
<1> QED
  BY <1>1, <1>4, <1>5, HeldLater

LEMMA CfgAlways == CfgSpec => []CfgInv
<1>1. CfgInv /\ [CfgNext]_cfgVars => CfgInv'
  <2> SUFFICES ASSUME CfgInv, [CfgNext]_cfgVars PROVE CfgInv'
    OBVIOUS
  <2>1. CASE UNCHANGED cfgVars
    BY <2>1 DEF cfgVars, CfgInv, CfgTypeOK, HeldByNow, SavedIsHeld, SinceIsPast, ReadIsFresh,
                CopyIsOfItsTime, ConfigIsRecent
  <2> QED
    BY <2>1, CfgTick, CfgAsk, CfgRead, CfgSave, CfgOther DEF CfgNext
<1> QED
  BY <1>1, CfgInitInv, PTL DEF CfgSpec

\* football/store.config, comeback/store.config: whatever threads fill and clear the
\* copy, a configuration in use was the saved one less than _CFG_TTL before it was
\* asked for.
THEOREM ConfigIsRecentCorrect == CfgSpec => []ConfigIsRecent
<1>1. CfgInv => ConfigIsRecent
  BY DEF CfgInv
<1> QED
  BY <1>1, CfgAlways, PTL

-----------------------------------------------------------------------------
(***************************************************************************)
(* LolScores.                                                              *)
(***************************************************************************)

\* The points of a card: one for each metric a side wins.
One(won) == IF won THEN 1 ELSE 0

LEMMA PointsAre ==
  ASSUME NEW side, NEW h, NEW a
  PROVE  Points(side, h, a) = One(AgtPoint(h, a) = side) + One(MetricPoint(h, a) = side)
<1> DEFINE won == {p \in {"agt", "gold"} :
                      side = (IF p = "agt" THEN AgtPoint(h, a) ELSE MetricPoint(h, a))}
           fast == AgtPoint(h, a) = side
           rich == MetricPoint(h, a) = side
<1>1. /\ "agt" \in won <=> fast
      /\ "gold" \in won <=> rich
      /\ won \subseteq {"agt", "gold"}
      /\ "agt" # "gold"
  OBVIOUS
<1>2. Points(side, h, a) = Cardinality(won)
  BY DEF Points
<1> HIDE DEF won
<1>3. CASE fast /\ rich
  <2>1. won = {"agt"} \cup {"gold"}
    BY <1>1, <1>3
  <2>2. IsFiniteSet({"agt"}) /\ Cardinality({"agt"}) = 1
    BY FS_Singleton
  <2>3. Cardinality({"agt"} \cup {"gold"}) = 2
    BY <1>1, <2>2, FS_AddElement
  <2> QED
    BY <1>2, <1>3, <2>1, <2>3 DEF One
<1>4. CASE fast /\ ~rich
  <2>1. won = {"agt"}
    BY <1>1, <1>4
  <2>2. Cardinality({"agt"}) = 1
    BY FS_Singleton
  <2>3. One(fast) = 1 /\ One(rich) = 0
    BY <1>4 DEF One
  <2> QED
    BY <1>2, <2>1, <2>2, <2>3
<1>5. CASE ~fast /\ rich
  <2>1. won = {"gold"}
    BY <1>1, <1>5
  <2>2. Cardinality({"gold"}) = 1
    BY FS_Singleton
  <2>3. One(fast) = 0 /\ One(rich) = 1
    BY <1>5 DEF One
  <2> QED
    BY <1>2, <2>1, <2>2, <2>3
<1>6. CASE ~fast /\ ~rich
  <2>1. won = {}
    BY <1>1, <1>6
  <2> QED
    BY <1>2, <1>6, <2>1, FS_EmptySet DEF One
<1> QED
  BY <1>3, <1>4, <1>5, <1>6

\* Listing the teams the other way round turns each point, the flipped one too.
LEMMA AgtPointTurns ==
  ASSUME NEW h \in Team, NEW a \in Team
  PROVE  /\ AgtPoint(h, a) \in Side
         /\ AgtPoint(a, h) = Turned(AgtPoint(h, a))
<1>1. h.agt = Missing \/ h.agt \in Int
  BY TeamAssumption
<1>2. a.agt = Missing \/ a.agt \in Int
  BY TeamAssumption
<1>3. CASE h.agt = Missing \/ a.agt = Missing \/ h.agt = a.agt
  BY <1>3 DEF AgtPoint, Turned, Side
<1>4. CASE ~(h.agt = Missing \/ a.agt = Missing \/ h.agt = a.agt)
  <2>1. (h.agt < a.agt /\ ~(a.agt < h.agt)) \/ (a.agt < h.agt /\ ~(h.agt < a.agt))
    BY <1>1, <1>2, <1>4
  <2> QED
    BY <1>4, <2>1 DEF AgtPoint, Turned, Side
<1> QED
  BY <1>3, <1>4

LEMMA MetricPointTurns ==
  ASSUME NEW h \in Team, NEW a \in Team
  PROVE  /\ MetricPoint(h, a) \in Side
         /\ MetricPoint(a, h) = Turned(MetricPoint(h, a))
<1>1. h.gold = Missing \/ h.gold \in Int
  BY TeamAssumption
<1>2. a.gold = Missing \/ a.gold \in Int
  BY TeamAssumption
<1>3. CASE h.gold = Missing \/ a.gold = Missing \/ h.gold = a.gold
  BY <1>3 DEF MetricPoint, Turned, Side
<1>4. CASE ~(h.gold = Missing \/ a.gold = Missing \/ h.gold = a.gold)
  <2>1. (h.gold > a.gold /\ ~(a.gold > h.gold)) \/ (a.gold > h.gold /\ ~(h.gold > a.gold))
    BY <1>1, <1>2, <1>4
  <2> QED
    BY <1>4, <2>1 DEF MetricPoint, Turned, Side
<1> QED
  BY <1>3, <1>4

CardType == [home : 0..2, away : 0..2, pick : Side]

LEMMA CardsTurn ==
  ASSUME NEW h \in Team, NEW a \in Team
  PROVE  LET c == Scorecard(h, a)
             d == Scorecard(a, h)
         IN /\ d = [home |-> c.away, away |-> c.home, pick |-> Turned(c.pick)]
            /\ c.home + c.away <= 2
            /\ c \in CardType
<1> DEFINE f == AgtPoint(h, a)  g == MetricPoint(h, a)
           x == One(f = "home") + One(g = "home")
           y == One(f = "away") + One(g = "away")
<1>1. f \in Side /\ g \in Side /\ AgtPoint(a, h) = Turned(f) /\ MetricPoint(a, h) = Turned(g)
  BY AgtPointTurns, MetricPointTurns
<1>2. Points("home", h, a) = x /\ Points("away", h, a) = y
  BY PointsAre
<1>3. /\ Points("home", a, h) = One(Turned(f) = "home") + One(Turned(g) = "home")
      /\ Points("away", a, h) = One(Turned(f) = "away") + One(Turned(g) = "away")
  BY <1>1, PointsAre
<1> HIDE DEF f, g
<1>4. Points("home", a, h) = y /\ Points("away", a, h) = x
  BY <1>1, <1>3 DEF Side, Turned, One
<1>5. x \in 0..2 /\ y \in 0..2 /\ x + y <= 2
  BY <1>1 DEF Side, One
<1> HIDE DEF x, y
<1> DEFINE p == IF x > y THEN "home" ELSE IF y > x THEN "away" ELSE "nobody"
           q == IF y > x THEN "home" ELSE IF x > y THEN "away" ELSE "nobody"
<1>6. Scorecard(h, a) = [home |-> x, away |-> y, pick |-> p]
  BY <1>2 DEF Scorecard
<1>7. Scorecard(a, h) = [home |-> y, away |-> x, pick |-> q]
  BY <1>4 DEF Scorecard
<1>8. p \in Side /\ q = Turned(p)
  BY <1>5 DEF Side, Turned
<1> HIDE DEF p, q
<1> QED
  BY <1>5, <1>6, <1>7, <1>8 DEF CardType

\* lol/score.py: whichever team the screener lists first, the match has one card.
THEOREM ScorecardIsFairCorrect == LolSpec => []ScorecardIsFair
<1>1. LolInit => stats \in [Series -> Pair]
  BY DEF LolInit
<1>2. stats \in [Series -> Pair] /\ [LolNext]_lolVars => (stats \in [Series -> Pair])'
  BY DEF LolNext, lolVars, SweepBegin, ListAnswered, ListFails, SaveTeamStats, StageMoves, GamePlayed
<1>3. stats \in [Series -> Pair] => ScorecardIsFair
  <2> SUFFICES ASSUME stats \in [Series -> Pair], NEW m \in Series
               PROVE  LET c == Scorecard(stats[m].home, stats[m].away)
                          d == Scorecard(stats[m].away, stats[m].home)
                      IN /\ d = [home |-> c.away, away |-> c.home, pick |-> Turned(c.pick)]
                         /\ c.home + c.away <= 2
    BY DEF ScorecardIsFair
  <2>1. stats[m].home \in Team /\ stats[m].away \in Team
    BY DEF Pair
  <2> QED
    BY <2>1, CardsTurn
<1> QED
  BY <1>1, <1>2, <1>3, PTL DEF LolSpec

\* Whatever sweeps overlap, a card is made of two teams, and has its type.
CardsOK == \A m \in Series : cards[m] # NoCard => cards[m] \in [card : CardType, frozen : BOOLEAN]

LEMMA RebuiltCards ==
  ASSUME LolTypeOK, NEW table \in [Series -> Pair \cup {NoCard}], NEW m \in Series,
         RebuildScores(table)[m] # NoCard
  PROVE  RebuildScores(table)[m] \in [card : CardType, frozen : BOOLEAN]
<1>1. CASE m \in FrozenSlugs \/ table[m] = NoCard \/ stage[m] = "gone"
  <2>1. RebuildScores(table)[m] = cards[m]
    BY <1>1 DEF RebuildScores
  <2> QED
    BY <2>1 DEF LolTypeOK, CardType
<1>2. CASE ~(m \in FrozenSlugs \/ table[m] = NoCard \/ stage[m] = "gone")
  <2>1. RebuildScores(table)[m] = [card |-> Scorecard(table[m].home, table[m].away),
                                   frozen |-> stage[m] = "started"]
    BY <1>2 DEF RebuildScores
  <2>2. Scorecard(table[m].home, table[m].away) \in CardType
    BY <1>2, CardsTurn DEF Pair
  <2> QED
    BY <2>1, <2>2
<1> QED
  BY <1>1, <1>2

LEMMA GoesOnTypes ==
  ASSUME LolTypeOK, NEW s \in Sweeper, NEW left \in SUBSET Series,
         NEW table \in [Series -> Pair \cup {NoCard}], GoesOn(s, left, table),
         UNCHANGED <<stats, played, stage>>
  PROVE  LolTypeOK'
<1>1. stored' \in [Series -> Pair \cup {NoCard}]
  BY DEF GoesOn
<1>2. sweep' \in [Sweeper -> Waiting]
  <2>1. NoSweep \in Waiting /\ [at |-> "stats", left |-> left] \in Waiting
    BY DEF NoSweep, Waiting
  <2> QED
    BY <2>1 DEF GoesOn, LolTypeOK
<1>3. CardsOK'
  <2> SUFFICES ASSUME NEW m \in Series, cards'[m] # NoCard
               PROVE  cards'[m] \in [card : CardType, frozen : BOOLEAN]
    BY DEF CardsOK
  <2>1. CASE left = {}
    BY <2>1, RebuiltCards DEF GoesOn
  <2>2. CASE left # {}
    BY <2>2 DEF GoesOn, LolTypeOK, CardType
  <2> QED
    BY <2>1, <2>2
<1> QED
  BY <1>1, <1>2, <1>3 DEF LolTypeOK, CardsOK, CardType

LEMMA LolTypes == LolSpec => []LolTypeOK
<1>1. LolInit => LolTypeOK
  BY GamesAssumption DEF LolInit, LolTypeOK, NoSweep, Waiting
<1>2. LolTypeOK /\ [LolNext]_lolVars => LolTypeOK'
  <2> SUFFICES ASSUME LolTypeOK, [LolNext]_lolVars PROVE LolTypeOK'
    OBVIOUS
  <2>1. ASSUME NEW s \in Sweeper, SweepBegin(s) \/ ListFails(s) PROVE LolTypeOK'
    <3>1. NoSweep \in Waiting /\ [at |-> "list", left |-> {}] \in Waiting
      BY DEF NoSweep, Waiting
    <3>2. sweep' \in [Sweeper -> Waiting] /\ UNCHANGED <<stats, stored, played, stage, cards>>
      BY <2>1, <3>1 DEF SweepBegin, ListFails, LolTypeOK
    <3> QED
      BY <3>2 DEF LolTypeOK
  <2>2. ASSUME NEW s \in Sweeper, ListAnswered(s) PROVE LolTypeOK'
    <3>1. PICK dir \in SUBSET Series : GoesOn(s, dir, stored)
      BY <2>2 DEF ListAnswered
    <3>2. stored \in [Series -> Pair \cup {NoCard}] /\ UNCHANGED <<stats, played, stage>>
      BY <2>2 DEF ListAnswered, LolTypeOK
    <3> QED
      BY <3>1, <3>2, GoesOnTypes
  <2>3. ASSUME NEW s \in Sweeper, SaveTeamStats(s) PROVE LolTypeOK'
    <3>1. PICK m \in sweep[s].left : \E table \in {stored, [stored EXCEPT ![m] = stats[m]]} :
                                        GoesOn(s, sweep[s].left \ {m}, table)
      BY <2>3 DEF SaveTeamStats
    <3>2. PICK table \in {stored, [stored EXCEPT ![m] = stats[m]]} :
                  GoesOn(s, sweep[s].left \ {m}, table)
      BY <3>1
    <3>3. sweep[s].left \ {m} \in SUBSET Series /\ m \in Series
      BY DEF LolTypeOK, Waiting
    <3>4. table \in [Series -> Pair \cup {NoCard}]
      BY <3>3 DEF LolTypeOK
    <3>5. UNCHANGED <<stats, played, stage>>
      BY <2>3 DEF SaveTeamStats
    <3> QED
      BY <3>2, <3>3, <3>4, <3>5, GoesOnTypes
  <2>4. ASSUME NEW m \in Series, StageMoves(m) PROVE LolTypeOK'
    BY <2>4 DEF StageMoves, NextStage, LolTypeOK
  <2>5. ASSUME NEW m \in Series, GamePlayed(m) PROVE LolTypeOK'
    BY <2>5, GamesAssumption DEF GamePlayed, LolTypeOK
  <2>6. CASE UNCHANGED lolVars
    BY <2>6 DEF lolVars, LolTypeOK
  <2> QED
    BY <2>1, <2>2, <2>3, <2>4, <2>5, <2>6 DEF LolNext
<1> QED
  BY <1>1, <1>2, PTL DEF LolSpec

-----------------------------------------------------------------------------
(***************************************************************************)
(* The pipelines side by side, as MCAlerts runs them.  A behaviour of the  *)
(* whole is one of each part that has its variables to itself.             *)
(***************************************************************************)
LEMMA PartsStep ==
  [AlertsNext]_alertsVars
    => /\ [FootNext]_footVars /\ [CfgNext]_cfgVars /\ [LockNext]_lockVars
       /\ [LolNext]_lolVars /\ [ScoreGame]_favVars /\ [HistNext]_histVars
  BY Zenon DEF AlertsNext, alertsVars

LEMMA PartsRun ==
  AlertsSpec => FootSpec /\ CfgSpec /\ LockSpec /\ LolSpec /\ FavSpec /\ HistSpec
<1>1. AlertsInit => FootInit /\ CfgInit /\ LockInit /\ LolInit /\ FavInit /\ HistInit
  BY DEF AlertsInit
<1> QED
  BY <1>1, PartsStep, PTL
     DEF AlertsSpec, FootSpec, CfgSpec, LockSpec, LolSpec, FavSpec, HistSpec

\* The detector and the tracker read one feed: while one of them runs, the other has
\* nothing in its hands and nothing in its table.
DetectorRests ==
    batch = <<>> /\ asking = Nothing /\ alerts = <<>> /\ seen \in [Game -> Pitcher \cup {Unknown}]

TrackerRests ==
    live = <<>> /\ pace = "idle" /\ visits = {} /\ rows = <<>> /\ middle \in [Game -> Score]

FeedInv ==
    /\ MlbInv
    /\ IF part = "comeback" THEN ComeInv ELSE DetectorRests
    /\ IF part = "bottom8" THEN EightInv ELSE TrackerRests

LEMMA FeedInitInv == AlertsInit => FeedInv
<1> SUFFICES ASSUME AlertsInit PROVE FeedInv
  OBVIOUS
<1>1. ComeInv /\ EightInv
  BY ComeInitInv, EightInitInv DEF AlertsInit
<1>2. DetectorRests /\ TrackerRests
  BY <1>1 DEF AlertsInit, ComeInit, EightInit, DetectorRests, TrackerRests, ComeInv, ComeTypeOK,
              EightInv, EightTypeOK
<1> QED
  BY <1>1, <1>2 DEF FeedInv, ComeInv

LEMMA FeedSteps ==
  ASSUME [AlertsNext]_alertsVars
  PROVE  /\ part' = part
         /\ IF part = "comeback" THEN [ComeNext]_comeVars ELSE UNCHANGED comeOwn
         /\ IF part = "bottom8" THEN [EightNext]_eightVars ELSE UNCHANGED eightOwn
         /\ part \notin {"comeback", "bottom8"} => UNCHANGED mlbVars
<1>1. CASE UNCHANGED alertsVars
  BY <1>1 DEF alertsVars, comeVars, eightVars, comeOwn, eightOwn, mlbVars
<1>2. CASE AlertsNext
  <2>1. part' = part
    BY <1>2 DEF AlertsNext
  <2>2. CASE part = "comeback"
    BY <1>2, <2>1, <2>2 DEF AlertsNext
  <2>3. CASE part = "bottom8"
    BY <1>2, <2>1, <2>3 DEF AlertsNext
  <2>4. CASE part \notin {"comeback", "bottom8"}
    BY <1>2, <2>1, <2>4 DEF AlertsNext
  <2> QED
    BY <2>2, <2>3, <2>4
<1> QED
  BY <1>1, <1>2

LEMMA FeedInvHolds == FeedInv /\ [AlertsNext]_alertsVars => FeedInv'
<1> SUFFICES ASSUME FeedInv, [AlertsNext]_alertsVars PROVE FeedInv'
  OBVIOUS
<1> USE FeedSteps
<1>1. CASE part = "comeback"
  <2>1. ComeInv'
    BY <1>1, ComeInvHolds DEF FeedInv
  <2>2. TrackerRests'
    BY <1>1 DEF FeedInv, TrackerRests, eightOwn
  <2> QED
    BY <1>1, <2>1, <2>2 DEF FeedInv, ComeInv
<1>2. CASE part = "bottom8"
  <2>1. EightInv'
    BY <1>2, EightInvHolds DEF FeedInv
  <2>2. DetectorRests'
    BY <1>2 DEF FeedInv, DetectorRests, comeOwn
  <2> QED
    BY <1>2, <2>1, <2>2 DEF FeedInv, EightInv
<1>3. CASE part \notin {"comeback", "bottom8"}
  <2>1. MlbInv'
    BY <1>3 DEF FeedInv, MlbInv, MlbTypeOK, OverIsOver, mlbVars
  <2>2. DetectorRests' /\ TrackerRests'
    BY <1>3 DEF FeedInv, DetectorRests, TrackerRests, comeOwn, eightOwn
  <2> QED
    BY <1>3, <2>1, <2>2 DEF FeedInv
<1> QED
  BY <1>1, <1>2, <1>3

LEMMA FeedAlways == AlertsSpec => []FeedInv
  BY FeedInitInv, FeedInvHolds, PTL DEF AlertsSpec

LEMMA FeedInvImplies ==
  FeedInv => ComeTypeOK /\ EightTypeOK /\ FinalsAreFinal /\ RowsAreOfTheGame
<1> SUFFICES ASSUME FeedInv
             PROVE  ComeTypeOK /\ EightTypeOK /\ FinalsAreFinal /\ RowsAreOfTheGame
  OBVIOUS
<1>1. ComeTypeOK /\ FinalsAreFinal
  <2>1. CASE part = "comeback"
    BY <2>1 DEF FeedInv, ComeInv
  <2>2. CASE part # "comeback"
    BY <2>2 DEF FeedInv, DetectorRests, ComeTypeOK, FinalsAreFinal, MlbInv
  <2> QED
    BY <2>1, <2>2
<1>2. EightTypeOK /\ RowsAreOfTheGame
  <2>1. CASE part = "bottom8"
    BY <2>1, EightInvImplies DEF FeedInv, EightInv
  <2>2. CASE part # "bottom8"
    BY <2>2 DEF FeedInv, TrackerRests, EightTypeOK, RowsAreOfTheGame, MlbInv
  <2> QED
    BY <2>1, <2>2
<1> QED
  BY <1>1, <1>2

\* Every part of the alerts has its types, for any values of its constants.
THEOREM AlertsTypesCorrect == AlertsSpec => []AlertsTypeOK
<1>1. FootInv => FootTypeOK
  BY FootTypesFollow
<1>2. CfgInv => CfgTypeOK
  BY DEF CfgInv
<1>3. AlertsSpec => []FootInv /\ []CfgInv /\ []LockTypeOK /\ []LolTypeOK /\ []FavInv /\ []HistInv
  BY PartsRun, FootAlways, CfgAlways, LockTypes, LolTypes, FavAlways, HistAlways, PTL
<1> QED
  BY <1>1, <1>2, <1>3, FavTypes, HistTypesFollow, FeedAlways, FeedInvImplies, PTL
     DEF AlertsTypeOK

\* football/live.py and comeback/outcomes.py: whatever answers are late, whatever is
\* cut off and however long an outcome is owed, the one kept is the score the match or
\* the game ended with.
THEOREM OutcomesAreFinalCorrect == AlertsSpec => []OutcomesAreFinal
  BY PartsRun, OutcomeIsFinalCorrect, FeedAlways, FeedInvImplies, PTL DEF OutcomesAreFinal

\* bottom8/tracker.py: the scores of a row are of its game and in the order of the
\* innings, though the states they are read from overtake each other.
THEOREM RowsAreOfTheGameHolds == AlertsSpec => []RowsAreOfTheGame
  BY FeedAlways, FeedInvImplies, PTL

\* favorite/engine.py and favhistory.py: a verdict is of the prices of its clubs; a rebuilt
\* one of no price from after first pitch, and of earlier results only where its box score
\* is that of first pitch; and no later batch rebuilds it.
THEOREM VerdictsAreHonestCorrect == AlertsSpec => []VerdictsAreHonest
  BY PartsRun, PricedByNameCorrect, AsOfThenCorrect, RebuiltOnceCorrect, PTL
     DEF VerdictsAreHonest

\* favorite/engine.py, lol/score.py and favhistory.py: an edge between two sides is scored
\* for one of them, and a card does not depend on which is listed first; the factors written
\* a second time give what the live ones give, or less, and from the same inputs the rebuild
\* names no favourite that the live engine does not.
THEOREM ScoringIsFairCorrect == AlertsSpec => []ScoringIsFair
<1>1. []FactorsMirror
  BY FactorsMirrorHolds, PTL
<1> QED
  BY <1>1, PartsRun, EdgesAreOneSidedCorrect, ScorecardIsFairCorrect, RebuildAddsNoFavoriteCorrect,
     PTL DEF ScoringIsFair

\* football/store.py, comeback/store.py and bottom8/store.py: each table is an alert
\* log, and favorite/store.py's locks are never unlocked or locked anew.
THEOREM TablesAreLogsCorrect == AlertsSpec => TablesAreLogs
<1>1. AlertsSpec => TriggersAreALog
  <2>1. AlertsInit => ComeLog!LogInit
    BY DEF AlertsInit, ComeInit, ComeLog!LogInit
  <2>2. FeedInv /\ [AlertsNext]_alertsVars => [ComeLog!LogNext]_alerts
    BY FeedSteps, ComeStepIsALogStep DEF FeedInv, comeOwn
  <2> QED
    BY <2>1, <2>2, FeedAlways, PTL DEF AlertsSpec, TriggersAreALog, ComeLog!LogSpec
<1>2. AlertsSpec => RowsAreALog
  <2>1. AlertsInit => EightLog!LogInit
    BY EightInitIsALog DEF AlertsInit
  <2>2. FeedInv /\ [AlertsNext]_alertsVars => [EightLog!LogNext]_EightEntries
    <3> SUFFICES ASSUME FeedInv, [AlertsNext]_alertsVars
                 PROVE  [EightLog!LogNext]_EightEntries
      OBVIOUS
    <3>1. CASE part = "bottom8"
      BY <3>1, FeedSteps, EightStepIsALogStep DEF FeedInv
    <3>2. CASE part # "bottom8"
      <4>1. UNCHANGED rows
        BY <3>2, FeedSteps DEF eightOwn
      <4> QED
        BY <4>1 DEF EightEntries, EntryOf
    <3> QED
      BY <3>1, <3>2
  <2> QED
    BY <2>1, <2>2, FeedAlways, PTL DEF AlertsSpec, RowsAreALog, EightLog!LogSpec
<1> QED
  BY <1>1, <1>2, PartsRun, AlertsAreALogCorrect, LockIsFinalCorrect, PTL DEF TablesAreLogs
=============================================================================
