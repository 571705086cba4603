--------------------------- MODULE FootballAlerts ---------------------------
(***************************************************************************)
(* The soccer live job (football/live.py) with the 0-0 rule of detector.py,*)
(* the pre-match prices, the API client and the table of triggers.         *)
(*                                                                         *)
(* A pass asks for the fixtures in play, goes through the screener rows    *)
(* whose kickoff window is open, awaiting statistics and prices between    *)
(* them, and ends with one request per trigger that is owed a final score. *)
(* Matches go on while a pass awaits; every request may come back empty.   *)
(* A fixture stands for the screener row it matches; the minute is known   *)
(* as before or after the check minute; whether prices, statistics and the *)
(* configuration allow the alert is a choice, and so is its ageing out.    *)
(***************************************************************************)
EXTENDS Naturals, FiniteSets

CONSTANTS Fixture, MaxGoals    \* bound: goals of a match

ASSUME GoalsAssumption == MaxGoals \in Nat

VARIABLES match,      \* the matches themselves: status, goals, kickoff window
          fixtures,   \* _fixtures: the last state of each fixture in the cache
          liveIds,    \* the feed of the running pass
          job,        \* step of the pass
          todo,       \* rows, then triggers, the step still has to visit
          triggers    \* football_triggers

footVars == <<match, fixtures, liveIds, job, todo, triggers>>

Playing == {"early", "late"}      \* 1H HT 2H ET P, before or after min_minute
Over == "FT"                      \* FT AET PEN
Unseen == "FT?"                   \* the job's own mark

Owed == [kind |-> "none"]
Result(m) == [home |-> m.home, away |-> m.away]
Goals == 0..MaxGoals
Results == [home : Goals, away : Goals]
View(m) == [status |-> m.status, home |-> m.home, away |-> m.away]

FootInit ==
    /\ match = [f \in Fixture |-> [status |-> "NS", home |-> 0, away |-> 0, open |-> FALSE]]
    /\ fixtures = <<>>
    /\ liveIds = {}
    /\ job = "idle"
    /\ todo = {}
    /\ triggers = <<>>

Matched == {f \in Fixture : match[f].open}

\* No row in the window: the cache is emptied and nothing else is done.
NoRows ==
    /\ job = "idle" /\ Matched = {}
    /\ fixtures' = <<>>
    /\ UNCHANGED <<match, liveIds, job, todo, triggers>>

PassBegin ==
    /\ job = "idle" /\ Matched # {}
    /\ job' = "feed"
    /\ todo' = Matched
    /\ UNCHANGED <<match, fixtures, liveIds, triggers>>

\* Mutant of Gone.
GoneKeepsStatus(seen) == seen

\* A fixture that left the feed keeps its score, not its claim to be in play.
Gone(seen) == IF seen.status = Over THEN seen ELSE [seen EXCEPT !.status = Unseen]

\* client.live_fixtures, empty on any problem.  What left the feed long ago is
\* dropped (5400 s: by choice).
Feed ==
    /\ job = "feed"
    /\ \E answer \in {{}, {f \in Fixture : match[f].status \in Playing}} :
       \E dropped \in SUBSET (DOMAIN fixtures \ answer) :
          /\ liveIds' = answer
          /\ fixtures' = [f \in (DOMAIN fixtures \cup answer) \ dropped |->
                             IF f \in answer THEN View(match[f]) ELSE Gone(fixtures[f])]
    /\ job' = "rows"
    /\ UNCHANGED <<match, todo, triggers>>

\* detector.check, on the cached state
Check(seen) == seen.status = "late" /\ seen.home = 0 /\ seen.away = 0

\* INSERT OR IGNORE, one trigger per fixture
InsertTrigger(f) ==
    triggers' = [g \in DOMAIN triggers \cup {f} |->
                    IF g \in DOMAIN triggers THEN triggers[g]
                                             ELSE [final |-> Owed, pending |-> TRUE]]

\* One row: its statistics and the prices at kickoff have been awaited.
VisitRow(f) ==
    /\ job = "rows" /\ f \in todo
    /\ todo' = todo \ {f}
    /\ \/ UNCHANGED triggers
       \/ f \in DOMAIN fixtures /\ Check(fixtures[f]) /\ InsertTrigger(f)
    /\ UNCHANGED <<match, fixtures, liveIds, job>>

PendingOutcomes == {f \in DOMAIN triggers : triggers[f].final = Owed /\ triggers[f].pending}

OutcomesBegin ==
    /\ job = "rows" /\ todo = {}
    /\ job' = "outcomes"
    /\ todo' = PendingOutcomes
    /\ UNCHANGED <<match, fixtures, liveIds, triggers>>

IsOver(answer) == answer.status = Over

SaveOutcome(f, final) == triggers' = [triggers EXCEPT ![f].final = final]

\* One trigger: still playing, or one fixture_final, which may fail.
VisitTrigger(f) ==
    /\ job = "outcomes" /\ f \in todo
    /\ todo' = todo \ {f}
    /\ \/ UNCHANGED triggers
       \/ /\ ~(f \in DOMAIN fixtures /\ fixtures[f].status \in Playing)
          /\ IsOver(match[f])
          /\ SaveOutcome(f, Result(match[f]))
    /\ UNCHANGED <<match, fixtures, liveIds, job>>

PassEnd ==
    /\ job = "outcomes" /\ todo = {}
    /\ job' = "idle"
    /\ liveIds' = {}
    /\ UNCHANGED <<match, fixtures, todo, triggers>>

\* The caches are in the process, the triggers in the database.
FootRestart ==
    /\ job # "idle" \/ fixtures # <<>>
    /\ fixtures' = <<>> /\ liveIds' = {} /\ todo' = {} /\ job' = "idle"
    /\ UNCHANGED <<match, triggers>>

-----------------------------------------------------------------------------
NextStatus == [NS |-> "early", early |-> "late", late |-> Over]

Play(f) ==
    /\ \/ ~match[f].open /\ match[f].status = "NS" /\ match' = [match EXCEPT ![f].open = TRUE]
       \/ match[f].open /\ match[f].status # Over
          /\ match' = [match EXCEPT ![f].status = NextStatus[@]]
       \/ match[f].open /\ match[f].status = Over
          /\ match' = [match EXCEPT ![f].open = FALSE]
       \/ /\ match[f].status \in Playing
          /\ match[f].home + match[f].away < MaxGoals
          /\ \/ match' = [match EXCEPT ![f].home = @ + 1]
             \/ match' = [match EXCEPT ![f].away = @ + 1]
    /\ UNCHANGED <<fixtures, liveIds, job, todo, triggers>>

\* Six hours pass.
AgeOut(f) ==
    /\ f \in DOMAIN triggers /\ triggers[f].pending
    /\ triggers' = [triggers EXCEPT ![f].pending = FALSE]
    /\ UNCHANGED <<match, fixtures, liveIds, job, todo>>

FootNext ==
    \/ NoRows \/ PassBegin \/ Feed \/ OutcomesBegin \/ PassEnd \/ FootRestart
    \/ \E f \in Fixture : VisitRow(f) \/ VisitTrigger(f) \/ Play(f) \/ AgeOut(f)

FootSpec == FootInit /\ [][FootNext]_footVars

-----------------------------------------------------------------------------
FootTypeOK ==
    /\ match \in [Fixture -> [status : {"NS", Over} \cup Playing, home : Goals, away : Goals,
                              open : BOOLEAN]]
    /\ \A f \in DOMAIN fixtures :
          fixtures[f] \in [status : Playing \cup {Over, Unseen}, home : Goals, away : Goals]
    /\ liveIds \subseteq Fixture /\ todo \subseteq Fixture
    /\ job \in {"idle", "feed", "rows", "outcomes"}
    /\ \A f \in DOMAIN triggers :
          triggers[f] \in [final : Results \cup {Owed}, pending : BOOLEAN]

\* live.run never asks the detector whether a fixture was in this pass's feed:
\* it relies on the status of those that left it.  An alert is raised only for a
\* match that this very pass was told is in play, never from the last 0-0 of a
\* match the provider has stopped answering for.
NoStaleAlert == [][ \A f \in DOMAIN triggers' \ DOMAIN triggers : f \in liveIds ]_footVars

\* football/live.py: the outcome kept for an alert is the score the match ended with.
OutcomeIsFinal == \A f \in DOMAIN triggers :
    triggers[f].final # Owed => match[f].status = Over /\ triggers[f].final = Result(match[f])

FootEntries == [f \in DOMAIN triggers |-> [moment |-> "0-0", final |-> triggers[f].final]]

\* football_triggers as an alert log: the moment of an alert is always a 0-0, and
\* its outcome is saved once, whatever passes are cut off between two answers.
FootLog == INSTANCE AlertLog
    WITH Key <- Fixture, Moment <- {"0-0"}, Final <- Results, entries <- FootEntries
AlertsAreALog == FootLog!LogSpec
=============================================================================
