------------------------------ MODULE LolScores ------------------------------
(***************************************************************************)
(* The scorecards of League of Legends matches: lol/service.py with        *)
(* score.py and the tables of store.py.                                    *)
(*                                                                         *)
(* A sweep awaits the list of tournaments and the statistics of one after  *)
(* the other, and with the last of them scores every match of the screener *)
(* in one go; the first score after kickoff is the last one.  The daily    *)
(* job and the endpoint may sweep at the same time.  Every match has a     *)
(* tournament of its own here.  A team is its game time, its record and    *)
(* one of the metrics that are simply compared; Missing stands for a value *)
(* that is no number.                                                      *)
(***************************************************************************)
EXTENDS Integers, FiniteSets

CONSTANTS Series, Team, Sweeper, Missing,
          MaxGames      \* bound: times the statistics of a match change

ASSUME TeamAssumption == \A t \in Team : {t.agt, t.gold} \subseteq Int \cup {Missing}
ASSUME GamesAssumption == MaxGames \in Nat

VARIABLES stats,     \* what Oracle has of the two teams of each match
          stored,    \* lol_team_stats
          played,    \* games that changed the statistics
          stage,     \* upcoming, started, or gone from the screener
          cards,     \* lol_scores
          sweep      \* what each sweep waits for: the list, or the tournaments left

lolVars == <<stats, stored, played, stage, cards, sweep>>

NoCard == [kind |-> "none"]
Pair == [home : Team, away : Team]
Side == {"home", "away", "nobody"}
NoSweep == [at |-> "idle", left |-> {}]
Waiting == [at : {"idle", "list", "stats"}, left : SUBSET Series]

-----------------------------------------------------------------------------
\* Mutant of AgtPoint.
AgtPointNoFlip(h, a) ==
    IF h.agt = Missing \/ a.agt = Missing \/ h.agt = a.agt THEN "nobody"
    ELSE IF h.agt < a.agt THEN (IF h.record = "losing" THEN "away" ELSE "home") ELSE "away"

\* The faster side, unless it is losing fast.
AgtPoint(h, a) ==
    IF h.agt = Missing \/ a.agt = Missing \/ h.agt = a.agt THEN "nobody"
    ELSE IF h.agt < a.agt THEN (IF h.record = "losing" THEN "away" ELSE "home")
                          ELSE (IF a.record = "losing" THEN "home" ELSE "away")

MetricPoint(h, a) ==
    IF h.gold = Missing \/ a.gold = Missing \/ h.gold = a.gold THEN "nobody"
    ELSE IF h.gold > a.gold THEN "home" ELSE "away"

Points(side, h, a) ==
    Cardinality({p \in {"agt", "gold"} :
                    side = (IF p = "agt" THEN AgtPoint(h, a) ELSE MetricPoint(h, a))})

\* scorecard
Scorecard(h, a) ==
    LET ph == Points("home", h, a)  pa == Points("away", h, a)
    IN [home |-> ph, away |-> pa,
        pick |-> IF ph > pa THEN "home" ELSE IF pa > ph THEN "away" ELSE "nobody"]

-----------------------------------------------------------------------------
LolInit ==
    /\ stats \in [Series -> Pair]
    /\ stored = [m \in Series |-> NoCard]
    /\ played = 0
    /\ stage = [m \in Series |-> "upcoming"]
    /\ cards = [m \in Series |-> NoCard]
    /\ sweep = [s \in Sweeper |-> NoSweep]

FrozenSlugs == {m \in Series : cards[m] # NoCard /\ cards[m].frozen}

\* rebuild_scores: no card without both teams of one tournament, none for what is
\* frozen or gone.
RebuildScores(table) ==
    [m \in Series |->
        IF m \in FrozenSlugs \/ table[m] = NoCard \/ stage[m] = "gone" THEN cards[m]
        ELSE [card |-> Scorecard(table[m].home, table[m].away), frozen |-> stage[m] = "started"]]

\* run: the next tournament, or the scores.
GoesOn(s, left, table) ==
    /\ stored' = table
    /\ cards' = IF left = {} THEN RebuildScores(table) ELSE cards
    /\ sweep' = [sweep EXCEPT ![s] = IF left = {} THEN NoSweep ELSE [at |-> "stats", left |-> left]]

SweepBegin(s) ==
    /\ sweep[s].at = "idle"
    /\ sweep' = [sweep EXCEPT ![s] = [at |-> "list", left |-> {}]]
    /\ UNCHANGED <<stats, stored, played, stage, cards>>

\* recent_tournaments; a failure ends the sweep before it has scored anything.
ListAnswered(s) ==
    /\ sweep[s].at = "list"
    /\ \E listed \in SUBSET Series : GoesOn(s, listed, stored)
    /\ UNCHANGED <<stats, played, stage>>

ListFails(s) ==
    /\ sweep[s].at = "list"
    /\ sweep' = [sweep EXCEPT ![s] = NoSweep]
    /\ UNCHANGED <<stats, stored, played, stage, cards>>

\* refresh_stats: a tournament that fails keeps its old rows.
SaveTeamStats(s) ==
    /\ sweep[s].at = "stats"
    /\ \E m \in sweep[s].left : \E table \in {stored, [stored EXCEPT ![m] = stats[m]]} :
          GoesOn(s, sweep[s].left \ {m}, table)
    /\ UNCHANGED <<stats, played, stage>>

-----------------------------------------------------------------------------
NextStage == [upcoming |-> "started", started |-> "gone"]

StageMoves(m) ==
    /\ stage[m] # "gone"
    /\ stage' = [stage EXCEPT ![m] = NextStage[@]]
    /\ UNCHANGED <<stats, stored, played, cards, sweep>>

GamePlayed(m) ==
    /\ played < MaxGames
    /\ \E pair \in Pair : stats' = [stats EXCEPT ![m] = pair]
    /\ played' = played + 1
    /\ UNCHANGED <<stored, stage, cards, sweep>>

LolNext ==
    \/ \E s \in Sweeper : SweepBegin(s) \/ ListAnswered(s) \/ ListFails(s) \/ SaveTeamStats(s)
    \/ \E m \in Series : StageMoves(m) \/ GamePlayed(m)

LolSpec == LolInit /\ [][LolNext]_lolVars

-----------------------------------------------------------------------------
LolTypeOK ==
    /\ stats \in [Series -> Pair]
    /\ stored \in [Series -> Pair \cup {NoCard}]
    /\ played \in 0..MaxGames
    /\ stage \in [Series -> {"upcoming", "started", "gone"}]
    /\ sweep \in [Sweeper -> Waiting]
    /\ \A m \in Series : cards[m] # NoCard =>
          cards[m] \in [card : [home : 0..2, away : 0..2, pick : Side], frozen : BOOLEAN]

Turned(side) == IF side = "home" THEN "away" ELSE IF side = "away" THEN "home" ELSE side

\* score.py, METRICS and the rule that "losing fast" flips the edge: the card
\* does not depend on which of the two teams the screener lists first, and no
\* point is given twice.
ScorecardIsFair == \A m \in Series :
    LET c == Scorecard(stats[m].home, stats[m].away)
        d == Scorecard(stats[m].away, stats[m].home)
    IN /\ d = [home |-> c.away, away |-> c.home, pick |-> Turned(c.pick)]
       /\ c.home + c.away <= 2

\* service.py: "a match that has started keeps the scorecard it had at kickoff".  Does
\* not hold: the first sweep after kickoff writes the card once more and only then
\* freezes it, so the card is that of the first sweep after kickoff.
KeptFromKickoff ==
    [][ \A m \in Series : cards[m] # NoCard /\ stage[m] = "started" =>
           cards'[m] = NoCard \/ cards'[m].card = cards[m].card ]_lolVars
=============================================================================
