------------------------------ MODULE MCAlerts ------------------------------
(***************************************************************************)
(* The alert pipelines side by side.  They share nothing but the code they *)
(* run in (the two MLB detectors read a cache of their own copy here), so a*)
(* behaviour runs one of them, chosen at the start, and the others stay as *)
(* they began.                                                             *)
(***************************************************************************)
EXTENDS FootballAlerts, Comeback, Bottom8, ConfigCache, FavoriteLock, LolScores, RebuiltVerdict,
        FavHistory, TLC

CONSTANTS f1, f2, h1, h2
VARIABLE part

Fixtures == {f1, f2}
Symm == Permutations(Fixtures)
\* A club of whom all is known, and what the factors tell apart about it.
Plain == [starter |-> "rated", raw |-> 0, depth |-> 0, penRank |-> 5, penUsed |-> 5,
          standing |-> TRUE, games |-> 12, strength |-> 50, rest |-> 1, far |-> FALSE,
          lineup |-> "five", wins |-> 8, diff |-> 12]
Clubs ==
    {[Plain EXCEPT !.raw = q, !.depth = d, !.rest = r] :
        q \in {0, 5}, d \in {0, 45, 60}, r \in {0, 1}}
      \cup {[Plain EXCEPT !.rest = r, !.far = TRUE] : r \in {0, 1}}
      \cup {[Plain EXCEPT !.starter = s, !.strength = 58] : s \in {"unannounced", "unrated"}}
      \cup {[Plain EXCEPT !.lineup = l, !.raw = 5] : l \in {"pending", "noTable", "thinTable", "four"}}
      \cup {[Plain EXCEPT !.games = g, !.raw = 5] : g \in {4, 9}}
      \cup {[Plain EXCEPT !.standing = FALSE], [Plain EXCEPT !.penRank = Unranked],
            [Plain EXCEPT !.penUsed = 10], [Plain EXCEPT !.rest = NoRest],
            [Plain EXCEPT !.strength = 54, !.wins = 5, !.diff = 0]}
Drifts == {0, 3}
Contests == {h1, h2}
ContestDates == h1 :> 1 @@ h2 :> 2
Teams == [agt : {30, 33}, record : {"winning", "losing"}, gold : {0}]
           \cup [agt : {30, Missing}, record : {"unknown"}, gold : {1}]

comeOwn == <<seen, batch, asking, alerts>>
eightOwn == <<live, pace, visits, rows, middle>>
alertsVars == <<part, footVars, mlbVars, comeOwn, eightOwn, cfgVars, lockVars, lolVars, favVars,
                histVars>>

AlertsInit ==
    /\ part \in {"football", "comeback", "bottom8", "config", "lock", "lol", "favorite",
                "rebuild"}
    \* the detector's games are in the bottom of the 9th, the tracker's in the top of the 8th
    /\ line \in [Game -> [at : IF part = "comeback" THEN {"B9+"} ELSE {"T8"},
                          away : {0}, home : {0}, pitcher : {First}]]
    \* a part that does not run begins in one state
    /\ part # "lol" => stats = CHOOSE s \in [Series -> Pair] : TRUE
    /\ part # "favorite" =>
          /\ away = CHOOSE c \in Club : TRUE
          /\ home = away
          /\ row = CHOOSE r \in Rows : TRUE
    /\ FootInit /\ ComeInit /\ EightInit /\ CfgInit /\ LockInit /\ LolInit /\ FavInit
    /\ HistInit

AlertsNext ==
    /\ UNCHANGED part
    /\ \/ /\ part = "football" /\ FootNext
          /\ UNCHANGED <<mlbVars, comeOwn, eightOwn, cfgVars, lockVars, lolVars, favVars, histVars>>
       \/ /\ part = "comeback" /\ ComeNext
          /\ UNCHANGED <<footVars, eightOwn, cfgVars, lockVars, lolVars, favVars, histVars>>
       \* the tracker never looks at the pitcher
       \/ /\ part = "bottom8" /\ UNCHANGED before /\ EightNext
          /\ UNCHANGED <<footVars, comeOwn, cfgVars, lockVars, lolVars, favVars, histVars>>
       \/ /\ part = "config" /\ CfgNext
          /\ UNCHANGED <<footVars, mlbVars, comeOwn, eightOwn, lockVars, lolVars, favVars, histVars>>
       \/ /\ part = "lock" /\ LockNext
          /\ UNCHANGED <<footVars, mlbVars, comeOwn, eightOwn, cfgVars, lolVars, favVars, histVars>>
       \/ /\ part = "lol" /\ LolNext
          /\ UNCHANGED <<footVars, mlbVars, comeOwn, eightOwn, cfgVars, lockVars, favVars, histVars>>
       \/ /\ part = "favorite" /\ ScoreGame
          /\ UNCHANGED <<footVars, mlbVars, comeOwn, eightOwn, cfgVars, lockVars, lolVars, histVars>>
       \/ /\ part = "rebuild" /\ HistNext
          /\ UNCHANGED <<footVars, mlbVars, comeOwn, eightOwn, cfgVars, lockVars, lolVars, favVars>>

AlertsSpec == AlertsInit /\ [][AlertsNext]_alertsVars

\* No step reads the prices of a stored row: a row whose two sides found different prices
\* is checked, and the season goes on from the rows whose sides found the same.
Explored == \A g \in DOMAIN history : history[g].prices["home"] = history[g].prices["away"]

\* Every part of the alerts has its types.
AlertsTypeOK ==
    /\ FootTypeOK /\ ComeTypeOK /\ EightTypeOK /\ CfgTypeOK /\ LockTypeOK /\ LolTypeOK
    /\ FavTypeOK /\ HistTypeOK

\* football/live.py and comeback/outcomes.py: the outcome kept for an alert is the
\* score the match or the game ended with.
OutcomesAreFinal == OutcomeIsFinal /\ FinalsAreFinal

\* store.py of football, comeback and bottom8: each table is an alert log (AlertLog);
\* favorite/store.py: so are the locks, which nothing settles.
TablesAreLogs == AlertsAreALog /\ TriggersAreALog /\ RowsAreALog /\ LockIsFinal

\* favorite/engine.py scores every club on its own price; favhistory.py on no price from
\* after its game began, and on results of earlier dates only, save for a box score that
\* MLB does not answer as of first pitch; nor is a verdict, once rebuilt, rebuilt by a
\* later batch with what is known then.
VerdictsAreHonest == PricedByName /\ AsOfThen /\ RebuiltOnce

\* favorite/engine.py and lol/score.py: an edge between two sides is never scored for both,
\* nor does a card depend on which side is listed first; and the factors that
\* backtest/favhistory.py writes a second time give what the live ones give, or less, so
\* that from the same inputs a rebuilt verdict names no favourite the live one does not.
ScoringIsFair == EdgesAreOneSided /\ ScorecardIsFair /\ FactorsMirror /\ RebuildAddsNoFavorite
=============================================================================
