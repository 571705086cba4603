--------------------------- MODULE RebuiltVerdict ---------------------------
(***************************************************************************)
(* The points of backtest/favhistory.py beside those of favorite/: the     *)
(* verdict of a past game is rebuilt by factors written a second time,     *)
(* which read box scores and schedules of the day instead of live tables.  *)
(* The market factor is the same function.                                 *)
(*                                                                         *)
(* Both are compared on one set of inputs, those of ClearFavorite; that    *)
(* the two programs read them from different sources is not compared.  The *)
(* strength of a club is unknown to the rebuild before its tenth game, to  *)
(* the live engine without a row of the standings.                         *)
(***************************************************************************)
EXTENDS ClearFavorite

\* _sp: the gap of the composites themselves, which _rating does not re-standardise;
\* the depth of a start is not rebuilt.
RebuiltStarter(mine, theirs) ==
    IF BothRated(mine, theirs)
    THEN Band(mine.raw - theirs.raw, <<20, 7, 3, 1>>, <<18, 12, 8, 4>>) ELSE 0

\* _bullpen: the workload is unknown.
RebuiltBullpen(c) ==
    IF c.penRank = Unranked THEN 0
    ELSE Band(0 - c.penRank, <<-8, -15, -22, -26>>, <<12, 8, 5, 2>>)

TooThin(mine, theirs) == mine.games < 10 \/ theirs.games < 10

RebuiltStrength(mine, theirs) ==
    LET edge == mine.strength - theirs.strength
    IN IF TooThin(mine, theirs) THEN 0
       ELSE IF edge >= 8 THEN 12 ELSE IF edge >= 4 THEN 7 ELSE IF edge >= 2 THEN 4
       ELSE IF edge >= 1 THEN 2 ELSE 0

RebuiltRest(mine, theirs) ==
    LET adv == mine.rest - theirs.rest
    IN IF NoRest \in {mine.rest, theirs.rest} THEN 5
       ELSE IF adv > 0 THEN (IF theirs.rest = 0 \/ theirs.far THEN 10 ELSE 7)
       ELSE IF adv = 0 /\ theirs.far /\ ~mine.far THEN 7
       ELSE IF adv = 0 /\ mine.far /\ ~theirs.far THEN 2
       ELSE IF adv = 0 THEN 5
       ELSE IF adv = -1 THEN 2 ELSE 0

\* _lineup: no starters in the box score, or fewer than five regulars, none included.
RebuiltLineup(c) ==
    IF c.lineup \in {"unposted", "pending"} THEN 6
    ELSE IF c.lineup \in {"noTable", "thinTable", "five"} THEN 10
    ELSE IF c.lineup = "four" THEN 6 ELSE IF c.lineup = "three" THEN 3 ELSE 0

RebuiltForm(c) ==
    IF c.games < 5 THEN 2
    ELSE IF c.wins >= 7 \/ (c.wins = 6 /\ c.diff >= 10) THEN 5
    ELSE IF c.wins = 6 \/ (c.wins = 5 /\ c.diff > 0) THEN 3
    ELSE IF c.wins >= 4 THEN 2
    ELSE IF c.diff > -15 THEN 1 ELSE 0

\* _park: weather not replayed.
RebuiltPark == 2

RebuiltTotal(mine, theirs, price, drift) ==
    Market(price, drift) + RebuiltStarter(mine, theirs) + RebuiltBullpen(mine)
      + RebuiltStrength(mine, theirs) + RebuiltRest(mine, theirs) + RebuiltLineup(mine)
      + RebuiltForm(mine) + RebuiltPark

\* The hard rules of _build.  A starter who was not announced is no reason: neither an
\* emergency, which takes two probables, nor missing data.
RebuiltDisqualified(mine, theirs, price) ==
    \/ price < 59
    \/ "unannounced" \notin {mine.starter, theirs.starter} /\ ~BothRated(mine, theirs)
    \/ mine.penRank = Unranked
    \/ TooThin(mine, theirs)

RebuiltQualifies(mine, theirs, price, drift) ==
    /\ ~RebuiltDisqualified(mine, theirs, price)
    /\ RebuiltTotal(mine, theirs, price, drift) >= 75

RebuiltFavorite(h, a, p, d) ==
    Favorite(RebuiltQualifies(h, a, p, d), RebuiltQualifies(a, h, Opposite(p), 0 - d),
             RebuiltTotal(h, a, p, d), RebuiltTotal(a, h, Opposite(p), 0 - d))

-----------------------------------------------------------------------------
\* favhistory.py, "factor bands (mirror backend/favorite/*)", as far as that is so: rest and
\* form score what the live factors do; bullpen where the pen is not tired; strength where
\* both sources know the clubs; lineup where there is a table of hitters (10 against 6
\* where there is none).  The starter, which the live engine measures in deviations of the
\* composite, never gets more here than there, and gets less unless they are its units.
FactorsMirror ==
    \A mine, theirs \in Club :
       /\ RebuiltRest(mine, theirs) = Rest(mine, theirs)
       /\ RebuiltForm(mine) = Form(mine)
       /\ mine.penUsed <= 6 => RebuiltBullpen(mine) = Bullpen(mine)
       /\ mine.standing /\ theirs.standing /\ ~TooThin(mine, theirs) =>
             RebuiltStrength(mine, theirs) = Strength(mine, theirs)
       /\ mine.lineup # "noTable" => RebuiltLineup(mine) = Lineup(mine)
       /\ mine.depth = 0 /\ theirs.depth = 0 =>
             /\ RebuiltStarter(mine, theirs) <= Starter(mine, theirs)
             /\ Spread = 10 => RebuiltStarter(mine, theirs) = Starter(mine, theirs)

\* What the rebuilt verdict cannot see does not count for the game: calm weather, starts
\* without a figure for depth, rested pens; and both programs have their tables.
NothingLeftOut ==
    /\ ~row.extreme
    /\ \A c \in {away, home} :
          /\ c.starter # "unannounced" /\ c.depth = 0 /\ c.penUsed <= 6
          /\ c.standing /\ c.lineup # "noTable"

\* favhistory.py: "Reconstruct the Clear Favorite verdict at T-5".  From the same inputs,
\* where nothing is left out, it errs on one side only: whomever it names is the live
\* favourite, though it may miss one for the points of the starter; and it names nobody in
\* the first ten games of a club.
RebuildAddsNoFavorite ==
    verdict # NoVerdict =>
       LET rebuilt == RebuiltFavorite(home, away, HomePrice(row), HomeDrift(row)) IN
       /\ NothingLeftOut => rebuilt \in {verdict.favorite, "nobody"}
       /\ TooThin(home, away) => rebuilt = "nobody"

\* favorite/engine.py: an unannounced starter is a disqualifier.  Does not hold
\* here: such a game may still reach 75 points, and is bet on in the backtest.
RebuiltIsAllowed ==
    verdict # NoVerdict =>
       LET p == HomePrice(row)  x == row.extreme
           f == RebuiltFavorite(home, away, p, HomeDrift(row))
       IN /\ f = "home" => ~Disqualified(home, away, p, x)
          /\ f = "away" => ~Disqualified(away, home, Opposite(p), x)
=============================================================================
