---------------------------- MODULE ClearFavorite ----------------------------
(***************************************************************************)
(* The Clear Favorite verdict of a baseball game: favorite/engine.py with  *)
(* the scores of its eight factors (market, sp, bullpen, strength, rest,   *)
(* lineup, form, park).                                                    *)
(*                                                                         *)
(* What the factors read is the state, chosen at the start; one step puts  *)
(* the verdict beside it.  Prices are cents, innings per start tenths of   *)
(* an inning, strengths Pythagorean percentages.  `raw' is a starter's     *)
(* composite of ERA, WHIP and strikeouts in tenths; data.league_pitching   *)
(* divides its distance from the mean by Spread, the deviation of the      *)
(* composite among starters, so the means cancel in the gap of two.  The   *)
(* computations behind these numbers, all wording and the ten-minute cache *)
(* of results are not modelled.                                            *)
(***************************************************************************)
EXTENDS Integers, FiniteSets

CONSTANTS Club,       \* two clubs' inputs: records, see Inputs
          Price,      \* cents of the row's home side; the other side has the rest
          Drift,      \* its movement since the day's open
          Spread      \* deviation of the composite among starters, in tenths

VARIABLES away, home,   \* the clubs of the game
          row,          \* the screener's row
          verdict       \* what score_game returns

favVars == <<away, home, row, verdict>>

NoVerdict == [kind |-> "none"]

NoPrice == 0 - 1   \* the row has no prices
NoRest == 0 - 1    \* no earlier game, or none in the last days
Unranked == 0      \* the club has no bullpen rank

\* The fields of a club that the factors read.
Inputs == {"starter", "raw", "depth", "penRank", "penUsed", "standing", "games", "strength",
           "rest", "far", "lineup", "wins", "diff"}

\* A probable is rated, not announced, or announced without a qualified season line.
Starters == {"rated", "unannounced", "unrated"}

\* Not posted, and near first pitch; posted beside no table of hitters or fewer than
\* five of them; and how many of the top five bats it has.
Lineups == {"unposted", "pending", "noTable", "thinTable", "five", "four", "three", "fewer"}

\* The numbers are whole in the units above.
ASSUME ClubAssumption ==
    \A c \in Club :
       /\ DOMAIN c = Inputs
       /\ c.starter \in Starters /\ c.lineup \in Lineups
       /\ {c.far, c.standing} \subseteq BOOLEAN
       /\ {c.raw, c.strength, c.diff} \subseteq Int
       /\ {c.depth, c.penRank, c.penUsed, c.games, c.wins} \subseteq Nat
       /\ c.rest \in Nat \cup {NoRest}
\* The composite is the mean of three figures of deviation 1 and deviates by no more.
ASSUME SpreadAssumption == Spread \in 1..10
\* A price is a share of a dollar.
ASSUME PriceAssumption == Price \subseteq 0..100 /\ Drift \subseteq -100..100

\* The row may list the clubs in either order and may not have the name of one
\* or both as the schedule has it.
Rows == [flipped : BOOLEAN, homeKnown : BOOLEAN, awayKnown : BOOLEAN,
         homePrice : Price \cup {NoPrice}, drift : Drift, extreme : BOOLEAN]
Name(known, club) == IF known THEN club ELSE "other"
HomeName(r) == Name(r.homeKnown, IF r.flipped THEN "away" ELSE "home")
AwayName(r) == Name(r.awayKnown, IF r.flipped THEN "home" ELSE "away")

FavInit ==
    /\ away \in Club /\ home \in Club
    /\ row \in Rows
    /\ verdict = NoVerdict

-----------------------------------------------------------------------------
\* The first band whose bound x reaches, else 0.
Band(x, bounds, points) ==
    LET reached == {i \in DOMAIN bounds : x >= bounds[i]}
    IN IF reached = {} THEN 0
       ELSE points[CHOOSE i \in reached : \A j \in reached : i <= j]

Least(x, y) == IF x <= y THEN x ELSE y
Most(x, y) == IF x >= y THEN x ELSE y

\* A price of 66 stands for 66.7, a drift of 1 for 1.5.
Market(price, drift) ==
    IF price = NoPrice THEN 0
    ELSE Least(28, Band(price, <<66, 63, 59>>, <<24, 18, 12>>) + Band(drift, <<3, 1>>, <<4, 2>>))

\* Probables: the gap in standard deviations in bands, then the depth of the two
\* starts; `depth` 0 when no honest figure can be given.
Quality(gap) ==
    Band(10 * gap, <<20 * Spread, 7 * Spread, 3 * Spread, Spread>>, <<18, 12, 8, 4>>)

DepthPoints(mine, theirs) ==
    (IF mine = 0 \/ theirs = 0 THEN 0
     ELSE LET gap == mine - theirs
          IN IF gap >= 10 THEN 1 ELSE IF gap <= -15 THEN -3
             ELSE IF gap <= -10 THEN -2 ELSE IF gap <= -5 THEN -1 ELSE 0)
    - (IF mine # 0 /\ mine < 40 THEN 2 ELSE 0)

BothRated(mine, theirs) == mine.starter = "rated" /\ theirs.starter = "rated"

Starter(mine, theirs) ==
    IF BothRated(mine, theirs)
    THEN Most(0, Least(18, Quality(mine.raw - theirs.raw) + DepthPoints(mine.depth, theirs.depth)))
    ELSE 0

Bullpen(c) ==
    IF c.penRank = Unranked \/ c.penUsed >= 10 THEN 0
    ELSE IF c.penRank <= 8 /\ c.penUsed <= 6 THEN 12
    ELSE Band(-c.penRank, <<-15, -22, -26>>, <<8, 5, 2>>)

Strength(mine, theirs) ==
    IF mine.standing /\ theirs.standing
    THEN Band(mine.strength - theirs.strength, <<8, 4, 2, 1>>, <<12, 7, 4, 2>>)
    ELSE 0

\* Equal rest is not an equal spot when one side just flew across the country.
EqualRest(mine, theirs) ==
    IF theirs.far /\ ~mine.far THEN 7 ELSE IF mine.far /\ ~theirs.far THEN 2 ELSE 5

Rest(mine, theirs) ==
    LET adv == mine.rest - theirs.rest
    IN IF mine.rest = NoRest \/ theirs.rest = NoRest THEN 5
       ELSE IF adv > 0 THEN (IF theirs.rest = 0 \/ theirs.far THEN 10 ELSE 7)
       ELSE IF adv = 0 THEN EqualRest(mine, theirs)
       ELSE IF adv = -1 THEN 2 ELSE 0

\* Top bats in the lineup, 6 while it is not posted and where there is no table.
Lineup(c) ==
    IF c.lineup \in {"unposted", "pending", "noTable"} THEN 6
    ELSE IF c.lineup \in {"thinTable", "five"} THEN 10
    ELSE IF c.lineup = "four" THEN 6 ELSE IF c.lineup = "three" THEN 3 ELSE 0

\* `games' are the finished ones of the club's schedule, `wins' and `diff' of the last ten.
Form(c) ==
    IF c.games < 5 THEN 2
    ELSE IF c.wins >= 7 \/ (c.wins >= 6 /\ c.diff >= 10) THEN 5
    ELSE IF c.wins >= 6 \/ (c.wins >= 5 /\ c.diff > 0) THEN 3
    ELSE IF c.wins >= 4 THEN 2
    ELSE IF c.diff > -15 THEN 1 ELSE 0

Park(extreme) == IF extreme THEN 0 ELSE 2

-----------------------------------------------------------------------------
\* _score_side: the total, and the hard rules that disqualify.
Total(mine, theirs, price, drift, extreme) ==
    Market(price, drift) + Starter(mine, theirs) + Bullpen(mine) + Strength(mine, theirs)
      + Rest(mine, theirs) + Lineup(mine) + Form(mine) + Park(extreme)

\* A factor of the top four without data disqualifies: no price (below 59 here), no
\* bullpen rank, a club missing from the standings; the starter has rules of its own.
Disqualified(mine, theirs, price, extreme) ==
    \/ price < 59
    \/ ~BothRated(mine, theirs)
    \/ mine.penRank = Unranked
    \/ ~mine.standing \/ ~theirs.standing
    \/ (mine.lineup = "pending" /\ extreme)

Qualifies(mine, theirs, price, drift, extreme) ==
    /\ ~Disqualified(mine, theirs, price, extreme)
    /\ Total(mine, theirs, price, drift, extreme) >= 75

\* Mutant of Aligned.
AlignedByBothNames(r) == HomeName(r) = "home" /\ AwayName(r) = "away"

\* Polymarket lists the away club first more often than not: sides go by name,
\* and one name that fits is enough.
Aligned(r) == HomeName(r) = "home" \/ AwayName(r) = "away"

Opposite(price) == IF price = NoPrice THEN NoPrice ELSE 100 - price
HomePrice(r) == IF Aligned(r) THEN r.homePrice ELSE Opposite(r.homePrice)
HomeDrift(r) == IF Aligned(r) THEN r.drift ELSE 0 - r.drift

Favorite(h, a, homeTotal, awayTotal) ==
    CASE h /\ a -> (IF homeTotal > awayTotal THEN "home"
                    ELSE IF awayTotal > homeTotal THEN "away" ELSE "nobody")
      [] h /\ ~a -> "home"
      [] a /\ ~h -> "away"
      [] OTHER -> "nobody"

ScoreGame ==
    /\ verdict = NoVerdict
    /\ LET p == HomePrice(row)  d == HomeDrift(row)  x == row.extreme IN
       verdict' = [price |-> [home |-> p, away |-> Opposite(p)],
                   favorite |-> Favorite(Qualifies(home, away, p, d, x),
                                         Qualifies(away, home, Opposite(p), 0 - d, x),
                                         Total(home, away, p, d, x),
                                         Total(away, home, Opposite(p), 0 - d, x))]
    /\ UNCHANGED <<away, home, row>>

FavSpec == FavInit /\ [][ScoreGame]_favVars

-----------------------------------------------------------------------------
FavTypeOK ==
    /\ DOMAIN away = Inputs /\ DOMAIN home = Inputs
    /\ row \in Rows
    /\ verdict # NoVerdict => verdict.favorite \in {"home", "away", "nobody"}

\* score_game: "sides are re-assigned by matching team NAMES ..., never by
\* position".  Whatever the order of the row, one name in common is enough for a
\* club to be scored on its own price, and the favourite is a club the market
\* has at 59 or more.
PricedByName ==
    verdict # NoVerdict =>
       /\ row.homeKnown \/ row.awayKnown =>
             verdict.price.home = (IF row.flipped THEN Opposite(row.homePrice) ELSE row.homePrice)
       /\ verdict.favorite # "nobody" => verdict.price[verdict.favorite] >= 59

\* engine.py, "Scores both teams independently": every factor is asked once for each club.
\* An edge that it measures between the two (starter, strength, rest) is never an edge of
\* both, and the price lets one club qualify at most: the tie of engine.py's docstring, an
\* exact tie or the higher score of two, never has to be broken.  The other factors look
\* at one club, and equal rest gives both 5.
EdgesAreOneSided ==
    /\ Starter(home, away) > 1 => Starter(away, home) <= 1
    /\ Strength(home, away) > 0 => Strength(away, home) = 0
    /\ Rest(home, away) > 5 => Rest(away, home) < 5
    /\ LET p == HomePrice(row)  d == HomeDrift(row)  x == row.extreme IN
       ~ (Qualifies(home, away, p, d, x) /\ Qualifies(away, home, Opposite(p), 0 - d, x))
=============================================================================
