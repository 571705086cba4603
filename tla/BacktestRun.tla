----------------------------- MODULE BacktestRun -----------------------------
(***************************************************************************)
(* backtest/engine.py: the six strategies replayed over one recorded game. *)
(*                                                                         *)
(* A run reads the spots, the locked and reconstructed verdicts, the line  *)
(* scores and the settlement, and lists its trades; one step puts them in  *)
(* `report'.  A position is 100 shares (a stake in dollars scales it).     *)
(* Money is in units of 1/2000 dollar, in which every fee is a whole       *)
(* number, and a trade of a split game says among how many the stake is    *)
(* split; rounding to cents, averages, labels and the tables that slice    *)
(* the same trades again are not modelled.                                 *)
(***************************************************************************)
EXTENDS GameSpots

CONSTANTS Setting,   \* parameters of a run
          Verdicts   \* sequences of verdict rows, the locked ones first

VARIABLE report

runVars == <<halves, ended, report>>

\* A verdict row has its source, the total of each side, the sides that something else
\* than the price disqualifies, and the T-5 price of the home side.
Rows == [source : {"locked", "reconstructed"}, home : Nat, away : Nat,
         barred : SUBSET {"home", "away"}, price : 1..99]
Kinds == {"checklist", "comeback", "favorite", "favorite2", "bottom8", "fairvalue"}
Factors == {"lead", "park"}  \* two of the factors that are graded
Params == [kind : Kinds, delay : BOOLEAN, horizon : Int, target : Nat,
           giveUp : {"horizon", "stake"}, slip : 0..100,
           fee : {"taker_both", "maker_exit", "maker_both"}, side : {"both", "home", "away"},
           inning : Int, floor : Int, bound : Int, bar : Int,
           factors : [Factors -> {"full", "half", "none", "unknown"}], fair : Int,
           discount : Int, exit : {"hold", "bounce"}, perGame : BOOLEAN, which : {"high", "low"}]

ASSUME SettingAssumption == Setting \subseteq Params
ASSUME VerdictAssumption == Verdicts \subseteq Seq(Rows)

NoReport == [kind |-> "none"]

-----------------------------------------------------------------------------
TakerFee(price) == price * (100 - price)

\* A fill at a price plus slippage; a redemption costs nothing.
Bought(p, price) == 2000 * (price + p.slip)
EntryFee(p, price) == IF p.fee = "maker_both" THEN 0 ELSE TakerFee(price + p.slip)
ExitFee(p, price) == IF p.fee = "taker_both" /\ price > 0 THEN TakerFee(Most(0, price - p.slip)) ELSE 0

SoldFor(p, price, exit) ==
    2000 * Most(0, exit - p.slip) - ExitFee(p, exit) - Bought(p, price) - EntryFee(p, price)
Held(p, price, won) ==
    2000 * (IF won THEN 100 ELSE 0) - Bought(p, price) - EntryFee(p, price)

Horizon(p) == Most(1, Least(6, p.horizon))

\* Mutant of Seen.
SeenToTheEnd(s, p) == DOMAIN s.path

\* The boundaries of the path within the horizon of the run.
Seen(s, p) == DOMAIN s.path \cap 1..Horizon(p)

PathTrade(s, p) ==
    LET fill == IF p.delay THEN s.delayed ELSE s.entry0
        target == fill + p.target
        hits == {k \in Seen(s, p) : s.path[k].max >= target}
        won == hits # {}
        exit == IF won THEN target
                ELSE IF p.giveUp = "stake" THEN 0 ELSE s.path[Max(Seen(s, p))].at
    IN [at |-> s.at, side |-> s.trailing, win |-> won, entry |-> fill, exit |-> exit,
        hold |-> IF won THEN Min(hits) ELSE Horizon(p), pnl |-> SoldFor(p, fill, exit), of |-> 1]

\* One side bought and held until the winner is known.
Bet(at, side, price, p, winner) ==
    [at |-> at, side |-> side, win |-> side = winner, entry |-> price,
     exit |-> IF side = winner THEN 100 ELSE 0, hold |-> 0, pnl |-> Held(p, price, side = winner), of |-> 1]

\* Tracked markets take the winner from the settlement; nothing while it is unknown.
Hold(at, side, price, p) ==
    IF Settlement = "unknown" THEN {} ELSE {Bet(at, side, price, p, Settlement)}

Pnl(trades) == MapThenSumSet(LAMBDA r : r.pnl, trades)

\* One GAME risks the stake, however many spots it fired: each gains or loses its
\* share, "exact, not an approximation".
SplitByGame(trades, p) ==
    IF ~p.perGame THEN trades
    ELSE {[r EXCEPT !.of = Cardinality(trades)] : r \in trades}

-----------------------------------------------------------------------------
\* _band_points: percent of each weight; what is unknown earns nothing.
Grade(f) == CASE f = "full" -> 100 [] f = "half" -> 50 [] OTHER -> 0
BandPoints(s, factors) ==
    (IF s.left >= 6 THEN 200 ELSE IF s.left >= 4 THEN 100 ELSE 0)
      + (IF s.deficit = 1 THEN 200 ELSE IF s.deficit = 2 THEN 100 ELSE 0)
      + (IF s.trailing = "home" THEN 150 ELSE 50)
      + MapThenSumSet(LAMBDA f : Grade(factors[f]), DOMAIN factors)

OnSide(s, p) == p.side = "both" \/ s.trailing = p.side

\* _simulate: the hard gates of the checklist.
Gated(s, p) ==
    /\ ~s.stale /\ s.entry0 \in p.floor..p.bound
    /\ s.left >= p.inning /\ s.deficit >= 1 /\ OnSide(s, p)

Checklist(hs, p) ==
    {PathTrade(s, p) : s \in {s \in Spots(hs) : Gated(s, p) /\ BandPoints(s, p.factors) >= p.bar}}

\* The Comeback Setup: the home side down one or tied and about to bat, against
\* a pitcher who is tired by enough of the measures.
SituationOk(s, p) ==
    /\ s.trailing = "home" /\ s.deficit <= 1
    /\ s.inning >= p.inning /\ s.next = "bottom"
FatigueMatches(factors) == Cardinality({f \in DOMAIN factors : factors[f] = "full"})

Comeback(hs, p) ==
    {PathTrade(s, p) : s \in {s \in Spots(hs) : /\ ~s.stale /\ SituationOk(s, p)
                                            /\ FatigueMatches(p.factors) >= 1}}

-----------------------------------------------------------------------------
T5(row, side) == SidePrice(side, row.price)

\* run_favorite: the better of the sides of a verdict that clear the bar.
Clears(row, side, p) == row[side] >= p.bar /\ side \notin row.barred /\ T5(row, side) \in p.floor..p.bound
Best(row, p) ==
    LET sides == {side \in {"home", "away"} : Clears(row, side, p)}
    IN {side \in sides : \A o \in sides \ {side} :
           row[side] > row[o] \/ (row[side] = row[o] /\ side = "away")}

\* Every row is a bet of its own.
Favorite(rows, p) ==
    UNION {UNION {Hold(n, side, T5(rows[n], side), p) : side \in Best(rows[n], p)} :
             n \in DOMAIN rows}

\* run_favorite2: the two scores of a game against the market, no bar; the first
\* row that can be used stands for the game.  The smallest gap and the range of prices are
\* those of the defaults, which keep every game.
Differ(rows) == {n \in DOMAIN rows : rows[n].home # rows[n].away}
UsableRow(rows) == {n \in Differ(rows) : \A m \in Differ(rows) : n <= m}
High(row) == IF row.home > row.away THEN "home" ELSE "away"
ChosenSide(row, p) == IF p.which = "high" THEN High(row) ELSE Other(High(row))

Favorite2(rows, p) ==
    UNION {Hold(0, ChosenSide(rows[n], p), T5(rows[n], ChosenSide(rows[n], p)), p) :
             n \in UsableRow(rows)}

\* The stored price is the trailing side's; the other one has the complement.
InGamePrice(s, side) == IF s.trailing = side THEN s.entry0 ELSE 100 - s.entry0

InGame(hs, rows, p) ==
    SplitByGame(
      UNION {UNION {Hold(s.at, ChosenSide(rows[n], p),
                         InGamePrice(s, ChosenSide(rows[n], p)), p) :
                      s \in {s \in Spots(hs) : ~s.stale}} : n \in UsableRow(rows)}, p)

-----------------------------------------------------------------------------
\* bottom8history._mid: tied when the away side finished batting.
TiedAt(n) == n \in DOMAIN AwayLine /\ RunsUpto(AwayLine, n) = RunsUpto(HomeLine, n - 1)

\* bottom8_prices: the home price at that break, if the game was recorded.
BreakPrice(hs, n) == {s \in Spots(hs) : s.inning = n /\ s.next = "bottom" /\ s.deficit = 0}

\* The winner is the one of the final score.
Bottom8(hs, p) ==
    IF ~TiedAt(p.inning) THEN {}
    ELSE {Bet(s.at, p.side, SidePrice(p.side, s.entry0), p, ended.winner) : s \in BreakPrice(hs, p.inning)}

-----------------------------------------------------------------------------
\* run_fairvalue: the trailing side, when it costs less than its history says.
Entries(hs, p) ==
    {s \in Spots(hs) : /\ s.deficit >= 1 /\ s.inning <= p.inning /\ OnSide(s, p)
                       /\ ~s.stale /\ s.entry0 <= p.fair - p.discount}
HoldResults(hs, p) == UNION {Hold(s.at, s.trailing, s.entry0, p) : s \in Entries(hs, p)}
BounceResults(hs, p) == {PathTrade(s, [p EXCEPT !.giveUp = "horizon"]) : s \in Entries(hs, p)}

\* Every entry is listed with both exits; the saved one makes the headline.
FairValue(hs, p) ==
    SplitByGame(IF p.exit = "hold" THEN HoldResults(hs, p) ELSE BounceResults(hs, p), p)

Trades(hs, rows, p) ==
    CASE p.kind = "checklist" -> Checklist(hs, p)
      [] p.kind = "comeback" -> Comeback(hs, p)
      [] p.kind = "favorite" -> Favorite(rows, p)
      [] p.kind = "favorite2" -> Favorite2(rows, p)
      [] p.kind = "bottom8" -> Bottom8(hs, p)
      [] p.kind = "fairvalue" -> FairValue(hs, p)

RunInit == GameInit /\ report = NoReport

\* run
Run ==
    /\ ended # Playing /\ report = NoReport
    /\ \E p \in Setting, rows \in Verdicts :
          /\ p.kind \in {"favorite", "favorite2"} \/ rows = <<>>
          /\ report' = [kind |-> p.kind, params |-> p, rows |-> rows,
                        trades |-> Trades(halves, rows, p),
                        inGame |-> IF p.kind = "favorite2" THEN InGame(halves, rows, p) ELSE {}]
    /\ UNCHANGED <<halves, ended>>

RunNext == Run \/ (UNCHANGED report /\ (PlayHalf \/ EndGame))
RunSpec == RunInit /\ [][RunNext]_runVars

-----------------------------------------------------------------------------
RunTypeOK ==
    /\ halves \in Seq([runs : Runs, ticks : Ticks])
    /\ ended \in [winner : {"nobody", "home", "away"}, pinned : BOOLEAN]
    /\ report # NoReport =>
          /\ report.kind \in Kinds /\ report.params \in Setting /\ report.rows \in Verdicts
          /\ \A r \in report.trades \cup report.inGame :
                /\ r.entry \in 1..99 /\ r.exit \in 0..100 /\ r.pnl \in Int
                /\ r.at \in Nat /\ r.hold \in 0..6 /\ r.of \in Nat \ {0}

\* Trades that are sold again during the game, before a split.
SpotTrades(hs, p) ==
    CASE p.kind = "checklist" -> Checklist(hs, p)
      [] p.kind = "comeback" -> Comeback(hs, p)
      [] p.kind = "fairvalue" -> BounceResults(hs, p)
      [] OTHER -> {}

\* engine._trade: "did it touch entry+target within N halves is a lookup".  What
\* a trade is, wins and pays is settled when it is over: a game cut off there,
\* or at the horizon of the run, has the same trade.
NoLookAhead == report # NoReport =>
    LET p == report.params
        Cut(r) == SubSeq(halves, 1, Least(Len(halves), r.at + Least(r.hold, Horizon(p))))
    IN \A r \in SpotTrades(halves, p) : r \in SpotTrades(Cut(r), p)

Flip(p) == [p EXCEPT !.side = IF @ = "home" THEN "away" ELSE "home",
                     !.which = IF @ = "high" THEN "low" ELSE "high"]

\* run_bottom8 and run_favorite2 price one side of a game by the other's: whoever
\* had backed both sides at the same moments never came out ahead.
NoFreeMoney == report.kind \in {"bottom8", "favorite2"} =>
    LET p == report.params
    IN /\ Pnl(report.trades) + Pnl(Trades(halves, report.rows, Flip(p))) <= 0
       /\ report.kind = "favorite2" =>
             Pnl(report.inGame) + Pnl(InGame(halves, report.rows, Flip(p))) <= 0

\* What was gained, times the shares it is split into, lies between two results.
Within(trades, whole) == trades # {} =>
    \E r, q \in whole : \A t \in trades : t.of * r.pnl <= Pnl(trades) /\ Pnl(trades) <= t.of * q.pnl

\* engine._split_by_game: with the split on, a game that fired many times gains
\* or loses no more than the best or the worst of its entries would alone.
OneStakePerGame ==
    (report # NoReport /\ report.kind \in {"fairvalue", "favorite2"} /\ report.params.perGame) =>
    LET whole == [report.params EXCEPT !.perGame = FALSE]
    IN /\ Within(report.trades, Trades(halves, report.rows, whole))
       /\ Within(report.inGame, InGame(halves, report.rows, whole))

\* engine.py: "the stored path is the mid-price maximum between entry and each of
\* the next six half-inning boundaries".  The maximum runs from the end of the
\* half-inning, whatever the delay of the entry: a price that was gone before a
\* delayed fill counts as its exit.
ExitsFollowEntry == report # NoReport =>
    LET p == report.params
        tick(i) == halves[i].ticks
        AfterFill(r) == Quoted({tick(r.at).later, tick(r.at + 1).now})
                          \cup (IF p.delay THEN {} ELSE Quoted({tick(r.at).soon}))
                          \cup PathPrices(halves, r.at + 1, r.hold - 1)
    IN \A r \in {r \in SpotTrades(halves, p) : r.win} :
          \E q \in AfterFill(r) : SidePrice(r.side, q) >= r.exit

\* engine.py: stale entries "are excluded everywhere".  The break prices of the
\* bottom-8 replay are not checked for it.
StaleEntriesExcluded == report.kind = "bottom8" =>
    \A r \in report.trades : ~SpotAt(halves, r.at).stale
=============================================================================
