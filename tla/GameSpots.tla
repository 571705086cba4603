------------------------------ MODULE GameSpots ------------------------------
(***************************************************************************)
(* The raw material of the backtest: backtest/replay.py, which keeps the   *)
(* ends of a game's half-innings as spots, each with the prices that       *)
(* followed it, and the fair-value table of backtest/store.py, which counts*)
(* the same moments in the line scores of wehistory.py.                    *)
(*                                                                         *)
(* One game is played half by half.  The market quotes the home side; the  *)
(* away side has the complement.  A half-inning ends at a moment with a    *)
(* price, or a silent one; `soon' is quoted before the delayed entry of    *)
(* entry15, entry30 or entry60, `later' at that entry.                     *)
(* Pitchers, batting order and hits are not modelled here.                 *)
(***************************************************************************)
EXTENDS Integers, Sequences, FiniteSets, FiniteSetsExt, SequencesExt

CONSTANTS Runs,              \* what a half-inning may bring
          Ticks,             \* prices [now, soon, later] at the end of one
          LastHalf,          \* bound: half-innings of a game
          Regulation,        \* innings of a full game
          PathHalves,        \* PATH_HALVES
          WideNet, TiedNet,  \* WIDE_NET_CENTS and the net of a tied moment
          MaxDeficitStored   \* MAX_DEFICIT_STORED

ASSUME RunsAssumption == Runs \subseteq Nat
ASSUME TickAssumption == Ticks \subseteq [now : 0..99, soon : 0..99, later : 1..99]
ASSUME LengthAssumption == PathHalves \in Nat \ {0} /\ Regulation \in Nat /\ LastHalf \in Nat

VARIABLES halves,   \* the half-innings played: runs and ticks
          ended     \* who won, and what the last tick of the market shows

gameVars == <<halves, ended>>

Silent == 0
Playing == [winner |-> "nobody", pinned |-> FALSE]

Least(x, y) == IF x <= y THEN x ELSE y
Most(x, y) == IF x >= y THEN x ELSE y
Inning(i) == (i + 1) \div 2
NextHalf(i) == IF i % 2 = 1 THEN "bottom" ELSE "top"
Score(hs, side, i) ==
    MapThenSumSet(LAMBDA j : hs[j].runs,
                  {j \in 1..i : j % 2 = (IF side = "away" THEN 1 ELSE 0)})
Gap(hs, i) == Score(hs, "away", i) - Score(hs, "home", i)
Dist(n) == IF n < 0 THEN -n ELSE n

\* A tied moment is kept as the home side's.
Trailing(hs, i) == IF Gap(hs, i) >= 0 THEN "home" ELSE "away"
Other(side) == IF side = "home" THEN "away" ELSE "home"
SidePrice(side, p) == IF side = "home" THEN p ELSE 100 - p

-----------------------------------------------------------------------------
GameInit == halves = <<>> /\ ended = Playing

IsOver(i) ==
    /\ i > 0 /\ Inning(i) >= Regulation
    /\ IF NextHalf(i) = "bottom" THEN Gap(halves, i) < 0 ELSE Gap(halves, i) # 0

PlayHalf ==
    /\ ended = Playing /\ Len(halves) < LastHalf /\ ~IsOver(Len(halves))
    /\ \E r \in Runs, t \in Ticks : halves' = Append(halves, [runs |-> r, ticks |-> t])
    /\ UNCHANGED ended

\* By the rules or called early; the market's last tick is pinned near 100 or 0,
\* unless the collector stopped before.
EndGame ==
    /\ ended = Playing /\ halves # <<>> /\ Gap(halves, Len(halves)) # 0
    /\ \E pinned \in BOOLEAN :
          ended' = [winner |-> Other(Trailing(halves, Len(halves))), pinned |-> pinned]
    /\ UNCHANGED halves

\* home_settlements
Settlement == IF ended.pinned THEN ended.winner ELSE "unknown"

-----------------------------------------------------------------------------
\* tick_at: the first tick at or after the end of a half-inning.
First(t) == IF t.now # Silent THEN t.now ELSE t.later
Quoted(ps) == ps \ {Silent}
After(t) == Quoted({t.soon, t.later})

\* max_between: what is quoted after one boundary, up to the k-th next one.
PathPrices(hs, i, k) ==
    (UNION {Quoted({hs[j].ticks.now}) : j \in (i + 1)..(i + k)})
      \cup (UNION {After(hs[j].ticks) : j \in i..(i + k - 1)})

SpotAt(hs, i) ==
    LET side == Trailing(hs, i)
        t == hs[i].ticks
    IN [at |-> i, inning |-> Inning(i), next |-> NextHalf(i), trailing |-> side,
        deficit |-> Dist(Gap(hs, i)),
        left |-> Regulation - Inning(i) + (IF NextHalf(i) = "top" THEN 1 ELSE 0),
        entry0 |-> SidePrice(side, First(t)), delayed |-> SidePrice(side, t.later),
        stale |-> t.now = Silent,
        path |-> [k \in {k \in 1..PathHalves : i + k <= Len(hs)} |->
                     [max |-> Max({SidePrice(side, p) : p \in PathPrices(hs, i, k)}),
                      at |-> SidePrice(side, First(hs[i + k].ticks))]]]

InTheNet(s) ==
    /\ s.deficit <= MaxDeficitStored
    /\ s.entry0 <= (IF s.deficit = 0 THEN TiedNet ELSE WideNet)

\* build_spots: after the final half there is no trade.
Spots(hs) == {s \in {SpotAt(hs, i) : i \in 1..(Len(hs) - 1)} : InTheNet(s)}

-----------------------------------------------------------------------------
\* wehistory._line: runs per inning; a half the home side did not bat is absent.
AwayLine == [n \in 1..Inning(Len(halves)) |-> halves[2 * n - 1].runs]
HomeLine == [n \in 1..(Len(halves) \div 2) |-> halves[2 * n].runs]
RunsUpto(line, n) == FoldLeft(LAMBDA x, y : x + y, 0, SubSeq(line, 1, n))

FairRow(n, next, a, h) ==
    [inning |-> n, next |-> next, deficit |-> Dist(a - h),
     trailing |-> IF h < a THEN "home" ELSE "away",
     won |-> (h < a) = (ended.winner = "home")]

\* Mutant of AfterTop.
AfterTopOfWholeInnings(n) ==
    FairRow(n, "bottom", RunsUpto(AwayLine, n), RunsUpto(HomeLine, Least(n, Len(HomeLine))))

\* After the top of an inning the home side has batted one time less.
AfterTop(n) == FairRow(n, "bottom", RunsUpto(AwayLine, n), RunsUpto(HomeLine, n - 1))
AfterBottom(n) == FairRow(n, "top", RunsUpto(AwayLine, n), RunsUpto(HomeLine, n))

\* fair_table: the moments of a finished game it counts.
FairRows ==
    {r \in {AfterTop(n) : n \in 1..Least(Len(AwayLine), Regulation)}
             \cup {AfterBottom(n) : n \in 1..Least(Len(HomeLine), Regulation)} :
       r.deficit # 0}
StateKey(x) == <<x.inning, x.next, x.deficit, x.trailing>>

\* store.fair_table: "the SAME state key the spots table uses".  Two programs
\* derive the moments of a game, one from its plays and one from its line score;
\* every spot of a trailing side finds its own game counted once, under its key
\* and as the result it had, and nothing is counted that was not a moment of it.
FairCountsTheSpot == ended # Playing =>
    /\ \A s \in Spots(halves) : (s.deficit > 0 /\ s.inning <= Regulation) =>
          {r.won : r \in {r \in FairRows : StateKey(r) = StateKey(s)}} = {s.trailing = ended.winner}
    /\ \A r \in FairRows : \E i \in 1..Len(halves) : StateKey(r) = StateKey(SpotAt(halves, i))
    /\ \A r, q \in FairRows : StateKey(r) = StateKey(q) => r = q
=============================================================================
