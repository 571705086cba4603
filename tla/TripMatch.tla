---------------------------- MODULE TripMatch ----------------------------
(***************************************************************************)
(* traders/engine.py, and _assign_fees of traders/service.py: pure         *)
(* functions of what was stored.                                           *)
(*                                                                         *)
(* match folds the fills of an account, oldest first, into round trips per *)
(* asset at average cost; what is left of an asset whose market is known   *)
(* to be resolved closes at its final price.  Sizes are counted in units   *)
(* of EPS, so that dust is one unit, prices and fees are integers.         *)
(*                                                                         *)
(* _assign_fees shares the cash fee of one side of one transaction among   *)
(* its fills.  Prices are quarters of a dollar there.                      *)
(*                                                                         *)
(* The inputs grow by one fill at a time; titles, times and the averages   *)
(* shown beside a trip are left out.                                       *)
(***************************************************************************)
EXTENDS Integers, Sequences, FiniteSets, SequencesExt

CONSTANTS Asset, Size, Price, FillFee,  \* what a fill of the tape can be
          MaxTape,   \* bound on the fills that are matched
          CashFee,   \* fees of a row of the activity feed
          Rate,      \* of the fee schedule
          MaxLegs    \* bound on the fills of a transaction

ASSUME TapeAssumption ==
    MaxTape \in Nat /\ Size \subseteq Nat \ {0} /\ Price \subseteq Nat /\ FillFee \subseteq Nat
ASSUME LegsAssumption == MaxLegs \in Nat /\ CashFee \subseteq Nat /\ Rate \in Nat

VARIABLES tape,  \* the fills of an account, in time order
          legs   \* the fills of one side of a transaction, as the feed lists them

matchVars == <<tape, legs>>

Tape == [asset : Asset, side : {"BUY", "SELL"}, size : Size, price : Price, fee : FillFee]
Leg == [size : Size, price : 1..3]

MatchInit == tape = <<>> /\ legs = <<>>

AddFill == /\ legs = <<>> /\ Len(tape) < MaxTape
           /\ \E f \in Tape : tape' = Append(tape, f)
           /\ UNCHANGED legs

AddLeg == /\ tape = <<>> /\ Len(legs) < MaxLegs
          /\ \E f \in Leg : legs' = Append(legs, f)
          /\ UNCHANGED tape

MatchNext == AddFill \/ AddLeg
MatchSpec == MatchInit /\ [][MatchNext]_matchVars

-----------------------------------------------------------------------------
Eps == 1
NewTrip(a) == [asset |-> a, bought |-> 0, cost |-> 0, sold |-> 0, proceeds |-> 0,
               fees |-> 0, fills |-> 0]
Left(t) == t.bought - t.sold
Net(t) == t.proceeds - t.cost - t.fees

\* open: the trip of each asset that has one; closed: the trips that ended.
NoTrips == [open |-> [a \in {} |-> NewTrip(a)], closed |-> <<>>]
IsOpen(m, a) == a \in DOMAIN m.open
Put(m, t) == [m EXCEPT !.open = [a \in DOMAIN @ \cup {t.asset} |-> IF a = t.asset THEN t ELSE @[a]]]
Close(m, t) == [open |-> [a \in DOMAIN m.open \ {t.asset} |-> m.open[a]],
                closed |-> Append(m.closed, t)]

Buy(m, f) ==
    LET t == IF IsOpen(m, f.asset) THEN m.open[f.asset] ELSE NewTrip(f.asset)
    IN Put(m, [t EXCEPT !.bought = @ + f.size, !.cost = @ + f.size * f.price,
                        !.fees = @ + f.fee, !.fills = @ + 1])

Sold(t, f) == [t EXCEPT !.sold = @ + f.size, !.proceeds = @ + f.size * f.price,
                        !.fees = @ + f.fee, !.fills = @ + 1]

\* Mutant of Sell.
SellLosesFee(m, f) ==
    LET t == [Sold(m.open[f.asset], f) EXCEPT !.fees = @ - f.fee]
    IN IF ~IsOpen(m, f.asset) THEN m
       ELSE IF Left(t) <= Eps THEN Close(m, t) ELSE Put(m, t)

\* A sale of shares that were bought before the oldest fill kept is skipped.
Sell(m, f) ==
    LET t == Sold(m.open[f.asset], f)
    IN IF ~IsOpen(m, f.asset) THEN m
       ELSE IF Left(t) <= Eps THEN Close(m, t) ELSE Put(m, t)

Take(m, f) == IF f.side = "BUY" THEN Buy(m, f) ELSE Sell(m, f)

Trips(fills) == FoldLeft(Take, NoTrips, fills)

Settle(t, final) ==
    IF Left(t) > 0 THEN [t EXCEPT !.proceeds = @ + Left(t) * final, !.sold = @ + Left(t)] ELSE t

\* match(fills, resolutions): what is still open in a resolved market closes.
Match(fills, final) ==
    LET m == Trips(fills)
        resolved == SetToSeq(DOMAIN m.open \cap DOMAIN final)
    IN [open |-> [a \in DOMAIN m.open \ DOMAIN final |-> m.open[a]],
        closed |-> m.closed \o
            [i \in DOMAIN resolved |-> Settle(m.open[resolved[i]], final[resolved[i]])]]

-----------------------------------------------------------------------------
Weight(l) == l.size * l.price * (4 - l.price)
Key(l) == <<l.price, l.size>>
Rounded(n, d) == (2 * n + d) \div (2 * d)
Positive(n) == IF n > 0 THEN n ELSE 0

\* The fills of the transaction that have a row of their own, and the others.
Listed(exact) == {i \in DOMAIN legs : Key(legs[i]) \in DOMAIN exact}
Aggregated(exact) == DOMAIN legs \ Listed(exact)
Total(exact) == SumFunction(exact)

\* The implied total of the transaction minus what was matched by key.
Leftover(exact) ==
    Positive(Total(exact) - SumFunction([i \in Listed(exact) |-> exact[Key(legs[i])]]))

\* fee_for of a taker: shares x rate x price x (1 - price).
ScheduleFee(l) == Rounded(Rate * Weight(l), 16)

\* exact: the fee of every row that the activity feed has for the transaction.
AssignFee(l, exact) ==
    IF exact = <<>> THEN ScheduleFee(l)
    ELSE IF Key(l) \in DOMAIN exact THEN exact[Key(l)]
    ELSE Rounded(Leftover(exact) * Weight(l),
                 SumFunction([i \in Aggregated(exact) |-> Weight(legs[i])]))

-----------------------------------------------------------------------------
MatchTypeOK == tape \in Seq(Tape) /\ legs \in Seq(Leg)

Finals == UNION {[A -> {0, 4}] : A \in SUBSET Asset}
Cash(f) == (IF f.side = "BUY" THEN -f.size * f.price ELSE f.size * f.price) - f.fee
Upto(i) == SubSeq(tape, 1, i)

\* The fills that found a position: purchases, and sales while some are held.
Counted == {i \in 1..Len(tape) :
              \/ tape[i].side = "BUY"
              \/ IsOpen(Trips(Upto(i - 1)), tape[i].asset)}

\* engine.match: the results of all trips, closed and open, are the cash of the
\* fills, fees included, and the final value of what was still held; a sale that
\* no purchase precedes counts nowhere.  "FEES are in every number".
CashAddsUp == \A final \in Finals :
    LET m == Match(tape, final)
        held == Trips(tape).open
    IN /\ SumFunction([i \in DOMAIN m.closed |-> Net(m.closed[i])])
             + SumFunction([a \in DOMAIN m.open |-> Net(m.open[a])])
            = SumFunction([i \in Counted |-> Cash(tape[i])])
              + SumFunction([a \in DOMAIN held \cap DOMAIN final |-> Positive(Left(held[a])) * final[a]])
       /\ SumFunction([i \in DOMAIN m.closed |-> m.closed[i].fills])
             + SumFunction([a \in DOMAIN m.open |-> m.open[a].fills])
            = Cardinality(Counted)

ActivityRows == UNION {[K -> CashFee] : K \in {K \in SUBSET ((1..3) \X Size) : IsFiniteSet(K)}}

\* service._assign_fees: the fees stored for a transaction never exceed what its
\* cash shows by more than the rounding of each share, however its fills are
\* aggregated, missing, or listed twice (the unique index keeps one row of them);
\* and they meet it when one fill carries the rest and none is listed twice.
FeesMeetTheCash == legs # <<>> => \A exact \in ActivityRows :
    exact # <<>> =>
    LET paid == SumFunction([l \in ToSet(legs) |-> AssignFee(l, exact)])
        slack == Cardinality(Aggregated(exact))
    IN /\ paid <= Total(exact) + slack
       /\ (IsInjective(legs) /\ Aggregated(exact) # {}) => paid >= Total(exact) - slack
=============================================================================
