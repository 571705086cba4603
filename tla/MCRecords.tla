----------------------------- MODULE MCRecords -----------------------------
(***************************************************************************)
(* What the backend keeps: the season tables, the games of the backtest,   *)
(* the traders' accounts, fills and trips, the users and their passwords,  *)
(* and the replay of the recorded games.                                  *)
(* These parts share no state, so a behaviour runs one of them, chosen at  *)
(* the start, and the others stay as they began.                           *)
(***************************************************************************)
EXTENDS SeasonSweep, GameBackfill, TraderAccounts, TraderSync, TripMatch, Accounts,
        PasswordResets, BacktestRun, TLC

CONSTANTS g1, g2, g3, m1, m2, wa, wb, ua, ub, s1, v1, v2, x1, x2, na, nb, i1, i2
VARIABLE part

Games == {g1, g2, g3}
GameDays == g1 :> 1 @@ g2 :> 1 @@ g3 :> 2
Markets == {m1, m2}
Slugs == m1 :> 1 @@ m2 :> 2
Wallets == {wa, wb}
Users == {ua, ub}
Syncers == {s1}
Viewers == {v1, v2}
Takers == {1}
Assets == {x1, x2}
Names == {na, nb}
Invites == {i1, i2}

\* Replay: three kinds of boundary, nine settings, verdicts with and without a
\* second row.
Tick(a, b, c) == [now |-> a, soon |-> b, later |-> c]
GameTicks == {Tick(30, 60, 30), Tick(60, 30, 60), Tick(0, 0, 60)}
Plain == [kind |-> "checklist", delay |-> FALSE, horizon |-> 1, target |-> 20,
          giveUp |-> "horizon", slip |-> 1, fee |-> "taker_both", side |-> "both", inning |-> 0,
          floor |-> 5, bound |-> 100, bar |-> 0, factors |-> [lead |-> "full", park |-> "unknown"],
          fair |-> 80, discount |-> 5, exit |-> "hold", perGame |-> FALSE, which |-> "high"]
Settings == { Plain,
   [Plain EXCEPT !.delay = TRUE, !.horizon = 2, !.giveUp = "stake", !.bar = 300,
                 !.side = "home", !.fee = "maker_exit"],
   [Plain EXCEPT !.kind = "comeback", !.horizon = 3, !.inning = 1],
   [Plain EXCEPT !.kind = "favorite", !.floor = 30, !.bar = 75],
   [Plain EXCEPT !.kind = "favorite2", !.perGame = TRUE],
   [Plain EXCEPT !.kind = "favorite2", !.which = "low", !.fee = "maker_both", !.slip = 0],
   [Plain EXCEPT !.kind = "bottom8", !.side = "home", !.inning = 1],
   [Plain EXCEPT !.kind = "fairvalue", !.perGame = TRUE, !.inning = 2],
   [Plain EXCEPT !.kind = "fairvalue", !.perGame = TRUE, !.inning = 2, !.exit = "bounce",
                 !.delay = TRUE] }
V(s, h, a, p, b) == [source |-> s, home |-> h, away |-> a, barred |-> b, price |-> p]
GameVerdicts == { <<>>, <<V("locked", 80, 60, 65, {}), V("reconstructed", 80, 61, 60, {})>>,
                  <<V("reconstructed", 76, 77, 60, {"away"})>> }

recordsVars == <<part, sweepVars, fillVars, acctVars, syncVars, matchVars, authVars, resetVars,
                 runVars>>

RecordsInit ==
    /\ part \in {"season", "games", "traders", "sync", "trips", "users", "passwords",
                "replay"}
    /\ SweepInit /\ FillInit /\ AcctInit /\ SyncInit /\ MatchInit /\ AuthInit /\ ResetInit
    /\ RunInit
    /\ part # "traders" => table = Absent

RecordsNext ==
    /\ UNCHANGED part
    /\ \/ /\ part = "season" /\ SweepNext
          /\ UNCHANGED <<fillVars, acctVars, syncVars, matchVars, authVars, resetVars, runVars>>
       \/ /\ part = "games" /\ FillNext
          /\ UNCHANGED <<sweepVars, acctVars, syncVars, matchVars, authVars, resetVars, runVars>>
       \/ /\ part = "traders" /\ AcctNext
          /\ UNCHANGED <<sweepVars, fillVars, syncVars, matchVars, authVars, resetVars, runVars>>
       \/ /\ part = "sync" /\ SyncNext
          /\ UNCHANGED <<sweepVars, fillVars, acctVars, matchVars, authVars, resetVars, runVars>>
       \/ /\ part = "trips" /\ MatchNext
          /\ UNCHANGED <<sweepVars, fillVars, acctVars, syncVars, authVars, resetVars, runVars>>
       \/ /\ part = "users" /\ AuthNext
          /\ UNCHANGED <<sweepVars, fillVars, acctVars, syncVars, matchVars, resetVars, runVars>>
       \/ /\ part = "passwords" /\ ResetNext
          /\ UNCHANGED <<sweepVars, fillVars, acctVars, syncVars, matchVars, authVars, runVars>>
       \/ /\ part = "replay" /\ RunNext
          /\ UNCHANGED <<sweepVars, fillVars, acctVars, syncVars, matchVars, authVars, resetVars>>

RecordsSpec == RecordsInit /\ [][RecordsNext]_recordsVars

\* Two games of one day, wallets, people and viewers are interchangeable, and only
\* one part moves: one permutation that exchanges them all stands for each.
Exchange == g1 :> g2 @@ g2 :> g1 @@ wa :> wb @@ wb :> wa @@ ua :> ub @@ ub :> ua
                @@ v1 :> v2 @@ v2 :> v1 @@ na :> nb @@ nb :> na
Symmetry == {Exchange} \cup Permutations(Users) \cup Permutations(Invites)

\* Every part of the records has its types.
RecordsTypeOK ==
    /\ SweepTypeOK /\ FillTypeOK /\ AcctTypeOK /\ SyncTypeOK /\ MatchTypeOK /\ AuthTypeOK
    /\ ResetTypeOK /\ RunTypeOK

\* traders/engine.py and service.py: neither the matching of fills into trips nor
\* the shares of a transaction's fee lose or invent money.
TripsMeetTheCash == CashAddsUp /\ FeesMeetTheCash

\* backtest/engine.py: a trade knows nothing of what came after it, no side of a
\* game is sold below its complement, and a split game risks one stake.
TradesAreHonest == NoLookAhead /\ NoFreeMoney /\ OneStakePerGame
=============================================================================
