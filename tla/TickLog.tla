------------------------------- MODULE TickLog -------------------------------
(***************************************************************************)
(* What the tick database promises to its readers (charts, CSV export, the *)
(* ticks table), with nothing about polls, backfills or threads.           *)
(*                                                                         *)
(* Every tracked market is a log of points.  A log is opened at a moment   *)
(* `since`.  It then only grows: live points are appended at the current   *)
(* time, never before `since`; history points are filled in strictly       *)
(* before `since`; no outcome ever holds two points at one time; and only  *)
(* erasing the whole market removes anything.  This is README.md's         *)
(* "Historical backfill" / "Live polling" contract.                        *)
(***************************************************************************)
EXTENDS Naturals

CONSTANTS Id, Pos, MaxTime

Time == 0..MaxTime
Point == [pos : Pos, ts : Time, kind : {"live", "history"}]

VARIABLES now, log

\* log[m], for every market m that exists: since when it is tracked, and what it holds
IsLog(l) == /\ DOMAIN l \subseteq Id
            /\ l \in [DOMAIN l -> [since : Time, points : SUBSET Point]]

Init == now = 1 /\ log = << >>

\* A market is added: an empty log that starts now.
Open(m) ==
    /\ m \in Id \ DOMAIN log
    /\ log' = [x \in DOMAIN log \cup {m} |->
                 IF x = m THEN [since |-> now, points |-> {}] ELSE log[x]]
    /\ UNCHANGED now

FreeKeys(m, keys) == {k \in keys : ~ \E q \in log[m].points : q.pos = k[1] /\ q.ts = k[2]}
Points(keys, kind) == {[pos |-> k[1], ts |-> k[2], kind |-> kind] : k \in keys}

\* One poll cycle: any outcomes of any markets get a point at the current time.
AppendLive ==
    /\ \E batch \in SUBSET ((DOMAIN log) \X Pos) :
         log' = [m \in DOMAIN log |->
                   [log[m] EXCEPT !.points = @ \cup
                      Points(FreeKeys(m, {<<b[2], now>> : b \in {x \in batch : x[1] = m}}),
                             "live")]]
    /\ \A m \in DOMAIN log : log[m] # log'[m] => log[m].since <= now
    /\ UNCHANGED now

\* History of one outcome arrives: only points from before the market was added.
FillHistory(m, p) ==
    /\ m \in DOMAIN log
    /\ \E times \in SUBSET {t \in Time : t < log[m].since} :
         log' = [log EXCEPT ![m].points = @ \cup
                   Points(FreeKeys(m, {<<p, t>> : t \in times}), "history")]
    /\ UNCHANGED now

\* The market and everything it holds is deleted.
Erase(m) ==
    /\ m \in DOMAIN log
    /\ log' = [x \in DOMAIN log \ {m} |-> log[x]]
    /\ UNCHANGED now

Advance == now' \in Time /\ now' = now + 1 /\ UNCHANGED log

Next == \/ \E m \in Id : Open(m) \/ Erase(m) \/ \E p \in Pos : FillHistory(m, p)
        \/ AppendLive
        \/ Advance

Spec == Init /\ [][Next]_<<now, log>>
=============================================================================
