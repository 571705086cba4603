---------------------------- MODULE TraderSync ----------------------------
(***************************************************************************)
(* traders/service.py and traders/dataapi.py for one account: the sync     *)
(* that copies the fills of a wallet into the store, and the matched       *)
(* trips that the page shows, computed behind a lock and kept for a few    *)
(* seconds.                                                                *)
(*                                                                         *)
(* A sync reads the taker feed, then the feed of all fills, then the cash  *)
(* that moved; it writes after the last answer, without an await.  A fill  *)
(* in the taker feed is a taker's, and its fee is what the cash shows, or  *)
(* the schedule when that request failed; a maker pays nothing.            *)
(*                                                                         *)
(* The feeds are short enough to be read whole and a fill has its own      *)
(* transaction.  Trips, redeems and resolutions are not modelled: what a   *)
(* match shows is the set of fills that it was computed from.              *)
(***************************************************************************)
EXTENDS Integers, Sequences, SequencesExt

CONSTANTS Syncer,    \* requests and the job that sync this account
          Viewer,    \* requests for summary, open and closed rows
          Taker,     \* which fills are a taker's
          MaxFills,  \* bound on the fills of the wallet
          MatchTtl,
          Latency,   \* how long the awaits of one match take at most
          LastTime   \* bound: the clock stops here

ASSUME SyncTimeAssumption ==
    /\ MaxFills \in Nat /\ Taker \subseteq 1..MaxFills
    /\ {MatchTtl, Latency, LastTime} \subseteq Nat

VARIABLES clock,
          made,      \* fills the wallet has made
          kept,      \* fills stored: role, fee and the moment
          sync,      \* what each running sync has read
          cache,     \* _match_cache of the account
          queue,     \* callers at its lock; the first one holds it
          match      \* what the holder is working on

syncVars == <<clock, made, kept, sync, cache, queue, match>>

Fill == 1..MaxFills
NoSync == [step |-> "none", taker |-> {}, every |-> {}]
NoMatch == [step |-> "none", since |-> 0, fills |-> {}]

SyncInit ==
    /\ clock = 0 /\ made = 0
    /\ kept = [f \in {} |-> [role |-> "maker", fee |-> "zero", at |-> 0]]
    /\ sync = [s \in Syncer |-> NoSync]
    /\ cache = NoMatch
    /\ queue = <<>> /\ match = NoMatch

-----------------------------------------------------------------------------
\* The throttle does not hold back a forced sync: one may begin at any time.
SyncBegin(s) ==
    /\ sync[s] = NoSync
    /\ sync' = [sync EXCEPT ![s].step = "taker"]
    /\ UNCHANGED <<clock, made, kept, cache, queue, match>>

\* fetch_fills: two paged requests, one after the other, each taken to be read at
\* one moment.
ReadTaker(s) ==
    /\ sync[s].step = "taker"
    /\ sync' = [sync EXCEPT ![s].step = "every", ![s].taker = Taker \cap 1..made]
    /\ UNCHANGED <<clock, made, kept, cache, queue, match>>

ReadEvery(s) ==
    /\ sync[s].step = "every"
    /\ sync' = [sync EXCEPT ![s].step = "fees", ![s].every = 1..made]
    /\ UNCHANGED <<clock, made, kept, cache, queue, match>>

Role(s, f) == IF f \in sync[s].taker THEN "taker" ELSE "maker"

\* _assign_fees: the exact cash if that request was answered, else fee_for.
Fee(s, f, answered) ==
    IF answered THEN "exact" ELSE IF Role(s, f) = "taker" THEN "schedule" ELSE "zero"

\* insert_fills keeps the row that is there, update_fees stamps every fee again.
SaveFills(s, answered) ==
    kept' = [f \in DOMAIN kept \cup sync[s].every |->
               IF f \notin DOMAIN kept
               THEN [role |-> Role(s, f), fee |-> Fee(s, f, answered), at |-> clock]
               ELSE IF f \in sync[s].every THEN [kept[f] EXCEPT !.fee = Fee(s, f, answered)]
               ELSE kept[f]]

SyncEnd(s) ==
    /\ sync[s].step = "fees"
    /\ \E answered \in BOOLEAN : SaveFills(s, answered)
    /\ cache' = NoMatch
    /\ sync' = [sync EXCEPT ![s] = NoSync]
    /\ UNCHANGED <<clock, made, queue, match>>

\* A feed that cannot be read ends the sync.
SyncFails(s) ==
    /\ sync[s].step \in {"taker", "every"}
    /\ sync' = [sync EXCEPT ![s] = NoSync]
    /\ UNCHANGED <<clock, made, kept, cache, queue, match>>

-----------------------------------------------------------------------------
\* Mutant of Usable.
UsableForever == cache # NoMatch

Usable == cache # NoMatch /\ clock - cache.since < MatchTtl

\* matched: a caller that finds no usable result queues at the lock.
View(v) ==
    /\ \A i \in DOMAIN queue : queue[i] # v
    /\ ~Usable
    /\ queue' = Append(queue, v)
    /\ UNCHANGED <<clock, made, kept, sync, cache, match>>

\* The holder looks again: a parallel caller may have filled the cache.
ServedByOther ==
    /\ queue # <<>> /\ match = NoMatch /\ Usable
    /\ queue' = Tail(queue)
    /\ UNCHANGED <<clock, made, kept, sync, cache, match>>

MatchBegin ==
    /\ queue # <<>> /\ match = NoMatch /\ ~Usable
    /\ match' = [NoMatch EXCEPT !.step = "positions", !.since = clock]
    /\ UNCHANGED <<clock, made, kept, sync, cache, queue>>

\* Positions and activity have arrived: the fills are read, then the
\* resolutions of what is missing from the positions are awaited.
FillsFor ==
    /\ match.step = "positions"
    /\ match' = [match EXCEPT !.step = "resolve", !.fills = DOMAIN kept]
    /\ UNCHANGED <<clock, made, kept, sync, cache, queue>>

MatchEnd ==
    /\ match.step = "resolve"
    /\ cache' = [match EXCEPT !.since = clock]
    /\ match' = NoMatch
    /\ queue' = Tail(queue)
    /\ UNCHANGED <<clock, made, kept, sync>>

\* Mutant of MatchFails.
MatchFailsHolding ==
    /\ match.step = "positions"
    /\ match' = [match EXCEPT !.step = "failed"]
    /\ UNCHANGED <<clock, made, kept, sync, cache, queue>>

\* A request that fails reaches the caller and releases the lock.
MatchFails ==
    /\ match.step = "positions"
    /\ match' = NoMatch
    /\ queue' = Tail(queue)
    /\ UNCHANGED <<clock, made, kept, sync, cache>>

-----------------------------------------------------------------------------
NewFill ==
    /\ made < MaxFills
    /\ made' = made + 1
    /\ UNCHANGED <<clock, kept, sync, cache, queue, match>>

Second ==
    /\ clock < LastTime
    /\ match # NoMatch => clock - match.since < Latency
    /\ clock' = clock + 1
    /\ UNCHANGED <<made, kept, sync, cache, queue, match>>

MatchStep == ServedByOther \/ MatchBegin \/ FillsFor \/ MatchEnd \/ MatchFails

SyncNext ==
    \/ \E s \in Syncer :
          SyncBegin(s) \/ ReadTaker(s) \/ ReadEvery(s) \/ SyncEnd(s) \/ SyncFails(s)
    \/ \E v \in Viewer : View(v)
    \/ MatchStep \/ NewFill \/ Second

SyncSpec == SyncInit /\ [][SyncNext]_syncVars /\ WF_syncVars(MatchStep)

-----------------------------------------------------------------------------
Matching == [step : {"none", "positions", "resolve"}, since : Nat, fills : SUBSET Fill]

SyncTypeOK ==
    /\ clock \in Nat /\ made \in 0..MaxFills
    /\ DOMAIN kept \subseteq Fill
    /\ \A f \in DOMAIN kept : kept[f] \in [role : {"maker", "taker"},
                                           fee : {"exact", "schedule", "zero"}, at : Nat]
    /\ sync \in [Syncer -> [step : {"none", "taker", "every", "fees"},
                            taker : SUBSET Fill, every : SUBSET Fill]]
    /\ cache \in Matching /\ match \in Matching
    /\ queue \in Seq(Viewer)

\* service.matched: a result computed before a sync may be cached after the sync
\* has emptied the cache, but what the page shows lacks no fill that was stored
\* longer ago than one match and one lifetime of the cache.
MatchIsRecent == Usable =>
    \A f \in DOMAIN kept \ cache.fills : clock - kept[f].at <= MatchTtl + Latency

\* Every caller of matched gets an answer or an error: the in-flight lock is
\* released on every path (under the fairness of the event loop, and with
\* requests that time out).
CallersAreAnswered == \A v \in Viewer :
    (\E i \in DOMAIN queue : queue[i] = v) ~> (\A i \in DOMAIN queue : queue[i] # v)

\* service.sync_account: "exact fees from the cash that actually moved; the
\* schedule is only the last resort".  One failed request for the cash makes the
\* next write replace every exact fee by the schedule's.
ExactFeesStay == [][\A f \in DOMAIN kept : kept[f].fee = "exact" => kept'[f].fee = "exact"]_syncVars
=============================================================================
