-------------------------- MODULE CollectorHistory --------------------------
(***************************************************************************)
(* Collector with two history variables, for the promise of README.md      *)
(* "Closed market detection": a market is closed after three empty polls   *)
(* in a row.  They only observe: no action of Collector reads them.        *)
(***************************************************************************)
EXTENDS Collector

VARIABLES
    empties,  \* per row: consecutive answered polls, since the row exists, without its tokens
    reused    \* ids that have been deleted at least once

hvars == <<vars, empties, reused>>

HInit == Init /\ empties = [m \in Id |-> 0] /\ reused = {}

AskedItself(i, m) == m \in DOMAIN market /\ <<m, market[m].cond>> \in polls[i]

HPollAnswer(i, quoted) ==
    /\ PollAnswer(i, quoted)
    /\ empties' = [m \in Id |->
                     IF ~ AskedItself(i, m) \/ BreaksForeignKey(LiveRows(polls[i], quoted))
                       THEN empties[m]
                     ELSE IF m \notin Absent(polls[i], quoted) THEN 0
                     ELSE IF empties[m] = CloseAfter THEN empties[m] ELSE empties[m] + 1]
    /\ UNCHANGED reused

HOther ==
    /\ \/ Request
       \/ \E m \in Id : StartCommit(m)
       \/ \E i \in Interval : PollBegin(i) \/ PollSkip(i)
       \/ Backfill
       \/ Environment
    /\ empties' = [m \in Id |-> IF m \in (DOMAIN market) \cap DOMAIN market'
                                THEN empties[m] ELSE 0]
    /\ reused' = reused \cup ((DOMAIN market) \ DOMAIN market')

HNext == HOther \/ \E i \in Interval : \E quoted \in SUBSET Quotable(i) : HPollAnswer(i, quoted)

HSpec == HInit /\ [][HNext]_hvars

Closes(m) == /\ m \in (DOMAIN market) \cap DOMAIN market'
             /\ ~ market[m].closed
             /\ market'[m].closed

\* README.md: the collector notices "three empty polls in a row".  A market whose id nobody
\* used before is closed only by that many empty polls of its own, whatever stale polls,
\* pauses, restarts and interval changes do to the counter.  (A row that takes over the id
\* of a deleted market also inherits its entry in scheduler._misses and may close early.)
FreshRowsCloseOnThirdMiss ==
    [][\A m \in Id : Closes(m) /\ m \notin reused => empties'[m] >= CloseAfter]_hvars
=============================================================================
