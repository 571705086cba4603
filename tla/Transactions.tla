----------------------------- MODULE Transactions -----------------------------
(***************************************************************************)
(* What db.get_db promises its callers (backend/database/db.py): a         *)
(* connection "that commits on success, rolls back on error".  A thread    *)
(* has at most one transaction; it ends with all of its writes durable or  *)
(* with none of them, and nothing becomes durable in any other way.        *)
(***************************************************************************)
CONSTANTS Thread, Write, Closed

VARIABLES
    open,     \* open[t]: the writes of t's transaction so far, Closed when it has none
    durable   \* the writes in the database file

tvars == <<open, durable>>

Init == open = [t \in Thread |-> Closed] /\ durable = {}

Begin(t) ==
    /\ open[t] = Closed
    /\ open' = [open EXCEPT ![t] = {}]
    /\ UNCHANGED durable

Put(t, w) ==
    /\ open[t] # Closed
    /\ open' = [open EXCEPT ![t] = @ \cup {w}]
    /\ UNCHANGED durable

Commit(t) ==
    /\ open[t] # Closed
    /\ durable' = durable \cup open[t]
    /\ open' = [open EXCEPT ![t] = Closed]

Abort(t) ==
    /\ open[t] # Closed
    /\ open' = [open EXCEPT ![t] = Closed]
    /\ UNCHANGED durable

\* The process dies: every transaction is aborted.
Crash == open' = [t \in Thread |-> Closed] /\ UNCHANGED durable

Next ==
    \/ \E t \in Thread : Begin(t) \/ Commit(t) \/ Abort(t) \/ \E w \in Write : Put(t, w)
    \/ Crash

Spec == Init /\ [][Next]_tvars
=============================================================================
