------------------------------ MODULE DbSession ------------------------------
(***************************************************************************)
(* db.get_db: one SQLite connection per thread, shared by nested           *)
(* `with get_db()` blocks through a thread-local depth, and the one        *)
(* generator that stays suspended inside such a block, db.iter_ticks,      *)
(* which /markets/{id}/export.csv streams.                                 *)
(*                                                                         *)
(* Between two chunks the generator holds its block open while its thread  *)
(* goes back to the pool and serves other requests; the next chunk is      *)
(* produced by whichever worker is free.  A sqlite3 connection used on     *)
(* another thread raises ProgrammingError, on the cursor and then again on *)
(* rollback(); the `finally` then writes the depth it saved into the       *)
(* thread-local of the thread it happens to run on.  A download that its   *)
(* client abandons is closed the same way by the event loop.               *)
(*                                                                         *)
(* Abstractions: a write is a name; a statement that finds the database    *)
(* locked for busy_timeout raises like any other error (Fail); a thread    *)
(* keeps its identity, and one that dies owns no suspended download.       *)
(***************************************************************************)
EXTENDS Naturals, Sequences, FiniteSets

CONSTANTS
    Worker,    \* the anyio worker threads that run plain `def` handlers
    Loop,      \* the event loop's thread: collector, async handlers
    Write,     \* names of writes
    Export,    \* concurrent CSV downloads
    MaxNest,   \* bound on nested get_db blocks in one call
    MaxDepth,  \* bound on a thread's depth
    None       \* no download, no transaction

ASSUME LoopAssumption == Loop \notin Worker
ASSUME MaxNestAssumption == MaxNest \in Nat \ {0}
ASSUME MaxDepthAssumption == MaxDepth \in Nat \ {0}
ASSUME NoneAssumption ==
    /\ \A S \in SUBSET Write : S # None
    /\ None \notin [owner : Worker, saved : 0..MaxDepth]

Thread == Worker \cup {Loop}

VARIABLES
    depth,      \* _local.depth of each thread
    frames,     \* per thread: the `depth` each open get_db block of its current call saved
    pending,    \* per thread: writes of its connection that are not committed
    committed,  \* writes in the database file
    export,     \* suspended iter_ticks generators: the thread they opened on, the depth saved
    strayed     \* history: threads a download left, or ended on, out of its turn

vars == <<depth, frames, pending, committed, export, strayed>>

Init ==
    /\ depth = [t \in Thread |-> 0]
    /\ frames = [t \in Thread |-> << >>]
    /\ pending = [t \in Thread |-> {}]
    /\ committed = {}
    /\ export = [e \in Export |-> None]
    /\ strayed = {}

Between(t) == frames[t] = << >>   \* t is between two calls

\* What leaving a block that saved depth d does on success: only the outermost commits.
CommitAt(t, d) ==
    IF d = 0
      THEN /\ committed' = committed \cup pending[t]
           /\ pending' = [pending EXCEPT ![t] = {}]
      ELSE UNCHANGED <<committed, pending>>

Enter(t) ==
    /\ Len(frames[t]) < MaxNest
    /\ depth[t] < MaxDepth
    /\ frames' = [frames EXCEPT ![t] = Append(@, depth[t])]
    /\ depth' = [depth EXCEPT ![t] = @ + 1]
    /\ UNCHANGED <<pending, committed, export, strayed>>

\* A statement inside a block.  SQLite has one writer: it waits for the others.
Put(t, w) ==
    /\ ~ Between(t)
    /\ \A u \in Thread \ {t} : pending[u] = {}
    /\ w \notin committed
    /\ pending' = [pending EXCEPT ![t] = @ \cup {w}]
    /\ UNCHANGED <<depth, frames, committed, export, strayed>>

Saved(t) == frames[t][Len(frames[t])]
Pop(t) == frames' = [frames EXCEPT ![t] = SubSeq(@, 1, Len(@) - 1)]

\* A mutant of Leave: every block commits, nested ones too.
LeaveCommittingAlways(t) ==
    /\ ~ Between(t)
    /\ CommitAt(t, 0)
    /\ depth' = [depth EXCEPT ![t] = Saved(t)]
    /\ Pop(t)
    /\ UNCHANGED <<export, strayed>>

Leave(t) ==
    /\ ~ Between(t)
    /\ CommitAt(t, Saved(t))
    /\ depth' = [depth EXCEPT ![t] = Saved(t)]
    /\ Pop(t)
    /\ UNCHANGED <<export, strayed>>

\* A mutant of Fail: the depth is restored on success only.
FailKeepingDepth(t) ==
    /\ ~ Between(t)
    /\ pending' = IF Saved(t) = 0 THEN [pending EXCEPT ![t] = {}] ELSE pending
    /\ Pop(t)
    /\ UNCHANGED <<depth, committed, export, strayed>>

\* An exception leaves the block; a caller's block may catch it or fail in turn.
Fail(t) ==
    /\ ~ Between(t)
    /\ pending' = IF Saved(t) = 0 THEN [pending EXCEPT ![t] = {}] ELSE pending
    /\ depth' = [depth EXCEPT ![t] = Saved(t)]
    /\ Pop(t)
    /\ UNCHANGED <<committed, export, strayed>>

\* The first chunk: iter_ticks opens its block on t and is suspended inside it.
ExportOpen(e, t) ==
    /\ export[e] = None
    /\ Between(t)
    /\ depth[t] < MaxDepth
    /\ export' = [export EXCEPT ![e] = [owner |-> t, saved |-> depth[t]]]
    /\ depth' = [depth EXCEPT ![t] = @ + 1]
    /\ UNCHANGED <<frames, pending, committed, strayed>>

\* The last chunk is produced by the thread the generator started on.  Two downloads that
\* share a thread may finish in the order they began, which is not how blocks nest.
ExportFinish(e) ==
    /\ export[e] # None
    /\ LET t == export[e].owner IN
         /\ Between(t)
         /\ CommitAt(t, export[e].saved)
         /\ depth' = [depth EXCEPT ![t] = export[e].saved]
         /\ strayed' = IF depth[t] = export[e].saved + 1 THEN strayed ELSE strayed \cup {t}
    /\ export' = [export EXCEPT ![e] = None]
    /\ UNCHANGED frames

\* A mutant of EndElsewhere: the depth is counted down instead of restored.
EndElsewhereCountingDown(e, t) ==
    /\ export[e] # None
    /\ t # export[e].owner
    /\ Between(t)
    /\ depth' = [depth EXCEPT ![t] = @ - 1]
    /\ export' = [export EXCEPT ![e] = None]
    /\ strayed' = strayed \cup {t, export[e].owner}
    /\ UNCHANGED <<frames, pending, committed>>

\* The generator ends on thread t, which is not the one its connection belongs to:
\* nothing is committed or rolled back, and t's depth is the one overwritten.
EndElsewhere(e, t) ==
    /\ export[e] # None
    /\ t # export[e].owner
    /\ Between(t)
    /\ depth' = [depth EXCEPT ![t] = export[e].saved]
    /\ export' = [export EXCEPT ![e] = None]
    /\ strayed' = strayed \cup {t, export[e].owner}
    /\ UNCHANGED <<frames, pending, committed>>

ExportHop(e) == \E t \in Worker : EndElsewhere(e, t)   \* the next chunk runs on another worker
ExportDrop(e) == EndElsewhere(e, Loop)                 \* the client goes away

\* anyio retires an idle worker: its connection and thread-locals go, a new thread starts.
WorkerExit(t) ==
    /\ Between(t)
    /\ \A e \in Export : export[e] # None => export[e].owner # t
    /\ depth' = [depth EXCEPT ![t] = 0]
    /\ pending' = [pending EXCEPT ![t] = {}]
    /\ strayed' = strayed \ {t}
    /\ UNCHANGED <<frames, committed, export>>

Restart ==
    /\ depth' = [t \in Thread |-> 0]
    /\ frames' = [t \in Thread |-> << >>]
    /\ pending' = [t \in Thread |-> {}]
    /\ export' = [e \in Export |-> None]
    /\ strayed' = {}
    /\ UNCHANGED committed

Call == \E t \in Thread : Enter(t) \/ Leave(t) \/ Fail(t) \/ \E w \in Write : Put(t, w)

Download ==
    \E e \in Export : \/ \E t \in Worker : ExportOpen(e, t)
                      \/ ExportFinish(e) \/ ExportHop(e) \/ ExportDrop(e)

Next == Call \/ Download \/ (\E t \in Worker : WorkerExit(t)) \/ Restart

Spec == Init /\ [][Next]_vars

-----------------------------------------------------------------------------
TypeOK ==
    /\ depth \in [Thread -> 0..MaxDepth]
    /\ frames \in [Thread -> Seq(0..MaxDepth)]
    /\ pending \in [Thread -> SUBSET Write]
    /\ committed \subseteq Write
    /\ export \in [Export -> {None} \cup [owner : Worker, saved : 0..MaxDepth]]
    /\ strayed \subseteq Thread

Hosts(t) == \E e \in Export : export[e] # None /\ export[e].owner = t

\* The damage of a download is confined: a thread that hosts none and that none has left
\* or ended on has nothing uncommitted, and the right depth, whenever it is between calls.
OthersCommit ==
    \A t \in Thread : Between(t) /\ ~ Hosts(t) /\ t \notin strayed
                        => pending[t] = {} /\ depth[t] = 0

\* The transactions of a process without downloads: a thread has one while it is in a call.
Txn == INSTANCE Transactions WITH
    Closed <- None,
    open <- [t \in Thread |-> IF Between(t) THEN None ELSE pending[t]],
    durable <- committed

Sound == strayed = {} /\ \A e \in Export : export[e] = None

\* Nested blocks implement the transactions get_db promises ("commits on success, rolls
\* back on error"): as long as no download is open or has gone astray, every step is one of
\* Transactions, and the inner blocks neither commit nor roll back.
ImplementsTransactions ==
    /\ Txn!Init
    /\ [][Sound /\ Sound' => Txn!Next \/ UNCHANGED Txn!tvars]_vars

\* "A WAL-mode connection that commits on success" (db.get_db): the collector's own writes
\* are committed when its block ends, since downloads do not run on the event loop's thread.
CollectorCommits == Between(Loop) => pending[Loop] = {}
=============================================================================
