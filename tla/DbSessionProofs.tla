--------------------------- MODULE DbSessionProofs ---------------------------
(***************************************************************************)
(* Proofs about DbSession, for any threads, downloads and nesting.         *)
(***************************************************************************)
EXTENDS DbSession, SequenceTheorems, TLAPS

LEMMA LenEmpty == Len(<< >>) = 0
OBVIOUS

\* The type invariant: no interleaving of calls and downloads takes a depth below zero.
THEOREM TypeCorrect == Spec => []TypeOK
<1> USE LoopAssumption, MaxNestAssumption, MaxDepthAssumption DEF Thread
<1>1. Init => TypeOK
  BY DEF Init, TypeOK
<1>2. TypeOK /\ [Next]_vars => TypeOK'
  <2> SUFFICES ASSUME TypeOK, [Next]_vars PROVE TypeOK'
    OBVIOUS
  <2> USE DEF TypeOK
  <2>1. ASSUME NEW t \in Thread, ~ Between(t)
        PROVE  /\ Saved(t) \in 0..MaxDepth
               /\ SubSeq(frames[t], 1, Len(frames[t]) - 1) \in Seq(0..MaxDepth)
    BY <2>1, SubSeqProperties DEF Between, Saved
  <2>2. ASSUME NEW t \in Thread, Enter(t) PROVE TypeOK'
    BY <2>2, AppendProperties DEF Enter
  <2>3. ASSUME NEW t \in Thread, Leave(t) PROVE TypeOK'
    BY <2>3, <2>1 DEF Leave, CommitAt, Pop
  <2>4. ASSUME NEW t \in Thread, Fail(t) PROVE TypeOK'
    BY <2>4, <2>1 DEF Fail, Pop
  <2>5. ASSUME NEW t \in Thread, NEW w \in Write, Put(t, w) PROVE TypeOK'
    BY <2>5 DEF Put
  <2>6. ASSUME NEW e \in Export, NEW t \in Worker, ExportOpen(e, t) PROVE TypeOK'
    BY <2>6 DEF ExportOpen
  <2>7. ASSUME NEW e \in Export, ExportFinish(e) PROVE TypeOK'
    BY <2>7 DEF ExportFinish, CommitAt
  <2>8. ASSUME NEW e \in Export, NEW t \in Thread, EndElsewhere(e, t) PROVE TypeOK'
    BY <2>8 DEF EndElsewhere
  <2>9. ASSUME NEW t \in Worker, WorkerExit(t) PROVE TypeOK'
    BY <2>9 DEF WorkerExit
  <2>10. CASE Restart
    BY <2>10 DEF Restart
  <2>11. CASE UNCHANGED vars
    BY <2>11 DEF vars
  <2> QED
    BY <2>2, <2>3, <2>4, <2>5, <2>6, <2>7, <2>8, <2>9, <2>10, <2>11
       DEF Next, Call, Download, ExportHop, ExportDrop
<1> QED
  BY <1>1, <1>2, PTL DEF Spec

-----------------------------------------------------------------------------
(* The inductive invariant behind OthersCommit and ImplementsTransactions.  *)
(* On a thread nothing has strayed over, the depth counts two things: the   *)
(* downloads suspended on it, which saved 0, 1, ... in some order, and above *)
(* them the blocks of its call, which saved the values that follow.         *)

Base(t) == depth[t] - Len(frames[t])
On(t) == {e \in Export : export[e] # None /\ export[e].owner = t}

NestedOn(t) ==
    /\ Base(t) \in Nat
    /\ \A e \in On(t) : export[e].saved < Base(t)
    /\ \A n \in Nat : n < Base(t) => \E e \in On(t) : export[e].saved = n
    /\ \A e, f \in On(t) : export[e].saved = export[f].saved => e = f
    /\ \A i \in 1..Len(frames[t]) : frames[t][i] = Base(t) + i - 1
    /\ Base(t) = 0 /\ Between(t) => pending[t] = {}

Nested == \A t \in Thread \ strayed : NestedOn(t)

\* A thread whose own part of the state and whose downloads are untouched stays nested.
LEMMA NestedFrame ==
    ASSUME NEW t \in Thread, NestedOn(t), TypeOK, TypeOK',
           depth'[t] = depth[t], frames'[t] = frames[t], pending'[t] = pending[t],
           \A e \in Export : (e \in On(t) \/ e \in On(t)') => export'[e] = export[e]
    PROVE  NestedOn(t)'
<1>1. On(t)' = On(t)
  BY DEF On
<1>2. Base(t)' = Base(t) /\ Between(t)' = Between(t)
  BY DEF Base, Between
<1>3. \A e \in On(t) : export'[e] = export[e]
  BY DEF On
<1> QED
  BY <1>1, <1>2, <1>3 DEF NestedOn

LEMMA NestedStep == TypeOK /\ TypeOK' /\ Nested /\ [Next]_vars => Nested'
<1> SUFFICES ASSUME TypeOK, TypeOK', Nested, [Next]_vars PROVE Nested'
  OBVIOUS
<1> USE LoopAssumption, MaxNestAssumption, MaxDepthAssumption
<1>0. Worker \subseteq Thread /\ Loop \in Thread
  BY DEF Thread
<1>1. ASSUME NEW t \in Thread, Enter(t) PROVE Nested'
  <2> SUFFICES ASSUME NEW u \in Thread \ strayed', u = t \/ u # t PROVE NestedOn(u)'
    BY DEF Nested
  <2>1. u \notin strayed /\ NestedOn(u)
    BY <1>1 DEF Enter, Nested
  <2>2. CASE u # t
    BY <1>1, <2>1, <2>2, NestedFrame DEF Enter, TypeOK, On
  <2>3. CASE u = t
    <3>1. /\ frames'[t] = Append(frames[t], depth[t])
          /\ depth'[t] = depth[t] + 1
          /\ export' = export
      BY <1>1 DEF Enter, TypeOK
    <3>2. /\ frames[t] \in Seq(0..MaxDepth)
          /\ depth[t] \in 0..MaxDepth
      BY DEF TypeOK
    <3>3. /\ Len(frames'[t]) = Len(frames[t]) + 1
          /\ \A i \in 1..Len(frames[t]) : frames'[t][i] = frames[t][i]
          /\ frames'[t][Len(frames[t]) + 1] = depth[t]
      BY <3>1, <3>2, AppendProperties
    <3>4. Base(t)' = Base(t)
      BY <3>1, <3>2, <3>3, LenProperties DEF Base
    <3>5. On(t)' = On(t)
      BY <3>1 DEF On
    <3>6. ~ Between(t)'
      BY <3>2, <3>3, LenProperties DEF Between
    <3>7. \A i \in 1..Len(frames'[t]) : frames'[t][i] = Base(t) + i - 1
      <4> SUFFICES ASSUME NEW i \in 1..Len(frames'[t]) PROVE frames'[t][i] = Base(t) + i - 1
        OBVIOUS
      <4>1. CASE i \in 1..Len(frames[t])
        BY <4>1, <3>3, <2>1, <2>3 DEF NestedOn
      <4>2. CASE i = Len(frames[t]) + 1
        BY <4>2, <3>2, <3>3, LenProperties DEF Base
      <4> QED
        BY <4>1, <4>2, <3>2, <3>3, LenProperties
    <3> QED
      BY <2>1, <2>3, <3>1, <3>4, <3>5, <3>6, <3>7 DEF NestedOn
  <2> QED
    BY <2>2, <2>3
<1>2. ASSUME NEW t \in Thread, Leave(t) \/ Fail(t) PROVE Nested'
  <2> SUFFICES ASSUME NEW u \in Thread \ strayed', u = t \/ u # t PROVE NestedOn(u)'
    BY DEF Nested
  <2>1. u \notin strayed /\ NestedOn(u)
    BY <1>2 DEF Leave, Fail, Nested
  <2>2. CASE u # t
    BY <1>2, <2>1, <2>2, NestedFrame DEF Leave, Fail, CommitAt, Pop, TypeOK, On
  <2>3. CASE u = t
    <3> DEFINE n == Len(frames[t])
    <3>1. /\ frames[t] \in Seq(0..MaxDepth)
          /\ depth[t] \in 0..MaxDepth
          /\ frames[t] # << >>
      BY <1>2 DEF TypeOK, Leave, Fail, Between
    <3>2. n \in Nat \ {0}
      BY <3>1, EmptySeq, LenProperties
    <3>3. /\ frames'[t] = SubSeq(frames[t], 1, n - 1)
          /\ depth'[t] = frames[t][n]
          /\ export' = export
      BY <1>2 DEF Leave, Fail, Pop, Saved, TypeOK
    <3>4. /\ Len(frames'[t]) = n - 1
          /\ \A i \in 1..(n - 1) : frames'[t][i] = frames[t][i]
      BY <3>1, <3>2, <3>3, SubSeqProperties
    <3>5. frames[t][n] = Base(t) + n - 1
      BY <2>1, <2>3, <3>2 DEF NestedOn
    <3>6. Base(t) \in Nat
      BY <2>1, <2>3 DEF NestedOn
    <3>7. Base(t)' = Base(t)
      <4>1. Base(t)' = depth'[t] - Len(frames'[t])
        BY DEF Base
      <4> HIDE DEF n
      <4> QED
        BY <4>1, <3>2, <3>3, <3>4, <3>5, <3>6
    <3>8. On(t)' = On(t)
      BY <3>3 DEF On
    <3>9. Base(t) = 0 /\ Between(t)' => pending'[t] = {}
      <4> SUFFICES ASSUME Base(t) = 0, Between(t)' PROVE pending'[t] = {}
        OBVIOUS
      <4>1. n = 1
        BY <3>2, <3>4 DEF Between
      <4>2. Saved(t) = 0
        BY <4>1, <3>5 DEF Saved
      <4> QED
        BY <1>2, <4>2 DEF Leave, Fail, CommitAt, TypeOK
    <3>10. \A i \in 1..Len(frames'[t]) : frames'[t][i] = Base(t) + i - 1
      <4>1. \A i \in 1..n : frames[t][i] = Base(t) + i - 1
        BY <2>1, <2>3 DEF NestedOn
      <4> HIDE DEF n
      <4> QED
        BY <4>1, <3>2, <3>4
    <3>11. export' = export
      BY <3>3
    <3> HIDE DEF n
    <3> QED
      BY <2>1, <2>3, <3>7, <3>8, <3>9, <3>10, <3>11 DEF NestedOn
  <2> QED
    BY <2>2, <2>3
<1>3. ASSUME NEW t \in Thread, NEW w \in Write, Put(t, w) PROVE Nested'
  <2> SUFFICES ASSUME NEW u \in Thread \ strayed', u = t \/ u # t PROVE NestedOn(u)'
    BY DEF Nested
  <2>1. u \notin strayed /\ NestedOn(u)
    BY <1>3 DEF Put, Nested
  <2>2. CASE u # t
    BY <1>3, <2>1, <2>2, NestedFrame DEF Put, TypeOK, On
  <2>3. CASE u = t
    <3>1. On(t)' = On(t) /\ Base(t)' = Base(t) /\ ~ Between(t)'
      BY <1>3 DEF Put, On, Base, Between
    <3> QED
      BY <1>3, <2>1, <2>3, <3>1 DEF NestedOn, Put
  <2> QED
    BY <2>2, <2>3
<1>4. ASSUME NEW e \in Export, NEW t \in Worker, ExportOpen(e, t) PROVE Nested'
  <2> SUFFICES ASSUME NEW u \in Thread \ strayed', u = t \/ u # t PROVE NestedOn(u)'
    BY DEF Nested
  <2>1. u \notin strayed /\ NestedOn(u)
    BY <1>4 DEF ExportOpen, Nested
  <2>2. /\ export[e] = None
        /\ export' = [export EXCEPT ![e] = [owner |-> t, saved |-> depth[t]]]
        /\ depth' = [depth EXCEPT ![t] = @ + 1]
        /\ frames' = frames /\ pending' = pending
        /\ frames[t] = << >>
        /\ export'[e] # None
    BY <1>4, <1>0, NoneAssumption DEF ExportOpen, Between, TypeOK
  <2>3. CASE u # t
    BY <1>0, <2>1, <2>2, <2>3, NestedFrame DEF TypeOK, On
  <2>4. CASE u = t
    <3>1. /\ depth[t] \in Nat /\ depth'[t] = depth[t] + 1 /\ export[e] = None
          /\ export'[e] = [owner |-> t, saved |-> depth[t]]
          /\ \A f \in Export \ {e} : export'[f] = export[f]
      BY <2>2, <1>0, MaxDepthAssumption DEF TypeOK
    <3>2. Base(t) = depth[t] /\ Base(t)' = depth[t] + 1 /\ Len(frames'[t]) = 0
      BY <2>2, <3>1, LenEmpty DEF Base
    <3>3. On(t)' = On(t) \cup {e} /\ e \notin On(t)
      BY <2>2, <3>1 DEF On
    <3>4. export'[e].saved = depth[t] /\ \A f \in On(t) : export'[f].saved = export[f].saved
      BY <3>1, <3>3 DEF On
    <3>5. NestedOn(t)
      BY <2>1, <2>4
    <3>6. \A f \in On(t)' : export'[f].saved < depth[t] + 1
      <4> SUFFICES ASSUME NEW f \in On(t)' PROVE export'[f].saved < depth[t] + 1
        OBVIOUS
      <4>1. CASE f = e
        BY <4>1, <3>1, <3>4
      <4>2. CASE f \in On(t)
        <5>1. export[f].saved \in Nat
          BY <4>2, MaxDepthAssumption DEF On, TypeOK
        <5> QED
          BY <4>2, <5>1, <3>1, <3>2, <3>4, <3>5 DEF NestedOn
      <4> QED
        BY <4>1, <4>2, <3>3
    <3>7. \A n \in Nat : n < depth[t] + 1 => \E f \in On(t)' : export'[f].saved = n
      <4> SUFFICES ASSUME NEW n \in Nat, n < depth[t] + 1
                   PROVE  \E f \in On(t)' : export'[f].saved = n
        OBVIOUS
      <4>1. CASE n = depth[t]
        BY <4>1, <3>3, <3>4
      <4>2. CASE n < depth[t]
        <5>1. PICK f \in On(t) : export[f].saved = n
          BY <4>2, <3>2, <3>5 DEF NestedOn
        <5> QED
          BY <5>1, <3>3, <3>4
      <4> QED
        BY <4>1, <4>2, <3>1
    <3>8. \A f, g \in On(t)' : export'[f].saved = export'[g].saved => f = g
      <4>1. \A f \in On(t) : export[f].saved \in Nat /\ export[f].saved < depth[t]
        BY <3>2, <3>5, MaxDepthAssumption DEF NestedOn, On, TypeOK
      <4> QED
        BY <4>1, <3>1, <3>3, <3>4, <3>5 DEF NestedOn
    <3>9. ~ (Base(t)' = 0)
      BY <3>1, <3>2
    <3> QED
      BY <2>4, <3>1, <3>2, <3>6, <3>7, <3>8, <3>9 DEF NestedOn
  <2> QED
    BY <2>3, <2>4
<1>5. ASSUME NEW e \in Export, ExportFinish(e) PROVE Nested'
  <2>0. PICK t \in Thread, d \in Nat : export[e] # None /\ export[e].owner = t /\ export[e].saved = d
    BY <1>5, <1>0, MaxDepthAssumption DEF ExportFinish, TypeOK
  <2>1. /\ frames[t] = << >>
        /\ depth' = [depth EXCEPT ![t] = d]
        /\ export' = [export EXCEPT ![e] = None]
        /\ frames' = frames
    BY <1>5, <2>0 DEF ExportFinish, Between
  <2>2. strayed' = IF depth[t] = d + 1 THEN strayed ELSE strayed \cup {t}
    BY <1>5, <2>0 DEF ExportFinish
  <2>3. /\ \A u \in Thread : u # t => pending'[u] = pending[u]
        /\ d = 0 => pending'[t] = {}
    BY <1>5, <2>0 DEF ExportFinish, CommitAt, TypeOK
  <2> SUFFICES ASSUME NEW u \in Thread \ strayed', u = t \/ u # t PROVE NestedOn(u)'
    BY DEF Nested
  <2>4. u \notin strayed /\ NestedOn(u)
    BY <2>2 DEF Nested
  <2>5. CASE u # t
    <3>1. e \notin On(u)
      BY <2>0, <2>5 DEF On
    <3>2. e \notin On(u)'
      BY <2>1 DEF On, TypeOK
    <3>3. \A f \in Export : f # e => export'[f] = export[f]
      BY <2>1 DEF TypeOK
    <3>4. depth'[u] = depth[u] /\ frames'[u] = frames[u] /\ pending'[u] = pending[u]
      BY <2>1, <2>3, <2>5 DEF TypeOK
    <3> QED
      BY <2>4, <3>1, <3>2, <3>3, <3>4, NestedFrame
  <2>6. CASE u = t
    <3>1. depth[t] = d + 1
      BY <2>2, <2>6
    <3>2. depth'[t] = d
      BY <2>1 DEF TypeOK
    <3>3. Base(t) = d + 1 /\ Base(t)' = d /\ Len(frames'[t]) = 0
      BY <2>1, <3>1, <3>2, LenEmpty DEF Base
    <3>4. On(t)' = On(t) \ {e} /\ e \in On(t)
      BY <2>0, <2>1 DEF On, TypeOK
    <3>5. \A f \in On(t)' : export'[f] = export[f] /\ export[f].saved \in Nat
      BY <2>1, <3>4, MaxDepthAssumption DEF On, TypeOK
    <3>6. NestedOn(t)
      BY <2>4, <2>6
    <3>7. \A f \in On(t)' : export'[f].saved < d
      <4> SUFFICES ASSUME NEW f \in On(t)' PROVE export[f].saved < d
        BY <3>5
      <4>1. export[f].saved # d
        BY <2>0, <3>4, <3>6 DEF NestedOn
      <4>2. export[f].saved < d + 1
        BY <3>3, <3>4, <3>6 DEF NestedOn
      <4> QED
        BY <4>1, <4>2, <3>5, <2>1
    <3>8. \A n \in Nat : n < d => \E f \in On(t)' : export'[f].saved = n
      <4> SUFFICES ASSUME NEW n \in Nat, n < d PROVE \E f \in On(t)' : export'[f].saved = n
        OBVIOUS
      <4>0. n < d + 1 /\ n # d
        BY <2>1
      <4>1. PICK f \in On(t) : export[f].saved = n
        BY <4>0, <3>3, <3>6 DEF NestedOn
      <4>2. f # e
        BY <2>0, <4>0, <4>1
      <4> QED
        BY <4>1, <4>2, <3>4, <3>5
    <3>9. \A f, g \in On(t)' : export'[f].saved = export'[g].saved => f = g
      BY <3>4, <3>5, <3>6 DEF NestedOn
    <3>10. Base(t)' = 0 => pending'[t] = {}
      BY <2>3, <3>3
    <3> QED
      BY <2>1, <2>6, <3>3, <3>7, <3>8, <3>9, <3>10 DEF NestedOn
  <2> QED
    BY <2>5, <2>6
<1>6. ASSUME NEW e \in Export, NEW t \in Thread, EndElsewhere(e, t) PROVE Nested'
  <2> SUFFICES ASSUME NEW u \in Thread \ strayed' PROVE NestedOn(u)'
    BY DEF Nested
  <2>1. u \notin strayed /\ u # t /\ u # export[e].owner
    BY <1>6 DEF EndElsewhere
  <2>2. NestedOn(u)
    BY <2>1 DEF Nested
  <2>3. e \notin On(u) /\ e \notin On(u)'
    BY <1>6, <2>1 DEF EndElsewhere, On, TypeOK
  <2> QED
    BY <1>6, <2>1, <2>2, <2>3, NestedFrame DEF EndElsewhere, TypeOK
<1>7. ASSUME NEW t \in Worker, WorkerExit(t) PROVE Nested'
  <2> SUFFICES ASSUME NEW u \in Thread \ strayed', u = t \/ u # t PROVE NestedOn(u)'
    BY DEF Nested
  <2>1. CASE u # t
    <3>1. NestedOn(u)
      BY <1>7, <2>1 DEF WorkerExit, Nested
    <3> QED
      BY <1>7, <2>1, <3>1, NestedFrame DEF WorkerExit, TypeOK
  <2>2. CASE u = t
    <3>1. On(t)' = {}
      BY <1>7 DEF WorkerExit, On
    <3>2. depth'[t] = 0 /\ frames'[t] = << >> /\ pending'[t] = {}
      BY <1>7, <1>0 DEF WorkerExit, Between, TypeOK
    <3>3. Len(frames'[t]) = 0
      BY <3>2, LenEmpty
    <3>4. Base(t)' = 0
      <4>1. depth'[t] = 0
        BY <3>2
      <4> QED
        BY <4>1, <3>3 DEF Base
    <3> QED
      BY <2>2, <3>1, <3>2, <3>3, <3>4 DEF NestedOn
  <2> QED
    BY <2>1, <2>2
<1>8. CASE Restart
  <2> SUFFICES ASSUME NEW u \in Thread PROVE NestedOn(u)'
    BY DEF Nested
  <2>1. On(u)' = {}
    BY <1>8 DEF Restart, On
  <2>2. depth'[u] = 0 /\ frames'[u] = << >> /\ pending'[u] = {}
    BY <1>8 DEF Restart
  <2>3. Len(frames'[u]) = 0
    BY <2>2, LenEmpty
  <2>4. Base(u)' = 0
    <3>1. depth'[u] = 0
      BY <2>2
    <3> QED
      BY <3>1, <2>3 DEF Base
  <2> QED
    BY <2>1, <2>2, <2>3, <2>4 DEF NestedOn
<1>9. CASE UNCHANGED vars
  <2> SUFFICES ASSUME NEW u \in Thread \ strayed' PROVE NestedOn(u)'
    BY DEF Nested
  <2> QED
    BY <1>9, NestedFrame DEF vars, Nested
<1> QED
  BY <1>1, <1>2, <1>3, <1>4, <1>5, <1>6, <1>7, <1>8, <1>9, <1>0
     DEF Next, Call, Download, ExportHop, ExportDrop

LEMMA NestedCorrect == Spec => [](TypeOK /\ Nested)
<1>1. Init => Nested
  <2> SUFFICES ASSUME Init, NEW t \in Thread PROVE NestedOn(t)
    BY DEF Nested
  <2>1. On(t) = {} /\ Base(t) = 0 /\ Len(frames[t]) = 0
    BY LenEmpty DEF Init, On, Base
  <2> QED
    BY <2>1 DEF NestedOn, Init
<1>2. TypeOK /\ TypeOK' /\ Nested /\ [Next]_vars => Nested'
  BY NestedStep
<1> QED
  BY <1>1, <1>2, TypeCorrect, PTL DEF Spec

\* A thread that hosts no download, and over which none has strayed, has committed
\* everything and counts from 0 whenever it is between calls.
THEOREM OthersCommitCorrect == Spec => []OthersCommit
<1>1. TypeOK /\ Nested => OthersCommit
  <2> SUFFICES ASSUME TypeOK, Nested, NEW t \in Thread,
                      Between(t), ~ Hosts(t), t \notin strayed
               PROVE  pending[t] = {} /\ depth[t] = 0
    BY DEF OthersCommit
  <2>1. On(t) = {} /\ NestedOn(t)
    BY DEF On, Hosts, Nested
  <2>2. Base(t) = 0
    <3>1. Base(t) \in Nat /\ ~ (0 < Base(t))
      BY <2>1 DEF NestedOn
    <3> QED
      BY <3>1
  <2>3. depth[t] = 0
    BY <2>2, EmptySeq, MaxDepthAssumption DEF Base, Between, TypeOK
  <2> QED
    BY <2>1, <2>2, <2>3 DEF NestedOn
<1> QED
  BY <1>1, NestedCorrect, PTL
-----------------------------------------------------------------------------
\* While no download is open or astray, every thread counts from 0.
LEMMA SoundCountsFromZero ==
    ASSUME TypeOK, Nested, Sound, NEW t \in Thread
    PROVE  NestedOn(t) /\ Base(t) = 0
<1>1. On(t) = {} /\ NestedOn(t)
  BY DEF On, Sound, Nested
<1>2. Base(t) \in Nat /\ ~ (0 < Base(t))
  BY <1>1 DEF NestedOn
<1> QED
  BY <1>1, <1>2

\* While no download is open or astray, nested get_db blocks implement Transactions: the
\* outermost block begins, commits or aborts, the inner ones do nothing of the kind.
THEOREM ImplementsTransactionsCorrect == Spec => ImplementsTransactions
<1> DEFINE Step == Sound /\ Sound' => Txn!Next \/ UNCHANGED Txn!tvars
<1>1. Init => Txn!Init
  BY DEF Init, Txn!Init, Between
<1>2. TypeOK /\ Nested /\ [Next]_vars => [Step]_vars
  <2> SUFFICES ASSUME TypeOK, Nested, [Next]_vars, Sound, Sound'
               PROVE  Txn!Next \/ UNCHANGED Txn!tvars
    OBVIOUS
  <2>0. /\ \A t \in Thread : pending[t] # None
        /\ None # {}
        /\ Worker \subseteq Thread
    BY NoneAssumption DEF TypeOK, Thread
  <2>1. ASSUME NEW t \in Thread, Enter(t) PROVE Txn!Begin(t) \/ UNCHANGED Txn!tvars
    <3>1. /\ ~ Between(t)'
          /\ \A u \in Thread \ {t} : Between(u)' = Between(u)
          /\ pending' = pending /\ committed' = committed
      <4>1. frames'[t] = Append(frames[t], depth[t]) /\ frames[t] \in Seq(0..MaxDepth)
            /\ depth[t] \in 0..MaxDepth
        BY <2>1 DEF Enter, TypeOK
      <4>2. frames'[t] # << >>
        BY <4>1, AppendProperties
      <4> QED
        BY <2>1, <4>2 DEF Enter, Between, TypeOK
    <3>2. CASE Between(t)
      <4>1. pending[t] = {}
        BY <3>2, SoundCountsFromZero DEF NestedOn
      <4> QED
        BY <3>1, <3>2, <4>1 DEF Txn!Begin
    <3>3. CASE ~ Between(t)
      BY <3>1, <3>3 DEF Txn!tvars
    <3> QED
      BY <3>2, <3>3
  <2>2. ASSUME NEW t \in Thread, NEW w \in Write, Put(t, w) PROVE Txn!Put(t, w)
    BY <2>0, <2>2 DEF Put, Txn!Put, Between, TypeOK
  <2>3. ASSUME NEW t \in Thread, Leave(t) \/ Fail(t)
        PROVE  Txn!Commit(t) \/ Txn!Abort(t) \/ UNCHANGED Txn!tvars
    <3> DEFINE n == Len(frames[t])
    <3>1. /\ ~ Between(t) /\ frames[t] \in Seq(0..MaxDepth) /\ n \in Nat \ {0}
          /\ frames'[t] = SubSeq(frames[t], 1, n - 1)
          /\ \A u \in Thread \ {t} : Between(u)' = Between(u)
      BY <2>3, EmptySeq, LenProperties DEF Leave, Fail, Pop, Between, TypeOK
    <3>2. Saved(t) = n - 1
      BY <3>1, SoundCountsFromZero DEF NestedOn, Saved
    <3>3. CASE n = 1
      <4>1. Between(t)' /\ Saved(t) = 0
        BY <3>1, <3>2, <3>3, SubSeqProperties, EmptySeq DEF Between
      <4>2. CASE Leave(t)
        BY <2>0, <3>1, <4>1, <4>2 DEF Leave, CommitAt, Txn!Commit, TypeOK
      <4>3. CASE Fail(t)
        BY <2>0, <3>1, <4>1, <4>3 DEF Fail, Txn!Abort, TypeOK
      <4> QED
        BY <2>3, <4>2, <4>3
    <3>4. CASE n # 1
      <4>1. ~ Between(t)' /\ Saved(t) # 0
        <5>1. Len(frames'[t]) = n - 1
          BY <3>1, SubSeqProperties
        <5>2. n - 1 # 0
          BY <3>1, <3>4
        <5>3. Len(frames'[t]) # 0
          BY <5>1, <5>2
        <5>4. frames'[t] # << >>
          BY <5>3, LenEmpty
        <5> QED
          BY <3>2, <5>2, <5>4 DEF Between
      <4> QED
        BY <2>3, <3>1, <4>1 DEF Leave, Fail, CommitAt, Txn!tvars
    <3> QED
      BY <3>3, <3>4
  <2>3a. ASSUME NEW e \in Export, NEW t \in Worker, ExportOpen(e, t) PROVE FALSE
    BY <2>3a, NoneAssumption DEF ExportOpen, Sound, TypeOK, Thread
  <2>4. ASSUME NEW e \in Export, ExportFinish(e) \/ ExportHop(e) \/ ExportDrop(e) PROVE FALSE
    BY <2>4 DEF ExportFinish, ExportHop, ExportDrop, EndElsewhere, Sound
  <2>5. ASSUME NEW t \in Worker, WorkerExit(t) PROVE UNCHANGED Txn!tvars
    BY <2>0, <2>5 DEF WorkerExit, Between, Txn!tvars, TypeOK
  <2>6. CASE Restart
    BY <2>6 DEF Restart, Between, Txn!Next, Txn!Crash
  <2>7. CASE UNCHANGED vars
    BY <2>7 DEF vars, Between, Txn!tvars
  <2> QED
    BY <2>1, <2>2, <2>3, <2>3a, <2>4, <2>5, <2>6, <2>7 DEF Next, Call, Download, Txn!Next
<1> QED
  BY <1>1, <1>2, NestedCorrect, PTL DEF Spec, ImplementsTransactions
=============================================================================
