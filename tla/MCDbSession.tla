----------------------------- MODULE MCDbSession -----------------------------
(***************************************************************************)
(* Small instances of DbSession: two workers and the event loop, and two   *)
(* downloads, which can share a thread or follow each other across it.     *)
(***************************************************************************)
EXTENDS DbSession, TLC

Symmetry == Permutations(Worker) \cup Permutations(Write) \cup Permutations(Export)
=============================================================================
