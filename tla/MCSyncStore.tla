---------------------------- MODULE MCSyncStore -----------------------------
(***************************************************************************)
(* Threads, sources and addresses are told apart by nothing but their name.*)
(***************************************************************************)
EXTENDS SyncStore, TLC

Symmetry == Permutations(Threads) \cup Permutations(Sources) \cup Permutations(Nodes)
=============================================================================
