---------------------------- MODULE MCThreadPool ----------------------------
(***************************************************************************)
(* Small pools for TLC.                                                    *)
(***************************************************************************)
EXTENDS ThreadPool

CONSTANTS w1, w2, w3, s1, s2, j1, j2, j3, j4
=============================================================================
