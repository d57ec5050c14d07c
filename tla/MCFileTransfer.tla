--------------------------- MODULE MCFileTransfer ---------------------------
(***************************************************************************)
(* Two files from one source client to one target client.                  *)
(***************************************************************************)
EXTENDS FileTransfer

CONSTANTS j1, j2, A, B, SizeOf

ToB == [j \in Jobs |-> B]
FromA == [j \in Jobs |-> A]
EachSize == [j \in Jobs |-> SizeOf]

\* A file that may grow ends up as long as the others
LastSize == [j \in Jobs |-> IF j \in Growing THEN SizeOf - 1 ELSE SizeOf]
=============================================================================
