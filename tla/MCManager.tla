------------------------------ MODULE MCManager -----------------------------
(* Two source directories, a and b, of one client; the configuration file   *)
(* names the pair of the first, the console may name both.                  *)
EXTENDS Manager, TLC

CONSTANTS p1, p2, a, b, c1, w1, w2, f1, f2, f3, g1

MCSourceOf == (p1 :> a) @@ (p2 :> b)
OneClient == [s \in Sources |-> c1]
TwoFiles == (a :> <<f1, f2>>) @@ (b :> <<g1>>)
ThreeFiles == (a :> <<f1, f2, f3>>) @@ (b :> <<g1>>)
OnePair == <<p1>>
=============================================================================
