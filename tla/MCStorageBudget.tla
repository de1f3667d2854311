---------------------------- MODULE MCStorageBudget ----------------------------
(* Instances of StorageBudget for TLC: a fork of three nodes in one directory *)
(* (a is a prefix of ab and of ad) and a single node in another.             *)
EXTENDS StorageBudget

CONSTANTS a, ab, ad, x, c1, c2

TwoDirectories == [n \in {a, ab, ad, x} |-> IF n = x THEN c2 ELSE c1]
Fork == {<<a, ab>>, <<a, ad>>}
=============================================================================
