---------------------------- MODULE MCStateStore ----------------------------
(* Instances of StateStore for model checking.                             *)
EXTENDS StateStore, TLC

CONSTANTS w1, w2, p1, p2

TwoProcesses == (w1 :> p1) @@ (w2 :> p2)
AllTroubles  == Troubles
CallsFail    == {"write fails", "unreadable"}

Symmetry == Permutations(Inode) \cup Permutations(Value)
=============================================================================
