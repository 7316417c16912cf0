---------------------------- MODULE MCRestaurant ----------------------------
(* Small instances of Restaurant for TLC.                                  *)
EXTENDS Restaurant, TLC

CONSTANTS r1, r2

\* Staff ask for a large party at a late hour.
LargeAndLate == {[guests |-> MaxParty, date |-> "none", time |-> "late"]}

Symmetry == Permutations({r1, r2})
=============================================================================
