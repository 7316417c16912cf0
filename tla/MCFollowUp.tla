----------------------------- MODULE MCFollowUp -----------------------------
(* Instances of FollowUp for model checking.                               *)
EXTENDS FollowUp, TLC

NoTrouble   == {}
AnswerLost  == {"answer lost"}
SwitchOnly  == {"switched off"}

Symmetry == Permutations(Phone) \cup Permutations(Route)
=============================================================================
