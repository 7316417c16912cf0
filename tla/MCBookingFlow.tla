--------------------------- MODULE MCBookingFlow ---------------------------
(* Instances of BookingFlow for model checking.                            *)
EXTENDS BookingFlow, TLC

BothPaths == {"price_flow", "price_entry"}
FlowPath  == {"price_flow"}

Symmetry == Permutations(Query) \cup Permutations(Context) \cup Permutations(Booking)
=============================================================================
