--------------------------- MODULE MCHotelBooking ---------------------------
(* Instances of HotelBooking for TLC. *)
EXTENDS HotelBooking, TLC

\* All rows belong to one customer, so that recreate and purge reach both.
OnePhone == [b \in Booking |-> CHOOSE p \in Phone : TRUE]

\* One operation of each kind that awaits Elektra: create, look up, cancel.
AwaitingOps == {"approve", "sync", "cancel"}

Symmetry == Permutations(Request) \cup Permutations(Booking)
              \cup Permutations(Reservation)
=============================================================================
