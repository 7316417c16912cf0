---------------------------- MODULE BookingDesk ----------------------------
(***************************************************************************)
(* What the conversations that book a room or a table promise, however     *)
(* they get there.  A dialogue shows its customer a summary, any number of *)
(* times; a yes books what was shown last, once.  A dialogue that has      *)
(* booked shows no other summary and changes nothing of its booking: only  *)
(* staff amend what a booking says, and no booking disappears.             *)
(*                                                                         *)
(* The state of a dialogue is a file that others overwrite.  A dialogue    *)
(* may come back to life after its booking (again), and it may go on from  *)
(* an older state (stale).                                                 *)
(***************************************************************************)
CONSTANTS
  Dialogue,     \* conversations, by the name they have in their file
  Details,      \* what a summary says
  Row,          \* numbers of bookings
  NoDetails,    \* nothing was shown
  NoRow         \* nothing was booked

VARIABLES
  shown,        \* the last summary of every dialogue
  booked,       \* the bookings
  amended,      \* bookings that staff have changed
  again,        \* dialogues that may book again
  stale         \* dialogues that may book something else than they showed

vars == <<shown, booked, amended, again, stale>>

Init ==
  /\ shown = [d \in Dialogue |-> NoDetails]
  /\ booked = [r \in Row |-> NoRow]
  /\ amended = {} /\ again = {} /\ stale = {}

HasBooked(d) == \E r \in Row : booked[r] # NoRow /\ booked[r].dialogue = d

Open(d) == HasBooked(d) => d \in again

(* A restart or a lost update, which may happen in the middle of a booking.*)
Disturbed ==
  \E a \in SUBSET Dialogue : \E s \in SUBSET a :
    again' = again \cup a /\ stale' = stale \cup s

Bookings(d) == [dialogue : {d}, details : Details]

Show(d) ==
  /\ Open(d)
  /\ shown'[d] \in Details
  /\ shown' = [shown EXCEPT ![d] = shown'[d]]
  /\ UNCHANGED <<booked, amended, again, stale>>

Book(r, d) ==
  /\ booked[r] = NoRow
  /\ Open(d)
  /\ booked'[r] \in Bookings(d)
  /\ d \notin stale => booked'[r].details = shown[d]
  /\ booked' = [booked EXCEPT ![r] = booked'[r]]
  /\ Disturbed
  /\ UNCHANGED <<shown, amended>>

(* Staff write over the details of a booking, whatever its dialogue showed.*)
Amend(r) ==
  /\ booked[r] # NoRow
  /\ booked'[r] \in Bookings(booked[r].dialogue)
  /\ booked' = [booked EXCEPT ![r] = booked'[r]]
  /\ amended' = amended \cup {r}
  /\ UNCHANGED <<shown, again, stale>>

Disturb ==
  /\ UNCHANGED <<shown, booked, amended>>
  /\ Disturbed

Next ==
  \/ Disturb
  \/ \E d \in Dialogue : Show(d) \/ \E r \in Row : Book(r, d)
  \/ \E r \in Row : Amend(r)

Spec == Init /\ [][Next]_vars
=============================================================================
