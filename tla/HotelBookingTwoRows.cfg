SPECIFICATION FairSpec
CONSTANTS
  Booking = {b1, b2}
  Phone = {p1}
  PhoneOf <- OnePhone
  Reservation = {r1, r2}
  Request = {q1, q2}
  Endpoints = 2
  Attempts = 1
  Operation <- AwaitingOps
  CanCrash = FALSE
  NoBooking = NoBooking
  NoReservation = NoReservation
INVARIANTS
  ApprovedHasOwner
  RowNamesOwnReservation
PROPERTIES
  RequestsFinish
  ApprovedSettles
CHECK_DEADLOCK FALSE
