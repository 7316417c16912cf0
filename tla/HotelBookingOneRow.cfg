SPECIFICATION Spec
CONSTANTS
  Booking = {b1}
  Phone = {p1}
  PhoneOf <- OnePhone
  Reservation = {r1, r2}
  Request = {q1, q2}
  Endpoints = 2
  Attempts = 2
  Operation <- Operations
  CanCrash = TRUE
  NoBooking = NoBooking
  NoReservation = NoReservation
SYMMETRY Symmetry
INVARIANTS
  TypeOK
  ReservationNeedsApproval
  ApprovedOnce
  NoticeBacked
  CancelledIsReal
PROPERTY
  PendingNeverReturns
CHECK_DEADLOCK FALSE
