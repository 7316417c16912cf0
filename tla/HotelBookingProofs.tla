------------------------- MODULE HotelBookingProofs -------------------------
(***************************************************************************)
(* Proofs about HotelBooking, for every number of rows, requests,          *)
(* reservations, endpoints and attempts, and for every set of operations.  *)
(***************************************************************************)
EXTENDS HotelBooking, TLAPS

-----------------------------------------------------------------------------
(* What the helpers of the handlers do to the two tables                   *)

\* The bounds as the provers need them.
LEMMA BoundsFacts ==
  /\ Endpoints \in Nat /\ Endpoints > 0
  /\ Attempts \in Nat /\ Attempts > 0
  BY BoundsAssumption

\* An idle request is a handler.
LEMMA IdleIsHandler == Idle \in Handler
  BY BoundsFacts DEF Handler, Idle, Step, BookingStatus, MaybeRes

\* Going on to the next step of a handler keeps the type of the requests.
LEMMA GoToType ==
  ASSUME request \in [Request -> Handler], NEW q \in Request, NEW s \in Step,
         GoTo(q, s)
  PROVE  request' \in [Request -> Handler]
<1>1. [request[q] EXCEPT !.step = s] \in Handler
  BY DEF Handler
<1> QED
  BY <1>1 DEF GoTo

\* Ending a handler keeps it.
LEMMA FinishType ==
  ASSUME request \in [Request -> Handler], NEW q \in Request, Finish(q)
  PROVE  request' \in [Request -> Handler]
  BY IdleIsHandler DEF Finish

\* Starting a handler keeps it: what it remembers comes from its row.
LEMMA AcceptType ==
  ASSUME TypeOK, NEW q \in Request, NEW b \in Booking,
         NEW op \in Operations, NEW s \in Step, Accept(q, op, b, s)
  PROVE  request' \in [Request -> Handler]
<1>1. /\ row[b].status \in BookingStatus
      /\ RefOf(row[b]) \in MaybeRes
  BY DEF TypeOK, Accept, Exists, RefOf, Row
<1>2. [op |-> op, step |-> s, booking |-> b, status |-> row[b].status,
       ref |-> RefOf(row[b]), tries |-> 0, attempt |-> 1] \in Handler
  BY <1>1, BoundsFacts DEF Handler
<1> QED
  BY <1>2 DEF Accept, TypeOK

\* update_hotel_booking_status with values of their types keeps that of the rows.
LEMMA UpdateRowType ==
  ASSUME row \in [Booking -> Row], NEW b, NEW status \in BookingStatus \cup NoRow,
         NEW resId \in MaybeRes, NEW resp \in MaybeRes,
         UpdateRow(b, status, resId, resp)
  PROVE  row' \in [Booking -> Row]
<1>1. [status |-> status, resId |-> resId, resp |-> resp] \in Row
  BY DEF Row
<1> QED
  BY <1>1 DEF UpdateRow

\* So does a write of the status alone.
LEMMA SetStatusType ==
  ASSUME row \in [Booking -> Row], NEW b, NEW status \in BookingStatus \cup NoRow,
         SetStatus(b, status)
  PROVE  row' \in [Booking -> Row]
<1>1. CASE b \in Booking
  <2>1. row[b].resId \in MaybeRes /\ row[b].resp \in MaybeRes
    BY <1>1 DEF Row
  <2> QED
    BY <2>1, UpdateRowType DEF SetStatus
<1>2. CASE b \notin Booking
  BY <1>2 DEF SetStatus, UpdateRow
<1> QED
  BY <1>1, <1>2
-----------------------------------------------------------------------------
(* Type correctness                                                        *)

\* The types hold at the start.
LEMMA InitType == Init => TypeOK
  BY IdleIsHandler DEF Init, TypeOK, Row, NoRow, MaybeRes

\* Inserting, copying and purging rows keep the types.
LEMMA ChangeRowsType == TypeOK /\ ChangeRows => TypeOK'
<1> USE DEF TypeOK, Row, BookingStatus, NoRow, MaybeRes
<1>1. ASSUME TypeOK, NEW b \in Booking, InsertRow(b) PROVE TypeOK'
  BY <1>1 DEF InsertRow
<1>2. ASSUME TypeOK, NEW p \in Phone, PurgePhone(p) PROVE TypeOK'
  BY <1>2 DEF PurgePhone
<1> QED
  BY <1>1, <1>2 DEF ChangeRows, RecreateBooking

\* Every admin operation that starts keeps the types.
LEMMA StartRequestType ==
  ASSUME TypeOK, NEW q \in Request, StartRequest(q) PROVE TypeOK'
<1> USE DEF TypeOK
<1>0. PICK b \in Booking :
        \/ ApproveBooking(q, b) \/ RetryBooking(q, b) \/ RejectBooking(q, b)
        \/ StartCancel(q, b) \/ SendCachedForm(q, b)
        \/ \E op \in LookupOps : StartLookup(q, b, op)
  BY DEF StartRequest
<1>1. CASE ApproveBooking(q, b)
  <2>1. request' \in [Request -> Handler]
    BY <1>1, AcceptType DEF ApproveBooking, Operations, Step
  <2>2. row' \in [Booking -> Row]
    BY <1>1, SetStatusType DEF ApproveBooking, BookingStatus
  <2>3. approvals' \in [Booking -> 0..2]
    BY <1>1 DEF ApproveBooking
  <2> QED
    BY <2>1, <2>2, <2>3, <1>1 DEF ApproveBooking
<1>2. CASE RetryBooking(q, b)
  <2>1. request' \in [Request -> Handler]
    BY <1>2, AcceptType DEF RetryBooking, Operations, Step
  <2>2. row' \in [Booking -> Row]
    BY <1>2, SetStatusType DEF RetryBooking, BookingStatus
  <2> QED
    BY <2>1, <2>2, <1>2 DEF RetryBooking
<1>3. CASE RejectBooking(q, b)
  <2>1. request' \in [Request -> Handler]
    BY <1>3, AcceptType DEF RejectBooking, Operations, Step
  <2>2. row' \in [Booking -> Row]
    BY <1>3, SetStatusType DEF RejectBooking, BookingStatus
  <2> QED
    BY <2>1, <2>2, <1>3 DEF RejectBooking
<1>4. CASE StartCancel(q, b)
  <2>1. request' \in [Request -> Handler]
    BY <1>4, AcceptType DEF StartCancel, Operations, Step
  <2> QED
    BY <2>1, <1>4 DEF StartCancel
<1>5. CASE SendCachedForm(q, b)
  <2>1. request' \in [Request -> Handler]
    BY <1>5, AcceptType DEF SendCachedForm, Operations, Step
  <2> QED
    BY <2>1, <1>5 DEF SendCachedForm
<1>6. ASSUME NEW op \in LookupOps, StartLookup(q, b, op) PROVE TypeOK'
  <2>1. request' \in [Request -> Handler]
    BY <1>6, AcceptType DEF StartLookup, LookupOps, Operations, Step
  <2> QED
    BY <2>1, <1>6 DEF StartLookup
<1> QED
  BY <1>0, <1>1, <1>2, <1>3, <1>4, <1>5, <1>6

\* Every step of a handler after an await keeps the types.
LEMMA ContinueRequestType ==
  ASSUME TypeOK, NEW q \in Request, ContinueRequest(q) PROVE TypeOK'
<1> USE DEF TypeOK
<1>a. /\ request[q] \in Handler
      /\ request[q].ref \in MaybeRes
      /\ request[q].booking \in Booking \cup {NoBooking}
      /\ request[q].status \in BookingStatus \cup {"absent"}
  BY DEF Handler
<1>1. CASE ElektraCreates(q)
  <2>1. PICK r \in Reservation :
          /\ elektra' = [elektra EXCEPT ![r] =
                           [booking |-> request[q].booking, state |-> "live"]]
          /\ request' = [request EXCEPT ![q].step = "created", ![q].ref = r]
    BY <1>1 DEF ElektraCreates
  <2>2. [request[q] EXCEPT !.step = "created", !.ref = r] \in Handler
    BY <1>a DEF Handler, Step, MaybeRes
  <2>3. request' \in [Request -> Handler]
    BY <2>1, <2>2
  <2>4. elektra' \in [Reservation -> [booking : Booking \cup {NoBooking},
                                      state : {"none", "live", "cancelled"}]]
    BY <1>a, <2>1
  <2> QED
    BY <2>3, <2>4, <1>1 DEF ElektraCreates
<1>2. CASE CreateAnswered(q)
  BY <1>2, GoToType DEF CreateAnswered, Step
<1>3. CASE NextEndpoint(q)
  <2>1. request[q].tries \in 0..(Endpoints - 1)
    BY <1>a DEF Handler
  <2>2. request[q].tries + 1 \in 0..(Endpoints - 1)
    BY <1>3, <2>1, BoundsFacts DEF NextEndpoint
  <2>3. [request[q] EXCEPT !.step = "create", !.tries = @ + 1] \in Handler
    BY <1>a, <2>2 DEF Handler, Step
  <2> QED
    BY <2>3, <1>3 DEF NextEndpoint
<1>4. CASE PatchAndRetry(q)
  <2>1. request[q].attempt \in 0..Attempts
    BY <1>a DEF Handler
  <2>2. request[q].attempt + 1 \in 0..Attempts /\ 0 \in 0..(Endpoints - 1)
    BY <1>4, <2>1, BoundsFacts DEF PatchAndRetry
  <2>3. [request[q] EXCEPT !.tries = 0, !.attempt = @ + 1] \in Handler
    BY <1>a, <2>2 DEF Handler
  <2> QED
    BY <2>3, <1>4 DEF PatchAndRetry
<1>5. CASE CreateRaises(q)
  <2>1. UpdateRow(request[q].booking, "elektra_failed",
                  row[request[q].booking].resId, NoReservation)
    BY <1>5 DEF CreateRaises
  <2>2. row' \in [Booking -> Row]
    <3>1. CASE request[q].booking \in Booking
      <4>1. row[request[q].booking].resId \in MaybeRes
        BY <3>1 DEF Row
      <4> QED
        BY <2>1, <4>1, UpdateRowType DEF BookingStatus, MaybeRes
    <3>2. CASE request[q].booking \notin Booking
      BY <2>1, <3>2 DEF UpdateRow
    <3> QED
      BY <3>1, <3>2
  <2>3. request' \in [Request -> Handler]
    BY <1>5, GoToType DEF CreateRaises, Step
  <2> QED
    BY <2>2, <2>3, <1>5 DEF CreateRaises
<1>6. CASE RecordCreated(q)
  <2>1. row' \in [Booking -> Row]
    BY <1>a, <1>6, UpdateRowType DEF RecordCreated, BookingStatus, MaybeRes
  <2>2. request' \in [Request -> Handler]
    BY <1>6, GoToType DEF RecordCreated, Step
  <2> QED
    BY <2>1, <2>2, <1>6 DEF RecordCreated
<1>7. CASE LookupFetched(q)
  <2>1. row' \in [Booking -> Row]
    BY <1>a, <1>7, UpdateRowType DEF LookupFetched, NoRow, MaybeRes
  <2>2. request' \in [Request -> Handler]
    BY <1>7, GoToType, FinishType DEF LookupFetched, Step
  <2> QED
    BY <2>1, <2>2, <1>7 DEF LookupFetched
<1>8. CASE LookupStatusOnly(q)
  <2>1. row' \in [Booking -> Row]
    BY <1>a, <1>8, SetStatusType DEF LookupStatusOnly, NoRow
  <2>2. request' \in [Request -> Handler]
    BY <1>8, FinishType DEF LookupStatusOnly
  <2> QED
    BY <2>1, <2>2, <1>8 DEF LookupStatusOnly
<1>9. CASE LookupRaises(q)
  BY <1>9, FinishType DEF LookupRaises
<1>10. CASE ElektraCancels(q)
  <2>1. elektra' \in [Reservation -> [booking : Booking \cup {NoBooking},
                                      state : {"none", "live", "cancelled"}]]
    BY <1>10 DEF ElektraCancels
  <2>2. request' \in [Request -> Handler]
    BY <1>10, GoToType DEF ElektraCancels, Step
  <2> QED
    BY <2>1, <2>2, <1>10 DEF ElektraCancels
<1>11. CASE RecordCancelled(q)
  <2>1. row' \in [Booking -> Row]
    <3>1. PICK resp \in MaybeRes :
            UpdateRow(request[q].booking, "cancelled",
                      row[request[q].booking].resId, resp)
      BY <1>a, <1>11 DEF RecordCancelled, MaybeRes
    <3>2. CASE request[q].booking \in Booking
      <4>1. row[request[q].booking].resId \in MaybeRes
        BY <3>2 DEF Row
      <4> QED
        BY <3>1, <4>1, UpdateRowType DEF BookingStatus
    <3>3. CASE request[q].booking \notin Booking
      BY <3>1, <3>3 DEF UpdateRow
    <3> QED
      BY <3>2, <3>3
  <2>2. request' \in [Request -> Handler]
    BY <1>11, FinishType DEF RecordCancelled
  <2> QED
    BY <2>1, <2>2, <1>11 DEF RecordCancelled
<1>12. CASE CancelRaises(q)
  BY <1>12, FinishType DEF CancelRaises
<1>13. CASE TellCustomer(q)
  <2>1. told' \in [Booking -> SUBSET Notice]
    BY <1>13 DEF TellCustomer, NoticeAt, Notice
  <2>2. request' \in [Request -> Handler]
    BY <1>13, GoToType, FinishType DEF TellCustomer, Step
  <2> QED
    BY <2>1, <2>2, <1>13 DEF TellCustomer
<1>14. CASE TellFails(q)
  <2>1. request' \in [Request -> Handler]
    BY <1>14, GoToType, FinishType DEF TellFails, Step
  <2> QED
    BY <2>1, <1>14 DEF TellFails
<1>15. CASE TellAdmin(q)
  BY <1>15, FinishType DEF TellAdmin
<1> QED
  BY <1>1, <1>2, <1>3, <1>4, <1>5, <1>6, <1>7, <1>8, <1>9, <1>10, <1>11,
     <1>12, <1>13, <1>14, <1>15 DEF ContinueRequest

\* Every step keeps the types.
LEMMA StepType == TypeOK /\ [Next]_vars => TypeOK'
<1>1. TypeOK /\ Crash => TypeOK'
  BY IdleIsHandler DEF Crash, TypeOK
<1>2. TypeOK /\ UNCHANGED vars => TypeOK'
  BY DEF TypeOK, vars
<1> QED
  BY <1>1, <1>2, ChangeRowsType, StartRequestType, ContinueRequestType DEF Next

\* The state keeps its types: in particular no create call asks more
\* endpoints, or patches its payload more often, than the code allows
\* (_request_json_with_fallback, create_elektraweb_reservation).
THEOREM TypeCorrect == Spec => []TypeOK
  BY InitType, StepType, PTL DEF Spec

-----------------------------------------------------------------------------
(* The inductive invariant behind the safety properties.  A stale status   *)
(* can only be written back by a handler that holds a reservation number,  *)
(* a number can only come from Elektra, Elektra only makes a reservation   *)
(* for a row that was approved, and approval leaves pending_approval       *)
(* before the first await.                                                 *)

CancelledOnce(b) == \E r \in ReservationsOf(b) : elektra[r].state = "cancelled"

ElektraOK ==
  \A r \in Reservation :
    /\ elektra[r].state = "none" => elektra[r].booking = NoBooking
    /\ \A b \in Booking : elektra[r].booking = b => approvals[b] > 0

RowOK(b) ==
  /\ row[b].resId # NoReservation => row[b].resId \in ReservationsOf(b)
  /\ row[b].resp # NoReservation => row[b].resp \in ReservationsOf(b)
  /\ row[b].status \in {"absent", "pending_approval"} => approvals[b] = 0
  /\ row[b].status \in {"approved", "elektra_failed"} => approvals[b] > 0
  /\ row[b].status = "cancelled" => CancelledOnce(b)
  /\ approvals[b] <= 1

HandlerOK(h) ==
  h.step # "idle" =>
    /\ h.booking \in Booking
    /\ h.step \in {"create", "created", "enrich"} => approvals[h.booking] > 0
    /\ h.step \in {"created", "enrich", "lookup", "cancel", "cancelled"} =>
         h.ref \in ReservationsOf(h.booking)
    /\ h.step = "cancelled" => elektra[h.ref].state = "cancelled"
    /\ h.step = "lookup" =>
         /\ h.status \notin {"absent", "pending_approval"}
         /\ h.status = "cancelled" => CancelledOnce(h.booking)
    /\ h.step \in {"tell created", "tell form"} => ReservationsOf(h.booking) # {}

IInv ==
  /\ TypeOK
  /\ ElektraOK
  /\ \A b \in Booking : RowOK(b)
  /\ \A q \in Request : HandlerOK(request[q])
  /\ NoticeBacked

(* What no step undoes: a reservation keeps its booking, a cancelled one   *)
(* stays cancelled, and an approval is never forgotten.                    *)
Grows ==
  /\ \A r \in Reservation :
       /\ elektra[r].booking \in Booking => elektra'[r].booking = elektra[r].booking
       /\ elektra[r].state = "cancelled" => elektra'[r].state = "cancelled"
  /\ \A b \in Booking : approvals[b] > 0 => approvals'[b] > 0

\* A step without Elektra and without an approval undoes nothing.
LEMMA UnchangedGrows ==
  ASSUME UNCHANGED elektra, UNCHANGED approvals PROVE Grows
  BY DEF Grows

\* No step makes Elektra forget a booking or a cancellation, or an approval undone.
LEMMA StepGrows == ASSUME IInv, [Next]_vars PROVE Grows
<1>1. CASE ChangeRows
  BY <1>1, UnchangedGrows DEF ChangeRows, InsertRow, RecreateBooking, PurgePhone
<1>2. ASSUME NEW q \in Request, StartRequest(q) PROVE Grows
  <2>1. ASSUME NEW b \in Booking, ApproveBooking(q, b) PROVE Grows
    <3>1. \A c \in Booking : approvals[c] \in 0..2
      BY DEF IInv, TypeOK
    <3>2. \A c \in Booking : approvals[c] > 0 => approvals'[c] > 0
      BY <2>1, <3>1 DEF ApproveBooking, IInv, TypeOK
    <3> QED
      BY <2>1, <3>2 DEF ApproveBooking, Grows
  <2> QED
    BY <1>2, <2>1, UnchangedGrows
       DEF StartRequest, RetryBooking, RejectBooking, StartCancel, SendCachedForm,
           StartLookup
<1>3. ASSUME NEW q \in Request, ContinueRequest(q) PROVE Grows
  <2>1. CASE ElektraCreates(q)
    <3>1. PICK r \in Reservation :
            /\ elektra[r].state = "none"
            /\ elektra' = [elektra EXCEPT ![r] =
                             [booking |-> request[q].booking, state |-> "live"]]
      BY <2>1 DEF ElektraCreates
    <3>2. elektra[r].booking \notin Booking /\ elektra[r].state # "cancelled"
      BY <3>1, BookingAssumption DEF IInv, ElektraOK
    <3> QED
      BY <2>1, <3>1, <3>2 DEF Grows, ElektraCreates, IInv, TypeOK
  <2>2. CASE ElektraCancels(q)
    BY <2>2 DEF ElektraCancels, Grows, IInv, TypeOK
  <2> QED
    BY <1>3, <2>1, <2>2, UnchangedGrows
       DEF ContinueRequest, CreateAnswered, NextEndpoint, PatchAndRetry,
           CreateRaises, RecordCreated, LookupFetched, LookupStatusOnly,
           LookupRaises, RecordCancelled, CancelRaises, TellCustomer, TellFails,
           TellAdmin
<1>4. CASE Crash
  BY <1>4, UnchangedGrows DEF Crash
<1>5. CASE UNCHANGED vars
  BY <1>5, UnchangedGrows DEF vars
<1> QED
  BY <1>1, <1>2, <1>3, <1>4, <1>5 DEF Next

\* A booking keeps its reservations, and the cancelled one of them.
LEMMA HoldingsGrow ==
  ASSUME Grows, NEW b \in Booking
  PROVE  /\ ReservationsOf(b) \subseteq ReservationsOf(b)'
         /\ CancelledOnce(b) => CancelledOnce(b)'
<1>1. ReservationsOf(b) \subseteq ReservationsOf(b)'
  BY DEF Grows, ReservationsOf
<1> QED
  BY <1>1 DEF Grows, CancelledOnce, ReservationsOf

\* A handler that does nothing stays right while others take steps.
LEMMA HandlerStays ==
  ASSUME NEW h, HandlerOK(h), Grows PROVE HandlerOK(h)'
<1>1. CASE h.step = "idle"
  BY <1>1 DEF HandlerOK
<1>2. CASE h.step # "idle"
  <2>1. h.booking \in Booking
    BY <1>2 DEF HandlerOK
  <2>2. /\ ReservationsOf(h.booking) \subseteq ReservationsOf(h.booking)'
        /\ CancelledOnce(h.booking) => CancelledOnce(h.booking)'
    BY <2>1, HoldingsGrow
  <2>3. approvals[h.booking] > 0 => approvals'[h.booking] > 0
    BY <2>1 DEF Grows
  <2>4. h.step = "cancelled" => elektra'[h.ref].state = "cancelled"
    BY <1>2 DEF HandlerOK, Grows, ReservationsOf
  <2> QED
    BY <1>2, <2>1, <2>2, <2>3, <2>4 DEF HandlerOK
<1> QED
  BY <1>1, <1>2

\* An idle request has nothing to be right about.
LEMMA IdleOK == HandlerOK(Idle)
  BY DEF HandlerOK, Idle

-----------------------------------------------------------------------------
(* One lemma per part of IInv: every step keeps it.                        *)

\* The number a row refers to is one of its reservations, so the row was approved.
LEMMA RefIsHeld ==
  ASSUME IInv, NEW b \in Booking, RefOf(row[b]) # NoReservation
  PROVE  /\ RefOf(row[b]) \in ReservationsOf(b)
         /\ approvals[b] > 0
         /\ row[b].status \notin {"absent", "pending_approval"}
<1>1. RefOf(row[b]) \in ReservationsOf(b)
  BY DEF RefOf, IInv, RowOK
<1>2. approvals[b] > 0
  BY <1>1 DEF IInv, ElektraOK, ReservationsOf
<1>3. row[b].status \notin {"absent", "pending_approval"}
  BY <1>2 DEF IInv, RowOK
<1> QED
  BY <1>1, <1>2, <1>3

\* Every step leaves every handler right.
LEMMA StepHandlers ==
  ASSUME IInv, [Next]_vars PROVE \A q \in Request : HandlerOK(request[q])'
<1>0. Grows
  BY StepGrows
<1>a. ASSUME NEW p \in Request, request'[p] = request[p] \/ request'[p] = Idle
      PROVE  HandlerOK(request[p])'
  BY <1>0, <1>a, HandlerStays, IdleOK DEF IInv, HandlerOK, Idle
<1>1. CASE ChangeRows
  BY <1>1, <1>a DEF ChangeRows, InsertRow, RecreateBooking, PurgePhone
<1>2. ASSUME NEW q \in Request, StartRequest(q), NEW p \in Request
      PROVE  HandlerOK(request[p])'
  <2>1. PICK b \in Booking :
          \/ ApproveBooking(q, b) \/ RetryBooking(q, b) \/ RejectBooking(q, b)
          \/ StartCancel(q, b) \/ SendCachedForm(q, b)
          \/ \E op \in LookupOps : StartLookup(q, b, op)
    BY <1>2 DEF StartRequest
  <2>2. CASE p # q
    <3>1. \E op, step : Accept(q, op, b, step)
      BY <2>1 DEF ApproveBooking, RetryBooking, RejectBooking, StartCancel,
                  SendCachedForm, StartLookup
    <3>2. request'[p] = request[p]
      BY <2>2, <3>1 DEF Accept, IInv, TypeOK
    <3> QED
      BY <3>2, <1>a
  <2>3. CASE p = q
    <3>0. request \in [Request -> Handler]
      BY DEF IInv, TypeOK
    <3>1. CASE ApproveBooking(q, b)
      <4>1. approvals'[b] > 0
        BY <3>1 DEF ApproveBooking, IInv, TypeOK
      <4> QED
        BY <2>3, <3>0, <3>1, <4>1 DEF ApproveBooking, Accept, HandlerOK
    <3>2. CASE RetryBooking(q, b)
      <4>1. approvals'[b] > 0
        BY <3>2 DEF RetryBooking, IInv, RowOK
      <4> QED
        BY <2>3, <3>0, <3>2, <4>1 DEF RetryBooking, Accept, HandlerOK
    <3>3. CASE RejectBooking(q, b)
      BY <2>3, <3>0, <3>3 DEF RejectBooking, Accept, HandlerOK
    <3>4. CASE StartCancel(q, b)
      <4>1. RefOf(row[b]) \in ReservationsOf(b)'
        BY <3>4, RefIsHeld, <1>0, HoldingsGrow DEF StartCancel
      <4> QED
        BY <2>3, <3>0, <3>4, <4>1 DEF StartCancel, Accept, HandlerOK
    <3>5. CASE SendCachedForm(q, b)
      <4>1. row[b].resp \in ReservationsOf(b)
        BY <3>5 DEF SendCachedForm, IInv, RowOK
      <4>2. ReservationsOf(b)' # {}
        BY <4>1, <1>0, HoldingsGrow
      <4> QED
        BY <2>3, <3>0, <3>5, <4>2 DEF SendCachedForm, Accept, HandlerOK
    <3>6. ASSUME NEW op \in LookupOps, StartLookup(q, b, op)
          PROVE  HandlerOK(request[p])'
      <4>1. /\ RefOf(row[b]) \in ReservationsOf(b)'
            /\ row[b].status \notin {"absent", "pending_approval"}
        BY <3>6, RefIsHeld, <1>0, HoldingsGrow DEF StartLookup
      <4>2. row[b].status = "cancelled" => CancelledOnce(b)'
        BY <1>0, HoldingsGrow DEF IInv, RowOK
      <4> QED
        BY <2>3, <3>0, <3>6, <4>1, <4>2 DEF StartLookup, Accept, HandlerOK
    <3> QED
      BY <2>1, <3>1, <3>2, <3>3, <3>4, <3>5, <3>6
  <2> QED
    BY <2>2, <2>3
<1>3. ASSUME NEW q \in Request, ContinueRequest(q), NEW p \in Request
      PROVE  HandlerOK(request[p])'
  <2>0. /\ request \in [Request -> Handler]
        /\ HandlerOK(request[q])
    BY DEF IInv, TypeOK
  <2>a. HandlerOK(request[q])'
    <3>0. request'[q] = Idle => HandlerOK(request[q])'
      BY IdleOK DEF HandlerOK, Idle
    <3>a. PICK b : b = request[q].booking
      OBVIOUS
    <3>b. request[q].step # "idle" =>
            /\ b \in Booking
            /\ ReservationsOf(b) \subseteq ReservationsOf(b)'
            /\ approvals[b] > 0 => approvals'[b] > 0
      <4>1. request[q].step # "idle" => b \in Booking
        BY <2>0, <3>a DEF HandlerOK
      <4>2. b \in Booking => ReservationsOf(b) \subseteq ReservationsOf(b)'
        BY <1>0, HoldingsGrow
      <4>3. b \in Booking /\ approvals[b] > 0 => approvals'[b] > 0
        BY <1>0 DEF Grows
      <4> QED
        BY <4>1, <4>2, <4>3
    <3>1. CASE ElektraCreates(q)
      <4>1. PICK r \in Reservation :
              /\ elektra' = [elektra EXCEPT ![r] =
                               [booking |-> b, state |-> "live"]]
              /\ request' = [request EXCEPT ![q].step = "created", ![q].ref = r]
        BY <3>1, <3>a DEF ElektraCreates
      <4>2. r \in ReservationsOf(b)'
        BY <4>1 DEF ReservationsOf, IInv, TypeOK
      <4>3. /\ request[q].step = "create"
            /\ request'[q].step = "created"
            /\ request'[q].ref = r
            /\ request'[q].booking = b
        BY <2>0, <3>a, <3>1, <4>1 DEF ElektraCreates, At, Handler
      <4> QED
        BY <2>0, <3>a, <3>b, <4>2, <4>3 DEF HandlerOK
    <3>2. CASE CreateAnswered(q)
      BY <2>0, <3>a, <3>2, <3>b DEF CreateAnswered, At, GoTo, HandlerOK, Handler
    <3>3. CASE NextEndpoint(q)
      BY <2>0, <3>a, <3>3, <3>b DEF NextEndpoint, At, HandlerOK, Handler
    <3>4. CASE PatchAndRetry(q)
      BY <2>0, <3>a, <3>4, <3>b DEF PatchAndRetry, At, HandlerOK, Handler
    <3>5. CASE CreateRaises(q)
      BY <2>0, <3>a, <3>5, <3>b DEF CreateRaises, At, GoTo, HandlerOK, Handler
    <3>6. CASE RecordCreated(q)
      BY <2>0, <3>a, <3>6, <3>b DEF RecordCreated, At, GoTo, HandlerOK, Handler
    <3>7. CASE LookupFetched(q)
      BY <2>0, <3>a, <3>0, <3>7, <3>b
         DEF LookupFetched, At, GoTo, Finish, HandlerOK, Handler
    <3>10. CASE ElektraCancels(q)
      <4>1. /\ request[q].step = "cancel"
            /\ request[q].ref \in ReservationsOf(b)
        BY <2>0, <3>a, <3>10 DEF ElektraCancels, At, HandlerOK
      <4>2. elektra'[request[q].ref].state = "cancelled"
        BY <3>10, <4>1 DEF ElektraCancels, ReservationsOf, IInv, TypeOK
      <4>3. /\ request'[q].step = "cancelled"
            /\ request'[q].ref = request[q].ref
            /\ request'[q].booking = b
        BY <2>0, <3>a, <3>10 DEF ElektraCancels, GoTo, Handler
      <4> QED
        BY <3>b, <4>1, <4>2, <4>3 DEF HandlerOK
    <3>13. CASE TellCustomer(q) \/ TellFails(q)
      BY <2>0, <3>a, <3>0, <3>13, <3>b
         DEF TellCustomer, TellFails, At, GoTo, Finish, HandlerOK, Handler
    <3>14. CASE \/ LookupStatusOnly(q) \/ LookupRaises(q) \/ RecordCancelled(q)
                \/ CancelRaises(q) \/ TellAdmin(q)
      BY <2>0, <3>a, <3>0, <3>14 DEF LookupStatusOnly, LookupRaises, RecordCancelled,
                               CancelRaises, TellAdmin, Finish
    <3> QED
      BY <1>3, <3>1, <3>2, <3>3, <3>4, <3>5, <3>6, <3>7, <3>10, <3>13, <3>14
         DEF ContinueRequest
  <2>b. CASE p # q
    <3>1. request'[p] = request[p]
      BY <1>3, <2>0, <2>b
         DEF ContinueRequest, ElektraCreates, CreateAnswered, NextEndpoint,
             PatchAndRetry, CreateRaises, RecordCreated, LookupFetched,
             LookupStatusOnly, LookupRaises, ElektraCancels, RecordCancelled,
             CancelRaises, TellCustomer, TellFails, TellAdmin, GoTo, Finish
    <3> QED
      BY <3>1, <1>a
  <2> QED
    BY <2>a, <2>b
<1>4. CASE Crash
  BY <1>4, <1>a DEF Crash
<1>5. CASE UNCHANGED vars
  BY <1>5, <1>a DEF vars
<1> QED
  BY <1>1, <1>2, <1>3, <1>4, <1>5 DEF Next

\* A row nobody writes stays right while others take steps.
LEMMA RowStays ==
  ASSUME Grows, NEW b \in Booking, RowOK(b),
         row'[b] = row[b], approvals'[b] = approvals[b]
  PROVE  RowOK(b)'
<1>1. /\ ReservationsOf(b) \subseteq ReservationsOf(b)'
      /\ CancelledOnce(b) => CancelledOnce(b)'
  BY HoldingsGrow
<1> QED
  BY <1>1 DEF RowOK

\* What a handler must know of the values it records after an await.
LEMMA UpdateKeepsRows ==
  ASSUME IInv, Grows, UNCHANGED approvals,
         NEW c \in Booking, NEW s, NEW id, NEW resp,
         UpdateRow(c, s, id, resp),
         s \notin {"absent", "pending_approval"},
         s \in {"approved", "elektra_failed"} => approvals[c] > 0,
         s = "cancelled" => CancelledOnce(c)',
         id # NoReservation => id \in ReservationsOf(c)',
         resp # NoReservation => resp \in ReservationsOf(c)'
  PROVE  \A b \in Booking : RowOK(b)'
<1>0. row \in [Booking -> Row] /\ \A b \in Booking : RowOK(b)
  BY DEF IInv, TypeOK
<1>1. ASSUME NEW b \in Booking, row'[b] = row[b] PROVE RowOK(b)'
  BY <1>0, <1>1, RowStays
<1>2. \A b \in Booking : b # c => row'[b] = row[b]
  BY <1>0 DEF UpdateRow
<1>3. \/ row'[c] = row[c]
      \/ row'[c] = [status |-> s, resId |-> id, resp |-> resp]
  BY <1>0 DEF UpdateRow
<1>4. CASE row'[c] = [status |-> s, resId |-> id, resp |-> resp]
  <2>1. RowOK(c)'
    BY <1>0, <1>4 DEF RowOK
  <2> QED
    BY <2>1, <1>1, <1>2
<1> QED
  BY <1>1, <1>2, <1>3, <1>4

\* The numbers of a row stay numbers of its reservations.
LEMMA RowHoldings ==
  ASSUME IInv, Grows, NEW b \in Booking
  PROVE  /\ row[b].resId # NoReservation => row[b].resId \in ReservationsOf(b)'
         /\ row[b].resp # NoReservation => row[b].resp \in ReservationsOf(b)'
  BY HoldingsGrow DEF IInv, RowOK

\* Inserting, copying and purging leave every row right.
LEMMA ChangeRowsKeepsRows ==
  ASSUME IInv, Grows, ChangeRows PROVE \A b \in Booking : RowOK(b)'
<1>0. row \in [Booking -> Row] /\ \A b \in Booking : RowOK(b)
  BY DEF IInv, TypeOK
<1>1. ASSUME NEW b \in Booking, row'[b] = row[b], UNCHANGED approvals PROVE RowOK(b)'
  BY <1>0, <1>1, RowStays
<1>2. ASSUME NEW c \in Booking, InsertRow(c) PROVE \A b \in Booking : RowOK(b)'
  <2>1. \A b \in Booking : b # c => row'[b] = row[b]
    BY <1>0, <1>2 DEF InsertRow
  <2>2. RowOK(c)'
    <3>1. /\ row'[c].status = "pending_approval"
          /\ row'[c].resId = row[c].resId
          /\ row'[c].resp = row[c].resp
          /\ row[c].status = "absent"
      BY <1>0, <1>2 DEF InsertRow, Row
    <3>2. approvals[c] = 0 /\ approvals'[c] = 0
      BY <1>0, <1>2, <3>1 DEF InsertRow, RowOK
    <3> QED
      BY <3>1, <3>2, RowHoldings DEF RowOK
  <2> QED
    BY <1>1, <1>2, <2>1, <2>2 DEF InsertRow
<1>3. ASSUME NEW p \in Phone, PurgePhone(p) PROVE \A b \in Booking : RowOK(b)'
  <2> SUFFICES ASSUME NEW b \in Booking PROVE RowOK(b)'
    OBVIOUS
  <2>1. CASE row'[b] = row[b]
    BY <1>1, <1>3, <2>1 DEF PurgePhone
  <2>2. CASE row'[b] = [status |-> "deleted", resId |-> NoReservation,
                        resp |-> NoReservation]
    BY <1>0, <1>3, <2>2 DEF PurgePhone, RowOK
  <2> QED
    BY <1>3, <2>1, <2>2 DEF PurgePhone
<1> QED
  BY <1>2, <1>3 DEF ChangeRows, RecreateBooking

\* So does every operation that starts: approval leaves pending_approval at once.
LEMMA StartKeepsRows ==
  ASSUME IInv, Grows, NEW q \in Request, StartRequest(q)
  PROVE  \A b \in Booking : RowOK(b)'
<1>0. /\ row \in [Booking -> Row]
      /\ approvals \in [Booking -> 0..2]
      /\ \A b \in Booking : RowOK(b)
  BY DEF IInv, TypeOK
<1>1. ASSUME UNCHANGED <<row, approvals>> PROVE \A b \in Booking : RowOK(b)'
  BY <1>0, <1>1, RowStays
<1>2. ASSUME NEW c \in Booking, ApproveBooking(q, c)
      PROVE  \A b \in Booking : RowOK(b)'
  <2>1. \A b \in Booking : b # c =>
          row'[b] = row[b] /\ approvals'[b] = approvals[b]
    BY <1>0, <1>2 DEF ApproveBooking, SetStatus, UpdateRow
  <2>2. approvals[c] = 0 /\ approvals'[c] = 1
    BY <1>0, <1>2 DEF ApproveBooking, RowOK
  <2>3. row'[c] = [status |-> "approved", resId |-> row[c].resId,
                   resp |-> row[c].resp]
    BY <1>0, <1>2 DEF ApproveBooking, SetStatus, UpdateRow, Exists, NoRow
  <2>4. RowOK(c)'
    BY <2>2, <2>3, RowHoldings DEF RowOK
  <2> QED
    BY <1>0, <2>1, <2>4, RowStays
<1>3. ASSUME NEW c \in Booking, RetryBooking(q, c) \/ RejectBooking(q, c)
      PROVE  \A b \in Booking : RowOK(b)'
  <2>1. PICK s \in {"approved", "rejected"} :
          /\ UpdateRow(c, s, row[c].resId, row[c].resp)
          /\ s = "approved" => row[c].status \in {"elektra_failed", "approved"}
    BY <1>3 DEF RetryBooking, RejectBooking, SetStatus
  <2>2. s = "approved" => approvals[c] > 0
    BY <1>0, <2>1 DEF RowOK
  <2>3. UNCHANGED approvals
    BY <1>3 DEF RetryBooking, RejectBooking
  <2> QED
    BY <2>1, <2>2, <2>3, RowHoldings, UpdateKeepsRows
<1> QED
  BY <1>1, <1>2, <1>3 DEF StartRequest, StartCancel, SendCachedForm, StartLookup

\* So does every step after an await: the status written back is that of a
\* row that was approved.
LEMMA ContinueKeepsRows ==
  ASSUME IInv, Grows, NEW q \in Request, ContinueRequest(q)
  PROVE  \A b \in Booking : RowOK(b)'
<1>0. /\ HandlerOK(request[q])
      /\ \A b \in Booking : RowOK(b)
  BY DEF IInv
<1>1. ASSUME UNCHANGED <<row, approvals>> PROVE \A b \in Booking : RowOK(b)'
  BY <1>0, <1>1, RowStays
<1>2. PICK c : c = request[q].booking
  OBVIOUS
<1>3. PICK ref : ref = request[q].ref
  OBVIOUS
<1>4. ASSUME CreateRaises(q) PROVE \A b \in Booking : RowOK(b)'
  <2>1. c \in Booking /\ approvals[c] > 0
    BY <1>0, <1>2, <1>4 DEF CreateRaises, At, HandlerOK
  <2>2. UpdateRow(c, "elektra_failed", row[c].resId, NoReservation)
    BY <1>2, <1>4 DEF CreateRaises
  <2> QED
    BY <1>4, <2>1, <2>2, RowHoldings, UpdateKeepsRows DEF CreateRaises
<1>5. ASSUME RecordCreated(q) PROVE \A b \in Booking : RowOK(b)'
  <2>1. c \in Booking /\ ref \in ReservationsOf(c)
    BY <1>0, <1>2, <1>3, <1>5 DEF RecordCreated, At, HandlerOK
  <2>2. ref \in ReservationsOf(c)'
    BY <2>1, HoldingsGrow
  <2>3. PICK id \in {ref, NoReservation}, resp \in {ref, NoReservation} :
          UpdateRow(c, "elektra_created", id, resp)
    BY <1>2, <1>3, <1>5 DEF RecordCreated
  <2> QED
    BY <1>5, <2>1, <2>2, <2>3, UpdateKeepsRows DEF RecordCreated
<1>6. ASSUME LookupFetched(q) \/ LookupStatusOnly(q)
      PROVE  \A b \in Booking : RowOK(b)'
  <2>0. request[q].step = "lookup"
    BY <1>6 DEF LookupFetched, LookupStatusOnly, At
  <2>1. /\ c \in Booking
        /\ ref \in ReservationsOf(c)
    BY <1>0, <1>2, <1>3, <2>0 DEF HandlerOK
  <2>2. ref \in ReservationsOf(c)' /\ (CancelledOnce(c) => CancelledOnce(c)')
    BY <2>1, HoldingsGrow
  <2>3. PICK s : s = request[q].status
    OBVIOUS
  <2>4. /\ s \notin {"absent", "pending_approval"}
        /\ s = "cancelled" => CancelledOnce(c)'
    BY <1>0, <1>2, <2>0, <2>2, <2>3 DEF HandlerOK
  <2>5. approvals[c] > 0
    BY <2>1 DEF IInv, ElektraOK, ReservationsOf
  <2>6. CASE LookupFetched(q)
    <3>1. PICK resp \in {ref, NoReservation} : UpdateRow(c, s, ref, resp)
      BY <1>2, <1>3, <2>3, <2>6 DEF LookupFetched
    <3> QED
      BY <2>1, <2>2, <2>4, <2>5, <2>6, <3>1, UpdateKeepsRows DEF LookupFetched
  <2>7. CASE LookupStatusOnly(q)
    <3>1. UpdateRow(c, s, row[c].resId, row[c].resp)
      BY <1>2, <2>3, <2>7 DEF LookupStatusOnly, SetStatus
    <3> QED
      BY <2>1, <2>4, <2>5, <2>7, <3>1, RowHoldings, UpdateKeepsRows
         DEF LookupStatusOnly
  <2> QED
    BY <1>6, <2>6, <2>7
<1>7. ASSUME RecordCancelled(q) PROVE \A b \in Booking : RowOK(b)'
  <2>1. /\ c \in Booking
        /\ ref \in ReservationsOf(c)
        /\ elektra[ref].state = "cancelled"
    BY <1>0, <1>2, <1>3, <1>7 DEF RecordCancelled, At, HandlerOK
  <2>2. ref \in ReservationsOf(c)' /\ CancelledOnce(c)'
    <3>1. CancelledOnce(c)
      BY <2>1 DEF CancelledOnce
    <3> QED
      BY <2>1, <3>1, HoldingsGrow
  <2>3. PICK resp \in {ref, NoReservation} :
          UpdateRow(c, "cancelled", row[c].resId, resp)
    BY <1>2, <1>3, <1>7 DEF RecordCancelled
  <2> QED
    BY <1>7, <2>1, <2>2, <2>3, RowHoldings, UpdateKeepsRows DEF RecordCancelled
<1> QED
  BY <1>1, <1>4, <1>5, <1>6, <1>7
     DEF ContinueRequest, ElektraCreates, CreateAnswered, NextEndpoint,
         PatchAndRetry, LookupRaises, ElektraCancels, CancelRaises, TellCustomer,
         TellFails, TellAdmin

\* Every step leaves every row right.
LEMMA StepRows == ASSUME IInv, [Next]_vars PROVE \A b \in Booking : RowOK(b)'
<1>0. Grows /\ \A b \in Booking : RowOK(b)
  BY StepGrows DEF IInv
<1>1. CASE ChangeRows
  BY <1>0, <1>1, ChangeRowsKeepsRows
<1>2. ASSUME NEW q \in Request, StartRequest(q) PROVE \A b \in Booking : RowOK(b)'
  BY <1>0, <1>2, StartKeepsRows
<1>3. ASSUME NEW q \in Request, ContinueRequest(q)
      PROVE  \A b \in Booking : RowOK(b)'
  BY <1>0, <1>3, ContinueKeepsRows
<1>4. CASE Crash \/ UNCHANGED vars
  BY <1>0, <1>4, RowStays DEF Crash, vars
<1> QED
  BY <1>1, <1>2, <1>3, <1>4 DEF Next

\* Elektra only holds reservations of approved bookings.
LEMMA StepElektra == ASSUME IInv, [Next]_vars PROVE ElektraOK'
<1>0. Grows /\ ElektraOK
  BY StepGrows DEF IInv
<1>1. ASSUME UNCHANGED elektra PROVE ElektraOK'
  BY <1>0, <1>1 DEF ElektraOK, Grows
<1>2. ASSUME NEW q \in Request, ElektraCreates(q) PROVE ElektraOK'
  <2>1. PICK r \in Reservation :
          elektra' = [elektra EXCEPT ![r] =
                        [booking |-> request[q].booking, state |-> "live"]]
    BY <1>2 DEF ElektraCreates
  <2>2. request[q].booking \in Booking /\ approvals[request[q].booking] > 0
    BY <1>2 DEF ElektraCreates, At, IInv, HandlerOK
  <2> QED
    BY <1>0, <1>2, <2>1, <2>2 DEF ElektraOK, ElektraCreates, IInv, TypeOK
<1>3. ASSUME NEW q \in Request, ElektraCancels(q) PROVE ElektraOK'
  <2>1. request[q].ref \in Reservation /\ elektra[request[q].ref].booking \in Booking
    BY <1>3 DEF ElektraCancels, At, IInv, HandlerOK, ReservationsOf
  <2>2. elektra[request[q].ref].state # "none"
    BY <2>1, <1>0, BookingAssumption DEF ElektraOK
  <2> QED
    BY <1>0, <1>3, <2>1, <2>2, BookingAssumption
       DEF ElektraOK, ElektraCancels, IInv, TypeOK
<1> QED
  BY <1>1, <1>2, <1>3
     DEF Next, vars, ChangeRows, InsertRow, RecreateBooking, PurgePhone, Crash,
         StartRequest, ApproveBooking, RetryBooking, RejectBooking, StartCancel,
         SendCachedForm, StartLookup, ContinueRequest, CreateAnswered,
         NextEndpoint, PatchAndRetry, CreateRaises, RecordCreated, LookupFetched,
         LookupStatusOnly, LookupRaises, RecordCancelled, CancelRaises,
         TellCustomer, TellFails, TellAdmin

\* A notice stays backed by a reservation, and a new one is backed.
LEMMA StepNotice == ASSUME IInv, [Next]_vars PROVE NoticeBacked'
<1>0. Grows /\ NoticeBacked
  BY StepGrows DEF IInv
<1>1. ASSUME UNCHANGED told PROVE NoticeBacked'
  BY <1>0, <1>1, HoldingsGrow DEF NoticeBacked
<1>2. ASSUME NEW q \in Request, TellCustomer(q) PROVE NoticeBacked'
  <2>1. PICK c \in Booking : c = request[q].booking
    BY <1>2 DEF TellCustomer, NoticeAt, IInv, HandlerOK
  <2>2. \A b \in Booking : b # c => told'[b] = told[b]
    BY <1>2, <2>1 DEF TellCustomer, IInv, TypeOK
  <2>3. CASE request[q].step = "tell rejected"
    <3>1. told'[c] = told[c] \cup {"rejected"}
      BY <1>2, <2>1, <2>3 DEF TellCustomer, NoticeAt, IInv, TypeOK
    <3> QED
      BY <1>0, <2>2, <3>1, HoldingsGrow DEF NoticeBacked
  <2>4. CASE request[q].step \in {"tell created", "tell form"}
    <3>1. ReservationsOf(c) # {}
      BY <2>1, <2>4 DEF IInv, HandlerOK
    <3> QED
      BY <1>0, <2>2, <3>1, HoldingsGrow DEF NoticeBacked
  <2> QED
    BY <1>2, <2>3, <2>4 DEF TellCustomer, NoticeAt
<1> QED
  BY <1>1, <1>2
     DEF Next, vars, ChangeRows, InsertRow, RecreateBooking, PurgePhone, Crash,
         StartRequest, ApproveBooking, RetryBooking, RejectBooking, StartCancel,
         SendCachedForm, StartLookup, ContinueRequest, CreateAnswered,
         NextEndpoint, PatchAndRetry, CreateRaises, RecordCreated, LookupFetched,
         LookupStatusOnly, LookupRaises, RecordCancelled, CancelRaises,
         ElektraCreates, ElektraCancels, TellFails, TellAdmin

\* The invariant holds at the start.
LEMMA InitIInv == Init => IInv
<1> SUFFICES ASSUME Init PROVE IInv
  OBVIOUS
<1>1. ElektraOK
  BY BookingAssumption DEF Init, ElektraOK
<1>2. ASSUME NEW b \in Booking PROVE RowOK(b)
  <2>1. row[b] = [status |-> "absent", resId |-> NoReservation, resp |-> NoReservation]
    BY DEF Init
  <2>2. approvals[b] = 0
    BY DEF Init
  <2> QED
    BY <2>1, <2>2 DEF RowOK
<1>3. \A q \in Request : HandlerOK(request[q])
  BY IdleOK DEF Init
<1>4. NoticeBacked
  BY DEF Init, NoticeBacked
<1> QED
  BY <1>1, <1>2, <1>3, <1>4, InitType DEF IInv

\* Every step keeps the invariant.
LEMMA StepIInv == IInv /\ [Next]_vars => IInv'
<1> SUFFICES ASSUME IInv, [Next]_vars PROVE IInv'
  OBVIOUS
<1>1. TypeOK'
  BY StepType DEF IInv
<1>2. (\A q \in Request : HandlerOK(request[q]))'
  BY StepHandlers
<1>3. (\A b \in Booking : RowOK(b))'
  BY StepRows
<1> QED
  BY <1>1, <1>2, <1>3, StepElektra, StepNotice DEF IInv

\* The invariant holds throughout, for any number of rows, requests and
\* reservations and any number of endpoints and create rounds of the code.
THEOREM Invariance == Spec => []IInv
  BY InitIInv, StepIInv, PTL DEF Spec

-----------------------------------------------------------------------------
(* What the invariant gives.                                               *)

\* No answer of Elektra is recorded on a row of another booking, however the
\* requests of _approve_booking_core, sync, the form and cancel overlap.
THEOREM OwnReservations == Spec => []RowNamesOwnReservation
<1>1. IInv => RowNamesOwnReservation
  BY DEF IInv, RowOK, RowNamesOwnReservation
<1> QED
  BY <1>1, Invariance, PTL

\* Elektra holds a reservation only for a booking that passed the status check
\* of the approve endpoint: no retry, stale write-back or crash goes round it.
THEOREM ApprovalFirst == Spec => []ReservationNeedsApproval
<1>1. IInv => ReservationNeedsApproval
  BY DEF IInv, ElektraOK, ReservationsOf, ReservationNeedsApproval
<1> QED
  BY <1>1, Invariance, PTL

\* No row passes the status check of the approve endpoint twice.
THEOREM OneApproval == Spec => []ApprovedOnce
<1>1. IInv => ApprovedOnce
  BY DEF IInv, RowOK, ApprovedOnce
<1> QED
  BY <1>1, Invariance, PTL

\* Customers only hear of reservations that were made (the success branch of
\* _approve_booking_core, send_confirmation_form_api).
THEOREM NoticesAreBacked == Spec => []NoticeBacked
<1>1. IInv => NoticeBacked
  BY DEF IInv
<1> QED
  BY <1>1, Invariance, PTL

\* A row says cancelled only if Elektra cancelled a reservation of its booking.
THEOREM CancelledMeansCancelled == Spec => []CancelledIsReal
<1>1. IInv => CancelledIsReal
  BY DEF IInv, RowOK, CancelledOnce, CancelledIsReal
<1> QED
  BY <1>1, Invariance, PTL

\* The only step that writes pending_approval is the one that makes the row.
LEMMA PendingStep ==
  ASSUME IInv, [Next]_vars, NEW b \in Booking,
         row'[b].status = "pending_approval"
  PROVE  row[b].status \in {"absent", "pending_approval"}
<1>0. row \in [Booking -> Row]
  BY DEF IInv, TypeOK
<1>1. ASSUME NEW c \in Booking, NEW s, NEW id, NEW resp,
             UpdateRow(c, s, id, resp), s # "pending_approval"
      PROVE  row[b].status \in {"absent", "pending_approval"}
  BY <1>0, <1>1 DEF UpdateRow
<1>2. CASE ChangeRows
  BY <1>0, <1>2 DEF ChangeRows, InsertRow, RecreateBooking, PurgePhone
<1>3. ASSUME NEW q \in Request, StartRequest(q)
      PROVE  row[b].status \in {"absent", "pending_approval"}
  BY <1>3, <1>1
     DEF StartRequest, ApproveBooking, RetryBooking, RejectBooking, StartCancel,
         SendCachedForm, StartLookup, SetStatus
<1>4. ASSUME NEW q \in Request, ContinueRequest(q)
      PROVE  row[b].status \in {"absent", "pending_approval"}
  <2>0. HandlerOK(request[q])
    BY DEF IInv
  <2>1. CASE LookupFetched(q) \/ LookupStatusOnly(q)
    <3>1. request[q].booking \in Booking /\ request[q].status # "pending_approval"
      BY <2>0, <2>1 DEF LookupFetched, LookupStatusOnly, At, HandlerOK
    <3> QED
      BY <1>1, <2>1, <3>1 DEF LookupFetched, LookupStatusOnly, SetStatus
  <2>2. CASE CreateRaises(q) \/ RecordCreated(q) \/ RecordCancelled(q)
    <3>1. request[q].booking \in Booking
      BY <2>0, <2>2 DEF CreateRaises, RecordCreated, RecordCancelled, At, HandlerOK
    <3> QED
      BY <1>1, <2>2, <3>1 DEF CreateRaises, RecordCreated, RecordCancelled
  <2> QED
    BY <1>4, <2>1, <2>2
       DEF ContinueRequest, ElektraCreates, CreateAnswered, NextEndpoint,
           PatchAndRetry, LookupRaises, ElektraCancels, CancelRaises,
           TellCustomer, TellFails, TellAdmin
<1>5. CASE Crash \/ UNCHANGED vars
  BY <1>5 DEF Crash, vars
<1> QED
  BY <1>2, <1>3, <1>4, <1>5 DEF Next

\* Nothing is offered for approval again: sync, update, the form and the
\* deposit handler write back the status they read before an await, and none
\* of them can have read pending_approval.
THEOREM PendingIsLeftForGood == Spec => PendingNeverReturns
<1>1. IInv /\ [Next]_vars =>
        [\A b \in Booking :
           row'[b].status = "pending_approval" =>
             row[b].status \in {"absent", "pending_approval"}]_vars
  BY PendingStep
<1> QED
  BY <1>1, Invariance, PTL DEF Spec, PendingNeverReturns
-----------------------------------------------------------------------------
(* Rows that say approved                                                  *)

\* The conditions of ApprovedHasOwner.
Undisturbed == ~CanCrash /\ (Operation \cap LookupOps = {} \/ "retry" \notin Operation)

Owns(h, b) == h.booking = b /\ h.step \in {"create", "created", "enrich"}

\* Without retry a row gets its first reservation number when it ceases to be
\* approved, so that no handler that asks for a number can have read "approved".
UnnamedOK ==
  "retry" \notin Operation =>
    /\ \A b \in Booking : row[b].status \in {"absent", "pending_approval", "approved"} =>
         RefOf(row[b]) = NoReservation
    /\ \A q \in Request : request[q].step = "lookup" => request[q].status # "approved"

OwnerInv ==
  /\ \A q \in Request : request[q].step = "lookup" => request[q].op \in LookupOps \cap Operation
  /\ UnnamedOK
  /\ Undisturbed => \A b \in Booking :
       row[b].status = "approved" => \E q \in Request : Owns(request[q], b)

LEMMA InitOwner == Init => OwnerInv
  BY DEF Init, OwnerInv, UnnamedOK, Owns, Idle, RefOf

\* What a step leaves in the rows: a status that was not written is the old
\* one, and a write changes one row that is there.
LEMMA WriteOne ==
  ASSUME row \in [Booking -> Row], NEW c, NEW s, NEW id, NEW resp,
         UpdateRow(c, s, id, resp), NEW b \in Booking
  PROVE  \/ b # c /\ row'[b] = row[b]
         \/ b = c /\ Exists(b) /\ row'[b] = [status |-> s, resId |-> id, resp |-> resp]
         \/ b = c /\ ~Exists(b) /\ row'[b] = row[b]
  BY DEF UpdateRow

\* Only a handler that begins a lookup gets to its await.
LEMMA LookupsAreAsked ==
  ASSUME IInv, OwnerInv, [Next]_vars, NEW q \in Request, request'[q].step = "lookup"
  PROVE  \/ request'[q] = request[q]
         \/ \E b \in Booking, op \in LookupOps \cap Operation :
              /\ RefOf(row[b]) # NoReservation /\ row'[b] = row[b]
              /\ request'[q].op = op /\ request'[q].status = row[b].status
<1> DEFINE Same == request'[q] = request[q]
<1>0. request \in [Request -> Handler]
  BY DEF IInv, TypeOK
<1>1. CASE ChangeRows
  BY <1>1 DEF ChangeRows, InsertRow, RecreateBooking, PurgePhone
<1>2. ASSUME NEW p \in Request, NEW b \in Booking, NEW op, NEW s, Accept(p, op, b, s), s # "lookup"
      PROVE  Same
  BY <1>0, <1>2 DEF Accept
<1>3. ASSUME NEW p \in Request, NEW s, s # "lookup", GoTo(p, s) PROVE Same
  BY <1>0, <1>3 DEF GoTo, Handler
<1>4. ASSUME NEW p \in Request, Finish(p) PROVE Same
  BY <1>0, <1>4 DEF Finish, Idle
<1>5. ASSUME NEW p \in Request, NEW b \in Booking, NEW op \in LookupOps, StartLookup(p, b, op)
      PROVE  \/ Same
             \/ /\ op \in Operation /\ RefOf(row[b]) # NoReservation /\ row'[b] = row[b]
                /\ request'[q].op = op /\ request'[q].status = row[b].status
  BY <1>0, <1>5 DEF StartLookup, Accept
<1>6. ASSUME NEW p \in Request, StartRequest(p)
      PROVE  \/ Same
             \/ \E b \in Booking, op \in LookupOps \cap Operation :
                  /\ RefOf(row[b]) # NoReservation /\ row'[b] = row[b]
                  /\ request'[q].op = op /\ request'[q].status = row[b].status
  <2>1. PICK b \in Booking :
          \/ ApproveBooking(p, b) \/ RetryBooking(p, b) \/ RejectBooking(p, b)
          \/ StartCancel(p, b) \/ SendCachedForm(p, b)
          \/ \E op \in LookupOps : StartLookup(p, b, op)
    BY <1>6 DEF StartRequest
  <2>2. CASE \E op \in LookupOps : StartLookup(p, b, op)
    BY <2>2, <1>5
  <2>3. CASE ApproveBooking(p, b) \/ RetryBooking(p, b) \/ RejectBooking(p, b)
               \/ StartCancel(p, b) \/ SendCachedForm(p, b)
    BY <2>3, <1>2 DEF ApproveBooking, RetryBooking, RejectBooking, StartCancel, SendCachedForm
  <2> QED
    BY <2>1, <2>2, <2>3
<1>7. ASSUME NEW p \in Request, ContinueRequest(p) PROVE Same
  <2>1. CASE ElektraCreates(p) \/ NextEndpoint(p)
    BY <1>0, <2>1 DEF ElektraCreates, NextEndpoint, Handler
  <2>2. CASE PatchAndRetry(p)
    BY <1>0, <2>2 DEF PatchAndRetry, At, Handler
  <2> QED
    BY <1>7, <1>3, <1>4, <2>1, <2>2
       DEF ContinueRequest, CreateAnswered, CreateRaises, RecordCreated, LookupFetched,
           LookupStatusOnly, LookupRaises, ElektraCancels, RecordCancelled, CancelRaises,
           TellCustomer, TellFails, TellAdmin
<1>8. CASE Crash
  BY <1>8 DEF Crash, Idle
<1>9. CASE UNCHANGED vars
  BY <1>9 DEF vars
<1> QED
  BY <1>1, <1>6, <1>7, <1>8, <1>9 DEF Next
\* A write of a handler that goes on after an await: which row, and what may
\* be written there.
LEMMA ContinueWrites ==
  ASSUME IInv, OwnerInv, NEW q \in Request, ContinueRequest(q), NEW b \in Booking
  PROVE  \/ row'[b] = row[b]
         \/ /\ b = request[q].booking
            /\ \/ /\ At(q, "lookup")
                  /\ row'[b].status = request[q].status
               \/ row'[b].status \in {"elektra_created", "elektra_failed", "cancelled"}
<1>0. row \in [Booking -> Row]
  BY DEF IInv, TypeOK
<1>a. ASSUME NEW c, NEW s, NEW id, NEW resp, UpdateRow(c, s, id, resp)
      PROVE  row'[b] = row[b] \/ (b = c /\ row'[b].status = s)
  BY <1>0, <1>a DEF UpdateRow
<1>1. CASE LookupFetched(q) \/ LookupStatusOnly(q)
  <2>1. /\ At(q, "lookup")
        /\ \E id, resp : UpdateRow(request[q].booking, request[q].status, id, resp)
    BY <1>1 DEF LookupFetched, LookupStatusOnly, SetStatus
  <2> QED
    BY <1>a, <2>1
<1>2. CASE CreateRaises(q) \/ RecordCreated(q) \/ RecordCancelled(q)
  <2>1. \E s \in {"elektra_created", "elektra_failed", "cancelled"} : \E id, resp :
          UpdateRow(request[q].booking, s, id, resp)
    BY <1>2 DEF CreateRaises, RecordCreated, RecordCancelled
  <2> QED
    BY <1>a, <2>1
<1> QED
  BY <1>1, <1>2
     DEF ContinueRequest, ElektraCreates, CreateAnswered, NextEndpoint, PatchAndRetry,
         LookupRaises, ElektraCancels, CancelRaises, TellCustomer, TellFails, TellAdmin

LEMMA StepUnnamed ==
  ASSUME IInv, OwnerInv, [Next]_vars PROVE UnnamedOK'
<1> SUFFICES ASSUME "retry" \notin Operation PROVE
      /\ \A b \in Booking : row'[b].status \in {"absent", "pending_approval", "approved"} =>
           RefOf(row'[b]) = NoReservation
      /\ \A q \in Request : request'[q].step = "lookup" => request'[q].status # "approved"
  BY DEF UnnamedOK
<1>0. row \in [Booking -> Row]
  BY DEF IInv, TypeOK
<1>a. \A b \in Booking : row[b].status \in {"absent", "pending_approval", "approved"} =>
        RefOf(row[b]) = NoReservation
  BY DEF OwnerInv, UnnamedOK
<1>b. \A q \in Request : request[q].step = "lookup" => request[q].status # "approved"
  BY DEF OwnerInv, UnnamedOK
<1>1. ASSUME NEW q \in Request, request'[q].step = "lookup" PROVE request'[q].status # "approved"
  BY <1>1, <1>a, <1>b, LookupsAreAsked
<1>2. ASSUME NEW b \in Booking, row'[b].status \in {"absent", "pending_approval", "approved"}
      PROVE  RefOf(row'[b]) = NoReservation
  <2>1. CASE ChangeRows
    <3>1. \/ row'[b] = row[b]
          \/ row[b].status = "absent" /\ row'[b] = [row[b] EXCEPT !.status = "pending_approval"]
          \/ row'[b].status = "deleted"
      BY <1>0, <2>1 DEF ChangeRows, InsertRow, RecreateBooking, PurgePhone, Row
    <3>2. RefOf([row[b] EXCEPT !.status = "pending_approval"]) = RefOf(row[b])
      BY <1>0 DEF RefOf, Row
    <3> QED
      BY <1>2, <1>a, <3>1, <3>2
  <2>2. ASSUME NEW q \in Request, NEW c \in Booking, ApproveBooking(q, c)
        PROVE  RefOf(row'[b]) = NoReservation
    <3>1. SetStatus(c, "approved") /\ row[c].status = "pending_approval"
      BY <2>2 DEF ApproveBooking
    <3>2. RefOf(row[c]) = NoReservation
      BY <1>a, <3>1
    <3>3. \/ row'[b] = row[b]
          \/ b = c /\ row'[b] = [status |-> "approved", resId |-> row[c].resId, resp |-> row[c].resp]
      BY <1>0, <3>1, WriteOne DEF SetStatus
    <3> QED
      BY <1>2, <1>a, <3>2, <3>3 DEF RefOf
  <2>3. ASSUME NEW q \in Request, NEW c \in Booking, RejectBooking(q, c)
        PROVE  RefOf(row'[b]) = NoReservation
    <3>1. row'[b] = row[b] \/ row'[b].status = "rejected"
      <4>1. SetStatus(c, "rejected")
        BY <2>3 DEF RejectBooking
      <4> QED
        BY <1>0, <4>1 DEF SetStatus, UpdateRow
    <3> QED
      BY <1>2, <1>a, <3>1
  <2>4. ASSUME NEW q \in Request, StartRequest(q) PROVE RefOf(row'[b]) = NoReservation
    <3>1. ASSUME NEW c \in Booking PROVE ~RetryBooking(q, c)
      BY DEF RetryBooking, Accept
    <3> QED
      BY <1>2, <1>a, <2>2, <2>3, <2>4, <3>1
         DEF StartRequest, StartCancel, SendCachedForm, StartLookup
  <2>5. ASSUME NEW q \in Request, ContinueRequest(q) PROVE RefOf(row'[b]) = NoReservation
    <3>1. HandlerOK(request[q])
      BY DEF IInv
    <3>2. At(q, "lookup") => request[q].status \notin {"absent", "pending_approval", "approved"}
      BY <1>b, <3>1 DEF HandlerOK, At
    <3> QED
      BY <1>2, <1>a, <2>5, <3>2, ContinueWrites
  <2>6. CASE Crash \/ UNCHANGED vars
    BY <1>2, <1>a, <2>6 DEF Crash, vars
  <2> QED
    BY <2>1, <2>4, <2>5, <2>6 DEF Next
<1> QED
  BY <1>1, <1>2

\* A row that stays or becomes approved has a request that will settle it.
LEMMA StepOwner ==
  ASSUME IInv, OwnerInv, [Next]_vars, Undisturbed,
         NEW b \in Booking, row'[b].status = "approved"
  PROVE  \E q \in Request : Owns(request'[q], b)
<1>0. row \in [Booking -> Row] /\ request \in [Request -> Handler]
  BY DEF IInv, TypeOK
<1>a. ASSUME row'[b] = row[b] PROVE \E q \in Request : Owns(request[q], b)
  BY <1>a DEF OwnerInv
<1>1. CASE ChangeRows
  <2>1. request' = request
    BY <1>1 DEF ChangeRows, InsertRow, RecreateBooking, PurgePhone
  <2>2. \A c \in Booking : InsertRow(c) => row'[b] = row[b]
    BY <1>0 DEF InsertRow, Row
  <2>3. \A p \in Phone : PurgePhone(p) => row'[b] = row[b]
    BY <1>0 DEF PurgePhone
  <2>4. row'[b] = row[b]
    BY <1>1, <2>2, <2>3 DEF ChangeRows, RecreateBooking
  <2> QED
    BY <1>a, <2>1, <2>4
<1>2. ASSUME NEW p \in Request, NEW c \in Booking, NEW op, NEW s, Accept(p, op, c, s),
             row'[b] = row[b]
      PROVE  \E q \in Request : Owns(request'[q], b)
  <2>1. PICK q \in Request : Owns(request[q], b)
    BY <1>a, <1>2
  <2>2. q # p
    BY <1>2, <2>1 DEF Owns, Accept
  <2> QED
    BY <1>0, <1>2, <2>1, <2>2 DEF Accept
<1>3. ASSUME NEW p \in Request, StartRequest(p)
      PROVE  \E q \in Request : Owns(request'[q], b)
  <2>1. PICK c \in Booking :
          \/ ApproveBooking(p, c) \/ RetryBooking(p, c) \/ RejectBooking(p, c)
          \/ StartCancel(p, c) \/ SendCachedForm(p, c)
          \/ \E op \in LookupOps : StartLookup(p, c, op)
    BY <1>3 DEF StartRequest
  <2>2. CASE ApproveBooking(p, c) \/ RetryBooking(p, c)
    <3>1. (\E op : Accept(p, op, c, "create")) /\ SetStatus(c, "approved")
      BY <2>2 DEF ApproveBooking, RetryBooking
    <3>2. CASE b = c
      <4>1. request'[p].booking = b /\ request'[p].step = "create"
        BY <1>0, <3>1, <3>2 DEF Accept
      <4> QED
        BY <4>1 DEF Owns
    <3>3. CASE b # c
      <4>1. row'[b] = row[b]
        BY <1>0, <3>1, <3>3, WriteOne DEF SetStatus
      <4> QED
        BY <1>2, <3>1, <4>1
    <3> QED
      BY <3>2, <3>3
  <2>3. CASE RejectBooking(p, c)
    <3>1. row'[b] = row[b]
      <4>1. SetStatus(c, "rejected")
        BY <2>3 DEF RejectBooking
      <4> QED
        BY <1>0, <4>1 DEF SetStatus, UpdateRow
    <3> QED
      BY <1>2, <2>3, <3>1 DEF RejectBooking
  <2>4. CASE StartCancel(p, c) \/ SendCachedForm(p, c) \/ \E op \in LookupOps : StartLookup(p, c, op)
    BY <1>2, <2>4 DEF StartCancel, SendCachedForm, StartLookup
  <2> QED
    BY <2>1, <2>2, <2>3, <2>4
<1>4. ASSUME NEW p \in Request, ContinueRequest(p)
      PROVE  \E q \in Request : Owns(request'[q], b)
  <2>1. row'[b] = row[b]
    <3>1. At(p, "lookup") => request[p].status # "approved"
      BY DEF Undisturbed, OwnerInv, UnnamedOK, At
    <3> QED
      BY <1>4, <3>1, ContinueWrites
  <2>2. PICK q \in Request : Owns(request[q], b)
    BY <1>a, <2>1
  <2>3. request[q].booking = b /\ request[q].step \in {"create", "created", "enrich"}
    BY <2>2 DEF Owns
  <2>4. CASE ElektraCreates(p) \/ CreateAnswered(p) \/ NextEndpoint(p) \/ PatchAndRetry(p)
    <3>1. CASE q # p
      BY <1>0, <2>2, <2>4, <3>1
         DEF ElektraCreates, CreateAnswered, NextEndpoint, PatchAndRetry, GoTo
    <3>2. CASE q = p
      <4>1. request'[q].booking = b
        BY <1>0, <2>3, <2>4, <3>2
           DEF ElektraCreates, CreateAnswered, NextEndpoint, PatchAndRetry, GoTo, Handler
      <4>2. request'[q].step \in {"create", "created", "enrich"}
        BY <1>0, <2>3, <2>4, <3>2
           DEF ElektraCreates, CreateAnswered, NextEndpoint, PatchAndRetry, GoTo, Handler
      <4> QED
        BY <4>1, <4>2 DEF Owns
    <3> QED
      BY <3>1, <3>2
  <2>5. CASE CreateRaises(p) \/ RecordCreated(p)
    <3>1. Exists(b)
      BY <2>1 DEF Exists, NoRow
    <3>2. request[p].booking # b
      <4>1. \E s \in {"elektra_created", "elektra_failed"} : \E id, resp :
              UpdateRow(request[p].booking, s, id, resp)
        BY <2>5 DEF CreateRaises, RecordCreated
      <4> QED
        BY <1>0, <3>1, <4>1 DEF UpdateRow
    <3>3. q # p
      BY <2>3, <3>2
    <3> QED
      BY <1>0, <2>2, <2>5, <3>3 DEF CreateRaises, RecordCreated, GoTo
  <2>6. ASSUME request[p].step \notin {"create", "created", "enrich"},
               Finish(p) \/ \E s : GoTo(p, s)
        PROVE  \E r \in Request : Owns(request'[r], b)
    BY <1>0, <2>2, <2>3, <2>6 DEF Finish, GoTo
  <2>7. \/ ElektraCreates(p) \/ CreateAnswered(p) \/ NextEndpoint(p) \/ PatchAndRetry(p)
        \/ CreateRaises(p) \/ RecordCreated(p)
        \/ /\ request[p].step \notin {"create", "created", "enrich"}
           /\ Finish(p) \/ \E s : GoTo(p, s)
    <3>1. CASE TellCustomer(p) \/ TellFails(p)
      BY <3>1 DEF TellCustomer, TellFails, NoticeAt
    <3> QED
      BY <1>4, <3>1
         DEF ContinueRequest, LookupFetched, LookupStatusOnly, LookupRaises, ElektraCancels,
             RecordCancelled, CancelRaises, TellAdmin, At
  <2> QED
    BY <2>4, <2>5, <2>6, <2>7
<1>5. CASE Crash
  BY <1>5 DEF Crash, Undisturbed
<1>6. CASE UNCHANGED vars
  BY <1>6, <1>a DEF vars
<1> QED
  BY <1>1, <1>3, <1>4, <1>5, <1>6 DEF Next

LEMMA StepOwnerInv == IInv /\ OwnerInv /\ [Next]_vars => OwnerInv'
<1> SUFFICES ASSUME IInv, OwnerInv, [Next]_vars PROVE OwnerInv'
  OBVIOUS
<1>1. ASSUME NEW q \in Request, request'[q].step = "lookup"
      PROVE  request'[q].op \in LookupOps \cap Operation
  BY <1>1, LookupsAreAsked DEF OwnerInv
<1> QED
  BY <1>1, StepUnnamed, StepOwner DEF OwnerInv

\* Without crashes, and not both retries and stale writes, a row that says
\* approved is being worked on: the rows that retry is offered for
\* (hotel_bookings_routes.py, "approved" in the retry check) come from nothing
\* else.
THEOREM ApprovedIsWorkedOn == Spec => []ApprovedHasOwner
<1>1. OwnerInv => ApprovedHasOwner
  BY DEF OwnerInv, ApprovedHasOwner, Undisturbed, Owns
<1> QED
  BY <1>1, InitOwner, StepOwnerInv, Invariance, PTL DEF Spec
=============================================================================
