---------------------------- MODULE HotelBooking ----------------------------
(***************************************************************************)
(* The life of a hotel booking: the row of the SQLite table                *)
(* hotel_bookings, the admin handlers of app/routes/hotel_bookings_routes  *)
(* that read and write it, and the reservations those handlers make and    *)
(* cancel in the Elektra property management system.                       *)
(*                                                                         *)
(* All handlers are coroutines of one asyncio loop.  Between two awaits a  *)
(* handler runs alone, so every action below is the code from one await to *)
(* the next; a handler waiting for Elektra or for WhatsApp is a record in  *)
(* request, with what it remembers of the row it read before the await.    *)
(***************************************************************************)
EXTENDS Naturals

CONSTANTS
  Booking,      \* row ids of hotel_bookings (AUTOINCREMENT: never reused)
  Phone,        \* customer phones
  PhoneOf,      \* the customer_phone of every row
  Reservation,  \* reservations Elektra can still make: a bound
  Request,      \* HTTP requests being served at the same time: a bound
  Endpoints,    \* length of the endpoint candidate list of a create call
  Attempts,     \* max_adaptive_attempts of a create call
  Operation,    \* the admin operations in use
  CanCrash,     \* the process may die and be restarted
  NoBooking, NoReservation

Operations == {"approve", "retry", "reject", "cancel",
               "sync", "form", "update", "deposit", "purge"}

ASSUME BookingAssumption ==
  /\ PhoneOf \in [Booking -> Phone]
  /\ NoBooking \notin Booking
  /\ NoReservation \notin Reservation
ASSUME BoundsAssumption ==
  /\ Endpoints \in Nat \ {0}
  /\ Attempts \in Nat \ {0}
  /\ Operation \subseteq Operations
  /\ CanCrash \in BOOLEAN

VARIABLES
  row,        \* the table: [status, resId, resp] of every row id
  elektra,    \* what Elektra holds: [booking, state] of every reservation
  request,    \* what every request being served is doing
  told,       \* the messages the customer of a booking has received
  approvals   \* times a row passed the approve button's status check

vars == <<row, elektra, request, told, approvals>>

-----------------------------------------------------------------------------
BookingStatus == {"pending_approval", "approved", "rejected",
                  "elektra_created", "elektra_failed", "cancelled"}
NoRow     == {"absent", "deleted"}
MaybeRes  == Reservation \cup {NoReservation}

(* resId is elektra_reservation_id; resp is the reservation id that the    *)
(* JSON kept in elektra_response names, if it still parses and names one.  *)
Row == [status : BookingStatus \cup NoRow, resId : MaybeRes, resp : MaybeRes]

Step == {"idle", "create", "created", "enrich", "lookup", "cancel",
         "cancelled", "tell created", "tell rejected", "tell form",
         "tell admin"}

(* status and ref are what the handler read before its first await; tries  *)
(* and attempt count the POSTs of a create call.                           *)
Handler == [op : Operations \cup {"none"}, step : Step,
            booking : Booking \cup {NoBooking},
            status : BookingStatus \cup {"absent"}, ref : MaybeRes,
            tries : 0..(Endpoints - 1), attempt : 0..Attempts]

Idle == [op |-> "none", step |-> "idle", booking |-> NoBooking,
         status |-> "absent", ref |-> NoReservation, tries |-> 0, attempt |-> 0]

Notice == {"created", "rejected", "form"}

TypeOK ==
  /\ row \in [Booking -> Row]
  /\ elektra \in [Reservation ->
                    [booking : Booking \cup {NoBooking},
                     state : {"none", "live", "cancelled"}]]
  /\ request \in [Request -> Handler]
  /\ told \in [Booking -> SUBSET Notice]
  /\ approvals \in [Booking -> 0..2]

Init ==
  /\ row = [b \in Booking |->
              [status |-> "absent", resId |-> NoReservation, resp |-> NoReservation]]
  /\ elektra = [r \in Reservation |-> [booking |-> NoBooking, state |-> "none"]]
  /\ request = [q \in Request |-> Idle]
  /\ told = [b \in Booking |-> {}]
  /\ approvals = [b \in Booking |-> 0]

-----------------------------------------------------------------------------
(* Helpers                                                                 *)

Exists(b) == row[b].status \notin NoRow

(* update_hotel_booking_status: an UPDATE ... WHERE id = ?, which tests    *)
(* neither the status it replaces nor that the row is still there.         *)
UpdateRow(b, status, resId, resp) ==
  row' = IF Exists(b)
         THEN [row EXCEPT ![b] = [status |-> status, resId |-> resId, resp |-> resp]]
         ELSE row

SetStatus(b, status) == UpdateRow(b, status, row[b].resId, row[b].resp)

(* _extract_booking_refs: the column first, then the cached response.      *)
RefOf(r) == IF r.resId # NoReservation THEN r.resId ELSE r.resp

Accept(q, op, b, step) ==
  /\ op \in Operation
  /\ request[q].step = "idle"
  /\ Exists(b)
  /\ request' = [request EXCEPT ![q] =
       [op |-> op, step |-> step, booking |-> b, status |-> row[b].status,
        ref |-> RefOf(row[b]), tries |-> 0, attempt |-> 1]]

GoTo(q, step)  == request' = [request EXCEPT ![q].step = step]
Finish(q)      == request' = [request EXCEPT ![q] = Idle]
At(q, step)    == request[q].step = step

-----------------------------------------------------------------------------
(* Rows come and go                                                        *)

(* The customer's flow confirms, or an admin uses manual-create: a new     *)
(* pending row.  recreate copies a row that is not pending into a new one  *)
(* of the same customer; the status it writes afterwards is the new row's. *)
InsertRow(b) ==
  /\ row[b].status = "absent"
  /\ row' = [row EXCEPT ![b].status = "pending_approval"]
  /\ UNCHANGED <<elektra, request, told, approvals>>

RecreateBooking(source, b) ==
  /\ Exists(source)
  /\ row[source].status # "pending_approval"
  /\ PhoneOf[b] = PhoneOf[source]
  /\ InsertRow(b)

(* The hard purge of a phone archives and deletes all its rows.            *)
PurgePhone(p) ==
  /\ "purge" \in Operation
  /\ \E b \in Booking : PhoneOf[b] = p /\ Exists(b)
  /\ row' = [b \in Booking |->
               IF PhoneOf[b] = p /\ Exists(b)
               THEN [status |-> "deleted", resId |-> NoReservation,
                     resp |-> NoReservation]
               ELSE row[b]]
  /\ UNCHANGED <<elektra, request, told, approvals>>

-----------------------------------------------------------------------------
(* Approve, retry, reject: the part before the first await                 *)

ApproveBooking(q, b) ==
  /\ row[b].status = "pending_approval"
  /\ Accept(q, "approve", b, "create")
  /\ SetStatus(b, "approved")
  /\ approvals' = [approvals EXCEPT ![b] = IF @ < 2 THEN @ + 1 ELSE @]
  /\ UNCHANGED <<elektra, told>>

\* Mutation: retry without its status check.
RetryBookingUnchecked(q, b) ==
  /\ Accept(q, "retry", b, "create")
  /\ SetStatus(b, "approved")
  /\ UNCHANGED <<elektra, told, approvals>>

RetryBooking(q, b) ==
  /\ row[b].status \in {"elektra_failed", "approved"}
  /\ Accept(q, "retry", b, "create")
  /\ SetStatus(b, "approved")
  /\ UNCHANGED <<elektra, told, approvals>>

RejectBooking(q, b) ==
  /\ Accept(q, "reject", b, "tell rejected")
  /\ SetStatus(b, "rejected")
  /\ UNCHANGED <<elektra, told, approvals>>

-----------------------------------------------------------------------------
(* The create call.  It POSTs to one endpoint candidate after another: a   *)
(* transport error, 404 or 405 moves on to the next one, any other error   *)
(* ends the round, and some of those errors patch the payload and start    *)
(* the round again.                                                        *)

ElektraCreates(q) ==
  /\ At(q, "create")
  /\ \E r \in Reservation :
       /\ elektra[r].state = "none"
       /\ elektra' = [elektra EXCEPT ![r] =
                        [booking |-> request[q].booking, state |-> "live"]]
       /\ request' = [request EXCEPT ![q].step = "created", ![q].ref = r]
  /\ UNCHANGED <<row, told, approvals>>

(* The answer arrives.  The reservation number in it may be missing.       *)
CreateAnswered(q) ==
  /\ At(q, "created")
  /\ GoTo(q, "enrich")
  /\ UNCHANGED <<row, elektra, told, approvals>>

\* Mutations: one endpoint too many; the candidate list starts over for ever.
NextEndpointOffByOne(q) ==
  /\ At(q, "create") \/ At(q, "created")
  /\ request[q].tries < Endpoints
  /\ request' = [request EXCEPT ![q].step = "create", ![q].tries = @ + 1]
  /\ UNCHANGED <<row, elektra, told, approvals>>

NextEndpointForever(q) ==
  /\ At(q, "create") \/ At(q, "created")
  /\ request' = [request EXCEPT ![q].step = "create",
                               ![q].tries = (@ + 1) % Endpoints]
  /\ UNCHANGED <<row, elektra, told, approvals>>

(* 404 or 405 before anything was made, or a transport error before or     *)
(* after: the same payload goes to the next candidate.                     *)
NextEndpoint(q) ==
  /\ At(q, "create") \/ At(q, "created")
  /\ request[q].tries + 1 < Endpoints
  /\ request' = [request EXCEPT ![q].step = "create", ![q].tries = @ + 1]
  /\ UNCHANGED <<row, elektra, told, approvals>>

(* Elektra refuses the payload and the patched payload is sent again.      *)
PatchAndRetry(q) ==
  /\ At(q, "create")
  /\ request[q].attempt < Attempts
  /\ request' = [request EXCEPT ![q].tries = 0, ![q].attempt = @ + 1]
  /\ UNCHANGED <<row, elektra, told, approvals>>

\* Mutations: the exception handler falls through to the success message, or
\* forgets the row.
CreateRaisesFallThrough(q) ==
  /\ At(q, "create") \/ At(q, "created")
  /\ LET b == request[q].booking
     IN  UpdateRow(b, "elektra_failed", row[b].resId, NoReservation)
  /\ GoTo(q, "tell created")
  /\ UNCHANGED <<elektra, told, approvals>>

CreateRaisesForgetsRow(q) ==
  /\ At(q, "create") \/ At(q, "created")
  /\ GoTo(q, "tell admin")
  /\ UNCHANGED <<row, elektra, told, approvals>>

(* The call raises: a refusal, an unreadable answer, or the last transport *)
(* error.  The row becomes elektra_failed and the error text replaces the  *)
(* cached response.                                                        *)
CreateRaises(q) ==
  /\ At(q, "create") \/ At(q, "created")
  /\ LET b == request[q].booking
     IN  UpdateRow(b, "elektra_failed", row[b].resId, NoReservation)
  /\ GoTo(q, "tell admin")
  /\ UNCHANGED <<elektra, told, approvals>>

(* After getReservation and the pax update, whose errors are swallowed.    *)
RecordCreated(q) ==
  /\ At(q, "enrich")
  /\ \E id, resp \in {request[q].ref, NoReservation} :
       UpdateRow(request[q].booking, "elektra_created", id, resp)
  /\ GoTo(q, "tell created")
  /\ UNCHANGED <<elektra, told, approvals>>

-----------------------------------------------------------------------------
(* Handlers that read the row, wait for Elektra, and write the status they *)
(* read back: elektra/sync, send-confirmation-form, elektra/update and     *)
(* force-deposit-zero.                                                     *)

LookupOps == {"sync", "form", "update", "deposit"}

\* Mutation: the handlers do not ask for a reservation number first.
StartLookupUnchecked(q, b, op) ==
  /\ op \in LookupOps
  /\ Accept(q, op, b, "lookup")
  /\ UNCHANGED <<row, elektra, told, approvals>>

StartLookup(q, b, op) ==
  /\ op \in LookupOps
  /\ RefOf(row[b]) # NoReservation
  /\ Accept(q, op, b, "lookup")
  /\ UNCHANGED <<row, elektra, told, approvals>>

\* Mutation: the reservation number is kept in a variable the requests share.
LookupFetchedShared(q) ==
  /\ At(q, "lookup")
  /\ request[q].op \in {"sync", "form"}
  /\ \E other \in Request :
       UpdateRow(request[q].booking, request[q].status, request[other].ref,
                 NoReservation)
  /\ Finish(q)
  /\ UNCHANGED <<elektra, told, approvals>>

(* The reservation was fetched: the row gets its id and its JSON (which    *)
(* may be cut off) and the status read before the await.  The confirmation *)
(* form goes on to send the link if the JSON holds one.                    *)
LookupFetched(q) ==
  /\ At(q, "lookup")
  /\ request[q].op \in {"sync", "form"}
  /\ \E resp \in {request[q].ref, NoReservation} :
       UpdateRow(request[q].booking, request[q].status, request[q].ref, resp)
  /\ \/ Finish(q)
     \/ request[q].op = "form" /\ GoTo(q, "tell form")
  /\ UNCHANGED <<elektra, told, approvals>>

(* Elektra changed the reservation, or the tenant has no lookup endpoint   *)
(* (the soft fallback of sync): the stale status is written back alone.    *)
LookupStatusOnly(q) ==
  /\ At(q, "lookup")
  /\ request[q].op \in {"update", "deposit", "sync"}
  /\ SetStatus(request[q].booking, request[q].status)
  /\ Finish(q)
  /\ UNCHANGED <<elektra, told, approvals>>

(* Any other error leaves the row alone.                                   *)
LookupRaises(q) ==
  /\ At(q, "lookup")
  /\ Finish(q)
  /\ UNCHANGED <<row, elektra, told, approvals>>

(* The cached response already holds the confirmation link.                *)
SendCachedForm(q, b) ==
  /\ row[b].resp # NoReservation
  /\ Accept(q, "form", b, "tell form")
  /\ UNCHANGED <<row, elektra, told, approvals>>

-----------------------------------------------------------------------------
(* elektra/cancel                                                          *)

StartCancel(q, b) ==
  /\ RefOf(row[b]) # NoReservation
  /\ Accept(q, "cancel", b, "cancel")
  /\ UNCHANGED <<row, elektra, told, approvals>>

ElektraCancels(q) ==
  /\ At(q, "cancel")
  /\ elektra' = [elektra EXCEPT ![request[q].ref].state = "cancelled"]
  /\ GoTo(q, "cancelled")
  /\ UNCHANGED <<row, told, approvals>>

RecordCancelled(q) ==
  /\ At(q, "cancelled")
  /\ LET b == request[q].booking
     IN  \E resp \in {request[q].ref, NoReservation} :
           UpdateRow(b, "cancelled", row[b].resId, resp)
  /\ Finish(q)
  /\ UNCHANGED <<elektra, told, approvals>>

\* Mutation: the failure of the cancel call is swallowed.
CancelRaisesSwallowed(q) ==
  /\ At(q, "cancel") \/ At(q, "cancelled")
  /\ SetStatus(request[q].booking, "cancelled")
  /\ Finish(q)
  /\ UNCHANGED <<elektra, told, approvals>>

(* The call raises, before or after Elektra cancelled.                     *)
CancelRaises(q) ==
  /\ At(q, "cancel") \/ At(q, "cancelled")
  /\ Finish(q)
  /\ UNCHANGED <<row, elektra, told, approvals>>

-----------------------------------------------------------------------------
(* Messages.  send_whatsapp_message never raises: it returns True when     *)
(* WhatsApp took the message.                                              *)

NoticeAt == [step \in {"tell created", "tell rejected", "tell form"} |->
               CASE step = "tell created"  -> "created"
                 [] step = "tell rejected" -> "rejected"
                 [] OTHER                  -> "form"]

TellCustomer(q) ==
  /\ request[q].step \in DOMAIN NoticeAt
  /\ told' = [told EXCEPT ![request[q].booking] = @ \cup {NoticeAt[request[q].step]}]
  /\ \/ Finish(q)
     \/ At(q, "tell created") /\ GoTo(q, "tell form")
  /\ UNCHANGED <<row, elektra, approvals>>

TellFails(q) ==
  /\ request[q].step \in DOMAIN NoticeAt
  /\ \/ Finish(q)
     \/ At(q, "tell created") /\ GoTo(q, "tell form")
  /\ UNCHANGED <<row, elektra, told, approvals>>

TellAdmin(q) ==
  /\ At(q, "tell admin")
  /\ Finish(q)
  /\ UNCHANGED <<row, elektra, told, approvals>>

-----------------------------------------------------------------------------
(* The process dies: every request is lost, the table and Elektra stay.    *)
Crash ==
  /\ CanCrash
  /\ \E q \in Request : request[q].step # "idle"
  /\ request' = [q \in Request |-> Idle]
  /\ UNCHANGED <<row, elektra, told, approvals>>

StartRequest(q) ==
  \E b \in Booking :
    \/ ApproveBooking(q, b)
    \/ RetryBooking(q, b)
    \/ RejectBooking(q, b)
    \/ StartCancel(q, b)
    \/ SendCachedForm(q, b)
    \/ \E op \in LookupOps : StartLookup(q, b, op)

ContinueRequest(q) ==
  \/ ElektraCreates(q) \/ CreateAnswered(q) \/ NextEndpoint(q)
  \/ PatchAndRetry(q) \/ CreateRaises(q) \/ RecordCreated(q)
  \/ LookupFetched(q) \/ LookupStatusOnly(q) \/ LookupRaises(q)
  \/ ElektraCancels(q) \/ RecordCancelled(q) \/ CancelRaises(q)
  \/ TellCustomer(q) \/ TellFails(q) \/ TellAdmin(q)

ChangeRows ==
  \/ \E b \in Booking : InsertRow(b)
  \/ \E source, b \in Booking : RecreateBooking(source, b)
  \/ \E p \in Phone : PurgePhone(p)

Next ==
  \/ ChangeRows
  \/ \E q \in Request : StartRequest(q)
  \/ \E q \in Request : ContinueRequest(q)
  \/ Crash

Spec == Init /\ [][Next]_vars

(* Every await of a handler ends: the HTTP calls have timeouts, and the    *)
(* loop schedules whatever is ready.  Admins and customers owe nothing.    *)
FairSpec == Spec /\ \A q \in Request : WF_vars(ContinueRequest(q))
-----------------------------------------------------------------------------
(* Properties                                                              *)

ReservationsOf(b) == {r \in Reservation : elektra[r].booking = b}

\* A row never names a reservation Elektra made for another booking: with
\* several admins working on several rows at once, no answer is recorded on
\* the wrong row (approve, sync, form and cancel all write after an await).
RowNamesOwnReservation ==
  \A b \in Booking :
    {row[b].resId, row[b].resp} \subseteq ReservationsOf(b) \cup {NoReservation}

\* Elektra holds no reservation for a booking whose row never passed the
\* approve button: retry, a crash, and the handlers that write a stale status
\* back cannot make a way around the manual approval.
ReservationNeedsApproval ==
  \A b \in Booking : ReservationsOf(b) # {} => approvals[b] > 0

\* A row passes the approve button at most once in its life, although four
\* handlers write back a status they read before an await and approve writes
\* its own status before it creates anything.
ApprovedOnce == \A b \in Booking : approvals[b] <= 1

\* A customer who was told of a reservation, or sent a confirmation form, has
\* had one made in Elektra.
NoticeBacked ==
  \A b \in Booking : told[b] \cap {"created", "form"} # {} => ReservationsOf(b) # {}

\* A row that says cancelled belongs to a booking of which Elektra did cancel
\* a reservation: not when the cancel call failed, and not through a stale
\* status written back.
CancelledIsReal ==
  \A b \in Booking :
    row[b].status = "cancelled" =>
      \E r \in ReservationsOf(b) : elektra[r].state = "cancelled"

\* With no crash, and not both a retry and a handler that writes a stale
\* status back, a row that says approved has a request in flight that will
\* settle it: the stuck rows that retry is offered for have no other cause.
ApprovedHasOwner ==
  ~CanCrash /\ (Operation \cap LookupOps = {} \/ "retry" \notin Operation) =>
    \A b \in Booking :
      row[b].status = "approved" =>
        \E q \in Request :
          request[q].booking = b /\ request[q].step \in {"create", "created", "enrich"}

\* A row that has left pending_approval does not come back to it, whatever
\* stale status is written: nothing is offered for approval a second time.
PendingNeverReturns ==
  [][\A b \in Booking :
       row'[b].status = "pending_approval" =>
         row[b].status \in {"absent", "pending_approval"}]_vars

\* Every admin request ends, whatever Elektra and WhatsApp answer and however
\* requests on one row overlap.
RequestsFinish ==
  \A q \in Request : request[q].step # "idle" ~> request[q].step = "idle"

\* Under the conditions of ApprovedHasOwner an approved row is settled: it
\* becomes created, failed, rejected or cancelled, or is purged.
ApprovedSettles ==
  \A b \in Booking : row[b].status = "approved" ~> row[b].status # "approved"
=============================================================================
