---------------------------- MODULE TransferFlow ----------------------------
(***************************************************************************)
(* A customer books a transfer in the chat (handlers/transfer_start_       *)
(* handler, services/transfer_reservation_service).  The details are asked *)
(* for one after the other, a message may also give several of them or     *)
(* change one, and a yes to the summary makes the reservation.             *)
(*                                                                         *)
(* The flow is an entry of transfer_booking_flows.json, the reservations   *)
(* are rows of transfer_reservations.json.  The operators below are the    *)
(* steps of the handler and of the admin routes; ChatRoute composes them   *)
(* with the handling of messages.                                          *)
(***************************************************************************)
EXTENDS Naturals, Sequences

CONSTANTS
  Asked,        \* the details, in the order in which they are asked for
  KeyField,     \* the details two requests are compared by
  Value,        \* what a detail may be: a bound
  Said,         \* the details one message may give: a bound
  Row,          \* reservation numbers: a bound
  Decision,     \* the statuses staff set in the admin panel: a bound
  NoValue, NoFlow, NoRow, NoData

VARIABLES
  flow,         \* the customer's entry in the file of flows
  rows,         \* the transfer reservations of the last 48 hours
  shown,        \* the details of the last summary of this flow
  undone,       \* a thread has put back an older entry
  relic         \* the flow outlived its conversation: the file was removed,
                \* or a thread put the flow back

marks        == <<undone, relic>>
transferVars == <<flow, rows, shown, marks>>

-----------------------------------------------------------------------------
Field == {Asked[i] : i \in DOMAIN Asked}
Data  == [Field -> Value \cup {NoValue}]
Blank == [f \in Field |-> NoValue]

Full == [Field -> Value]

(* begun numbers the conversation in which the flow began.                 *)
Flow == [state : Field \cup {"confirm"}, data : Data, begun : Nat]

TransferStatus == {"pending", "confirmed", "cancelled", "updated"}

(* made is what the row was made with: the admin's changes leave the key   *)
(* as it is.                                                               *)
Reservation == [made : Full, status : TransferStatus]

ASSUME TransferAssumption ==
  /\ Asked \in Seq(STRING) /\ Asked # <<>> /\ "confirm" \notin Field
  /\ KeyField \subseteq Field
  /\ NoValue \notin Value
  /\ Said \subseteq Data
  /\ Decision \subseteq TransferStatus
  /\ NoFlow \notin Flow /\ NoRow \notin Reservation /\ NoData \notin Data

TransferInit ==
  /\ flow = NoFlow
  /\ rows = [r \in Row |-> NoRow]
  /\ shown = NoData
  /\ undone = FALSE /\ relic = FALSE

-----------------------------------------------------------------------------
(* The first detail that is missing, or the question for the yes.          *)
Missing(d) ==
  IF \E f \in Field : d[f] = NoValue
  THEN Asked[CHOOSE i \in DOMAIN Asked :
               /\ d[Asked[i]] = NoValue
               /\ \A j \in DOMAIN Asked : d[Asked[j]] = NoValue => i <= j]
  ELSE "confirm"

Merged(d, h) == [f \in Field |-> IF h[f] = NoValue THEN d[f] ELSE h[f]]

Entry(d, n) == [state |-> Missing(d), data |-> d, begun |-> n]

\* Mutation: a change after the summary is stored, but not shown again.
StoreSilently(f) ==
  /\ flow' = f
  /\ shown' = IF f = NoFlow THEN NoData
              ELSE IF f.state # "confirm" THEN NoData
              ELSE IF shown = NoData THEN f.data ELSE shown
  /\ undone' = FALSE /\ relic' = (relic /\ f # NoFlow)
  /\ UNCHANGED rows

(* The flow the handler stores, and what its reply shows of it.            *)
Store(f) ==
  /\ flow' = f
  /\ shown' = IF f = NoFlow THEN NoData
              ELSE IF f.state = "confirm" THEN f.data ELSE NoData
  /\ undone' = FALSE /\ relic' = (relic /\ f # NoFlow)
  /\ UNCHANGED rows

-----------------------------------------------------------------------------
(* The entries a turn of the handler may leave.                            *)

Begun(n) == IF flow = NoFlow THEN {Entry(Blank, n)} ELSE {}

(* What the message gives is kept if it answers the question or asks for a *)
(* change; otherwise it is dropped and the question is put again.          *)
Told ==
  IF flow = NoFlow THEN {}
  ELSE LET kept == {Entry(Merged(flow.data, h), flow.begun) : h \in Said}
       IN  kept \cup {f \in {flow} : f.state # "confirm" /\ \E k \in kept : k.state = f.state}

(* A cancel word, or a no to the summary.                                  *)
CalledOff == IF flow = NoFlow THEN {} ELSE {NoFlow}

Key(d) == [f \in KeyField |-> d[f]]

Duplicates(d) == {r \in Row : rows[r] # NoRow /\ Key(rows[r].made) = Key(d)}

\* Mutation: the rows that are there are not looked at.
CreateAlways ==
  /\ flow # NoFlow /\ flow.state = "confirm"
  /\ \E r \in Row :
       /\ rows[r] = NoRow
       /\ rows' = [rows EXCEPT ![r] = [made |-> flow.data, status |-> "pending"]]
  /\ UNCHANGED <<flow, shown, marks>>

(* The yes: a row with the same key of the last 48 hours, whatever its     *)
(* status, stands for the new one.                                         *)
Create ==
  /\ flow # NoFlow /\ flow.state = "confirm"
  /\ IF Duplicates(flow.data) # {} THEN UNCHANGED rows
     ELSE \E r \in Row :
            /\ rows[r] = NoRow
            /\ rows' = [rows EXCEPT ![r] = [made |-> flow.data, status |-> "pending"]]
  /\ UNCHANGED <<flow, shown, marks>>

-----------------------------------------------------------------------------
(* The admin routes look at no status; a change of the details makes it    *)
(* "updated".                                                              *)
SetStatus(r, status) ==
  /\ rows[r] # NoRow
  /\ rows' = [rows EXCEPT ![r].status = status]
  /\ UNCHANGED <<flow, shown, marks>>
=============================================================================
