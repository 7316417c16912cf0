----------------------------- MODULE Restaurant -----------------------------
(***************************************************************************)
(* A customer books a table in the chat (flows/reservation_flow_runtime)   *)
(* and may cancel it there (services/cancel_service).  The flow is kept in *)
(* reservation_flows.json, the reservations in a table of their own.       *)
(*                                                                         *)
(* Messages are handled one at a time.  Threads sweep the same file: the   *)
(* hourly job removes flows that are too old, a timer the flow of a chat   *)
(* that is closed.  A sweep loads the file, and saves the whole of it if   *)
(* it removes anything, also what was changed in between.                  *)
(*                                                                         *)
(* One customer is modelled; the flows of others matter by being removed.  *)
(***************************************************************************)
EXTENDS Naturals, FiniteSets

CONSTANTS
  Dialogue,     \* names of the flows the customer begins: a bound
  Row,          \* reservation numbers: a bound
  Sweeper,      \* threads that sweep the file of flows
  MaxParty,     \* the largest party a message names
  AutoLimit,    \* the largest party that is booked without staff (9)
  Decision,     \* the statuses staff set in the admin panel: a bound
  Change,       \* what staff write over a reservation's details: a bound
  Happens,      \* what happens besides the flow itself: a bound
  NoFlow, NoCopy, NoRow, NoData

Happenings == {"restart", "purge", "cancel", "cancel_midway"}

Dates == {"none", "season", "out"}
Times == {"none", "served", "late"}
Heard == [guests : 0..MaxParty, date : Dates, time : Times]

ASSUME LimitAssumption ==
  /\ AutoLimit \in Nat \ {0} /\ MaxParty \in Nat
  /\ Change \subseteq Heard
  /\ Decision \subseteq {"confirmed", "cancelled", "no_show", "completed"}
  /\ Happens \subseteq Happenings

VARIABLES
  flow,     \* the customer's entry in reservation_flows.json
  copy,     \* the entry as a sweep has loaded it and will save it
  rows,     \* the reservations
  file,     \* the question of the cancellation, in the conversation file
  memory,   \* the same in _CANCEL_STATE
  shown,    \* the details of the last summary, for every dialogue
  used,     \* dialogues that have begun
  undone,   \* dialogues a sweep has put back or overwritten
  cut       \* dialogues whose confirmation a restart has cut

flowVars   == <<flow, shown, used, cut>>
cancelVars == <<file, memory>>
sweepVars  == <<copy, undone>>
vars == <<flow, copy, rows, file, memory, shown, used, undone, cut>>

-----------------------------------------------------------------------------
(* kept is history: the hour replaced another, whose meal is still noted.  *)
Data  == [guests : 0..MaxParty, date : Dates, time : Times,
          meal : BOOLEAN, name : BOOLEAN, kept : BOOLEAN]
Blank == [guests |-> 0, date |-> "none", time |-> "none",
          meal |-> FALSE, name |-> FALSE, kept |-> FALSE]

ReservationState  == {"ask_guests", "ask_date", "ask_time", "ask_name", "ask_special", "confirm"}
ReservationStatus == {"pending", "confirmed", "cancelled", "no_show", "completed"}

Flow == [state : ReservationState, data : Data, id : Dialogue]
(* changed is history: staff have written over the details.                *)
Reservation == [status : ReservationStatus, data : Data, id : Dialogue, changed : BOOLEAN]
Question == [step : {"none", "type", "hotel", "pick", "confirm"}, row : Row \cup {NoRow}]
NoQuestion == [step |-> "none", row |-> NoRow]

ASSUME NamesAssumption ==
  /\ NoFlow \notin Flow /\ NoRow \notin Row \cup Reservation
  /\ NoRow \notin [dialogue : Dialogue, details : Data]
  /\ NoData \notin Data /\ NoCopy \notin Flow \cup {NoFlow}

TypeOK ==
  /\ flow \in Flow \cup {NoFlow}
  /\ copy \in [Sweeper -> Flow \cup {NoFlow, NoCopy}]
  /\ rows \in [Row -> Reservation \cup {NoRow}]
  /\ file \in Question /\ memory \in Question
  /\ shown \in [Dialogue -> Data \cup {NoData}]
  /\ \A f \in {flow} \cup {copy[s] : s \in Sweeper} :
       f \in Flow => f.id \in used /\ (f.state = "confirm" => shown[f.id] # NoData)
  /\ used \subseteq Dialogue /\ undone \subseteq Dialogue /\ cut \subseteq Dialogue

Init ==
  /\ flow = NoFlow /\ copy = [s \in Sweeper |-> NoCopy]
  /\ rows = [r \in Row |-> NoRow]
  /\ file = NoQuestion /\ memory = NoQuestion
  /\ shown = [d \in Dialogue |-> NoData]
  /\ used = {} /\ undone = {} /\ cut = {}

-----------------------------------------------------------------------------
(* What a message says of a reservation; a mention of a time settles the   *)
(* meal, to none when the restaurant is closed at that time.               *)
Replaced(x, h) ==
  [x EXCEPT !.guests = IF h.guests > 0 THEN h.guests ELSE @,
            !.date   = IF h.date # "none" THEN h.date ELSE @,
            !.time   = IF h.time # "none" THEN h.time ELSE @]

\* Mutation: an hour without a meal leaves the meal of the hour before.
ToldOverMeal(x, h) ==
  [Replaced(x, h) EXCEPT !.meal = @ \/ h.time = "served",
                         !.kept = @ /\ h.time = "none"]

Told(x, h) ==
  [Replaced(x, h) EXCEPT !.meal = IF h.time # "none" THEN h.time = "served" ELSE @,
                         !.kept = @ /\ h.time = "none"]

(* The flow listens to the answer it waits for; from the name on, to all.  *)
Listened(s, h) ==
  [guests |-> IF s \in {"ask_date", "ask_time"} THEN 0 ELSE h.guests,
   date   |-> IF s \in {"ask_guests", "ask_time"} THEN "none" ELSE h.date,
   time   |-> IF s \in {"ask_guests", "ask_date"} THEN "none" ELSE h.time]

Nothing == [guests |-> 0, date |-> "none", time |-> "none"]

(* The first detail that is missing.                                       *)
Missing(x) ==
  IF x.guests = 0 THEN "ask_guests"
  ELSE IF x.date = "none" THEN "ask_date"
  ELSE IF x.time = "none" THEN "ask_time"
  ELSE IF ~x.name THEN "ask_name"
  ELSE "ask_special"

-----------------------------------------------------------------------------
(* The flow                                                                *)

Save(s, x) == flow' = [flow EXCEPT !.state = s, !.data = x]
Clear == flow' = NoFlow
Keep  == flow' = flow
Show(x) == shown' = [shown EXCEPT ![flow.id] = x]

(* What the cancellation asks comes first: the memory counts when the file *)
(* says nothing.  A message that is no answer passes, and ends a question  *)
(* for the kind of reservation.                                            *)
Asking == IF file.step # "none" THEN file ELSE memory

Ask(q) == file' = q /\ memory' = q

Passes ==
  /\ Asking.step \in {"none", "type"}
  /\ Ask(NoQuestion)

(* A message that asks for a table, also in the middle of a flow.  A time  *)
(* at which no meal is served is noted without one: it leaves the meal of  *)
(* an earlier hour where it is.                                            *)
Bookable == {h \in Heard : h.guests <= AutoLimit /\ h.date # "out"}

Start(h) ==
  LET known == IF flow = NoFlow THEN Blank ELSE flow.data
      late  == h.time = "late" /\ known.meal
      x     == [Told(known, h) EXCEPT !.meal = @ \/ known.meal, !.kept = @ \/ late]
      state == IF h.guests = 0 THEN "ask_guests"
               ELSE IF h.date = "none" THEN "ask_date"
               ELSE IF h.time = "none" THEN "ask_time"
               ELSE "ask_name"
  IN  /\ Passes
      /\ \/ flow # NoFlow /\ Save(state, x) /\ UNCHANGED used
         \/ /\ flow = NoFlow
            /\ \E d \in Dialogue \ used :
                 /\ flow' = [state |-> state, data |-> x, id |-> d]
                 /\ used' = used \cup {d}
      /\ UNCHANGED <<shown, cut, rows, sweepVars>>

(* Asks for a large party or a day out of season, words of cancellation, a *)
(* question about something else, or a no to the summary.                  *)
Stop ==
  /\ flow # NoFlow
  /\ Passes
  /\ Clear
  /\ UNCHANGED <<shown, used, cut, rows, sweepVars>>

(* A correction changes one detail and asks again: a size it does not      *)
(* check, a date only when it is in season.                                *)
Correction == {h \in Heard : Cardinality({f \in DOMAIN h : h[f] # Nothing[f]}) = 1}

\* Mutation: a correction at the last question does not show the summary again.
CorrectSilently(h) ==
  /\ flow # NoFlow /\ h.date # "out"
  /\ Passes
  /\ LET x == Told(flow.data, h)
         s == IF flow.state \in {"ask_special", "confirm"} /\ x.name
              THEN flow.state ELSE Missing(x)
     IN  Save(s, x)
  /\ UNCHANGED <<shown, used, cut, rows, sweepVars>>

Correct(h) ==
  /\ flow # NoFlow /\ h.date # "out"
  /\ Passes
  /\ LET x == Told(flow.data, h)
         last == flow.state = "confirm" /\ x.name
     IN  /\ Save(IF last \/ (flow.state = "ask_special" /\ x.name)
                 THEN flow.state ELSE Missing(x), x)
         /\ IF last THEN Show(x) ELSE UNCHANGED shown
  /\ UNCHANGED <<used, cut, rows, sweepVars>>

(* Any other message.  Refused: a large party ends the flow for the staff, *)
(* a wrong date or an hour with no meal noted is not saved, the flow stays.*)
Refused(x) == x.guests > AutoLimit \/ x.date = "out" \/ (x.time # "none" /\ ~x.meal)

Refuse(x) ==
  /\ Refused(x)
  /\ IF x.guests > AutoLimit THEN Clear ELSE Keep
  /\ UNCHANGED shown

(* Asks for what is missing; a message that says nothing else may be the   *)
(* name.  With everything known, any state but the last two drops the flow.*)
Note(e, x) ==
  /\ ~Refused(x)
  /\ \/ /\ Missing(x) # "ask_special"
        /\ Save(Missing(x), x) /\ UNCHANGED shown
     \/ /\ Missing(x) = "ask_name" /\ flow.state = "ask_name" /\ e = Nothing
        /\ Save("ask_special", [x EXCEPT !.name = TRUE]) /\ UNCHANGED shown
     \/ /\ Missing(x) = "ask_special" /\ flow.state = "ask_special"
        /\ Save("confirm", x) /\ Show(x)
     \/ /\ Missing(x) = "ask_special" /\ flow.state = "confirm"
        /\ Keep /\ UNCHANGED shown
     \/ /\ Missing(x) = "ask_special" /\ flow.state \notin {"ask_special", "confirm"}
        /\ Clear /\ UNCHANGED shown

Answer ==
  /\ flow # NoFlow
  /\ Passes
  /\ \E e \in {Listened(flow.state, h) : h \in Heard} :
       LET x == Told(flow.data, e)
       IN  Refuse(x) \/ Note(e, x)
  /\ UNCHANGED <<used, cut, rows, sweepVars>>

(* A yes to the summary inserts the reservation and clears the flow.  The  *)
(* two are separate writes: a restart may come between them.               *)
Insert(r) ==
  /\ flow # NoFlow /\ flow.state = "confirm"
  /\ Missing(flow.data) = "ask_special" /\ ~Refused(flow.data)
  /\ rows[r] = NoRow
  /\ rows' = [rows EXCEPT ![r] = [status |-> "pending", data |-> flow.data,
                                     id |-> flow.id, changed |-> FALSE]]

\* Mutation: the flow stays after the yes.
ConfirmAndStay(r) ==
  /\ Insert(r) /\ Passes /\ Keep
  /\ UNCHANGED <<shown, used, cut, sweepVars>>

Confirm(r) ==
  /\ Insert(r)
  /\ Passes
  /\ Clear
  /\ UNCHANGED <<shown, used, cut, sweepVars>>

ConfirmCut(r) ==
  /\ "restart" \in Happens
  /\ Insert(r)
  /\ Asking.step \in {"none", "type"}
  /\ cut' = cut \cup {flow.id}
  /\ file' = NoQuestion /\ memory' = NoQuestion
  /\ copy' = [s \in Sweeper |-> NoCopy]
  /\ UNCHANGED <<flow, shown, used, undone>>

(* The first message of a conversation clears what an earlier one left.    *)
Forget ==
  /\ flow # NoFlow
  /\ Clear
  /\ UNCHANGED <<shown, used, cut, rows, cancelVars, sweepVars>>

-----------------------------------------------------------------------------
(* The cancellation                                                        *)

Active == {r \in Row : rows[r] # NoRow /\ rows[r].status \in {"pending", "confirmed"}}

AskAgain(q) ==
  /\ Ask(q)
  /\ UNCHANGED <<rows, flowVars, sweepVars>>

(* The reservation is a table: which one, if there are several?            *)
AskTable ==
  \/ /\ Active = {}
     /\ AskAgain([step |-> "type", row |-> NoRow])
  \/ \E r \in Active :
       /\ Active = {r}
       /\ AskAgain([step |-> "confirm", row |-> r])
  \/ /\ Cardinality(Active) > 1
     /\ AskAgain([step |-> "pick", row |-> NoRow])

WantsCancel ==
  /\ (IF flow = NoFlow THEN "cancel" ELSE "cancel_midway") \in Happens
  /\ Asking.step \in {"none", "type"}
  /\ \/ AskAgain([step |-> "type", row |-> NoRow])
     \/ AskTable
     \/ AskAgain([step |-> "hotel", row |-> NoRow])
     \/ /\ Ask(NoQuestion)      \* a transfer, a tour, or all of it was said
        /\ UNCHANGED <<rows, flowVars, sweepVars>>

(* A hotel reservation: its number and its rate go to the staff.           *)
TellsHotel ==
  /\ Asking.step = "hotel"
  /\ Ask(NoQuestion)
  /\ UNCHANGED <<rows, flowVars, sweepVars>>

(* A number of the list, or the number of any reservation.                 *)
Picks(r) ==
  /\ Asking.step = "pick"
  /\ AskAgain([step |-> "confirm", row |-> r])

\* Mutation: the row is deleted.
AgreesAndDeletes ==
  /\ Asking.step = "confirm"
  /\ LET r == Asking.row
     IN  rows' = IF r = NoRow THEN rows ELSE [rows EXCEPT ![r] = NoRow]
  /\ Ask(NoQuestion)
  /\ UNCHANGED <<flowVars, sweepVars>>

(* The row is cancelled whatever has become of it since the question.      *)
Agrees ==
  /\ Asking.step = "confirm"
  /\ LET r == Asking.row
     IN  rows' = IF rows[r] = NoRow THEN rows ELSE [rows EXCEPT ![r].status = "cancelled"]
  /\ Ask(NoQuestion)
  /\ UNCHANGED <<flowVars, sweepVars>>

Declines ==
  /\ Asking.step = "confirm"
  /\ Ask(NoQuestion)
  /\ UNCHANGED <<rows, flowVars, sweepVars>>

(* The admin panel sets any status at any time.                            *)
SetStatus(r, status) ==
  /\ rows[r] # NoRow
  /\ rows' = [rows EXCEPT ![r].status = status]
  /\ UNCHANGED <<flowVars, cancelVars, sweepVars>>

(* It writes over the day, the hour and the party of any reservation, and  *)
(* asks none of the rules; the meal stays.  What changes nothing is        *)
(* refused.                                                                *)
ChangeDetails(r, h) ==
  /\ rows[r] # NoRow
  /\ Replaced(rows[r].data, h) # rows[r].data
  /\ rows' = [rows EXCEPT ![r].data = [Replaced(@, h) EXCEPT !.kept = FALSE],
                          ![r].changed = TRUE]
  /\ UNCHANGED <<flowVars, cancelVars, sweepVars>>

(* The admin panel purges what is kept of a phone number.                  *)
Purge ==
  /\ "purge" \in Happens
  /\ Clear
  /\ file' = NoQuestion
  /\ UNCHANGED <<memory, shown, used, cut, rows, sweepVars>>

-----------------------------------------------------------------------------
(* The threads                                                             *)

(* Removes this flow or another one: the job what is an hour old, whether *)
(* or not it is in use, the timer what belongs to a chat.                  *)
SweepLoad(s) ==
  /\ copy[s] = NoCopy
  /\ \E left \in {flow, NoFlow} : copy' = [copy EXCEPT ![s] = left]
  /\ UNCHANGED <<rows, flowVars, cancelVars, undone>>

(* Whatever happened since the load is gone.                               *)
SweepSave(s) ==
  /\ copy[s] # NoCopy
  /\ flow' = copy[s]
  /\ undone' = undone \cup (IF copy[s] # NoFlow /\ copy[s] # flow THEN {copy[s].id} ELSE {})
  /\ copy' = [copy EXCEPT ![s] = NoCopy]
  /\ UNCHANGED <<shown, used, cut, rows, cancelVars>>

Restart ==
  /\ "restart" \in Happens
  /\ memory' = NoQuestion
  /\ copy' = [s \in Sweeper |-> NoCopy]
  /\ UNCHANGED <<file, rows, flowVars, undone>>

-----------------------------------------------------------------------------
Customer ==
  \/ \E h \in Bookable : Start(h)
  \/ \E h \in Correction : Correct(h)
  \/ \E r \in Row : Confirm(r) \/ Picks(r)
  \/ Answer \/ Stop \/ Forget \/ WantsCancel \/ TellsHotel \/ Agrees \/ Declines

Staff ==
  \E r \in Row : \/ \E st \in Decision : SetStatus(r, st)
                 \/ \E h \in Change : ChangeDetails(r, h)

Next ==
  \/ Customer \/ Staff
  \/ \E r \in Row : ConfirmCut(r)
  \/ \E s \in Sweeper : SweepLoad(s) \/ SweepSave(s)
  \/ Purge \/ Restart

Spec == Init /\ [][Next]_vars

-----------------------------------------------------------------------------
(* Properties                                                              *)

(* A new reservation holds what its customer was last shown and says yes   *)
(* to, through corrections, stray answers and second thoughts, unless a    *)
(* sweep put an older flow back.                                           *)
RowIsAsShown ==
  [][\A r \in Row :
       rows[r] = NoRow /\ rows'[r] # NoRow /\ rows'[r].id \notin undone
       => rows'[r].data = shown[rows'[r].id]]_vars

(* One dialogue makes one reservation, unless a restart cut the            *)
(* confirmation in two or a sweep brought the confirmed flow back.         *)
OneRowPerDialogue ==
  \A r, q \in Row : /\ r # q /\ rows[r] # NoRow /\ rows[q] # NoRow
                    /\ rows[r].id = rows[q].id
                    => rows[r].id \in undone \cup cut

(* No way through the chat books a party that staff must handle, a day     *)
(* without service or a time without a meal: also not a correction, whose  *)
(* size nothing checks when it is made.  Staff may change a row to any of  *)
(* them, and the chat has one hole: a second request for a table, made     *)
(* while a meal is noted, puts any hour in the place of the first, and the *)
(* hour is then taken for one of that meal (kept).                         *)
Acceptable ==
  \A r \in Row : rows[r] # NoRow /\ ~rows[r].changed =>
    LET x == rows[r].data
    IN  /\ x.guests \in 1..AutoLimit /\ x.date = "season" /\ x.name
        /\ x.time = "served" \/ x.kept

(* The dialogues about tables are a booking desk: a summary is only shown  *)
(* before the yes, a yes books what was shown last and books it once, and  *)
(* afterwards the chat changes nothing of a reservation but its status.    *)
(* Its details are the staff's to change (amended).  What restarts and     *)
(* sweeps take away from that is what undone and cut say.                  *)
Desk == INSTANCE BookingDesk WITH
  Details <- Data, NoDetails <- NoData,
  booked  <- [r \in Row |-> IF rows[r] = NoRow THEN NoRow
                            ELSE [dialogue |-> rows[r].id, details |-> rows[r].data]],
  amended <- {r \in Row : rows[r] # NoRow /\ rows[r].changed},
  again   <- undone \cup cut,
  stale   <- undone

IsDesk == Desk!Spec
=============================================================================
