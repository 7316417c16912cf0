---------------------------- MODULE BookingFlow ----------------------------
(***************************************************************************)
(* The conversation that leads one customer to a hotel booking             *)
(* (app/handlers/booking_flow_handler, app/services/booking_flow_service): *)
(* the customer's entry in booking_flows.json, and the rows that a         *)
(* confirmed conversation puts into hotel_bookings.                        *)
(*                                                                         *)
(* Messages are handled by coroutines of one event loop.  A handler runs   *)
(* alone from the reading of the entry to its last save unless it awaits   *)
(* something: prices from Elektra, or a message to the admins.  Messages   *)
(* of one customer are not queued: the next one is handled meanwhile.      *)
(*                                                                         *)
(* The cleanup timers are threads.  They save the whole file, so a timer   *)
(* of another customer writes back an older entry of this one.             *)
(***************************************************************************)
EXTENDS Naturals, FiniteSets

CONSTANTS
  Query,           \* price queries: a stay, with its dates and its guests
  Context,         \* booking context ids (CTX-...): a bound
  Booking,         \* row ids of hotel_bookings: a bound
  Request,         \* messages that wait for something at the same time: a bound
  FlowTimeout,     \* BOOKING_FLOW_TIMEOUT_MINUTES, 30
  OfferTimeout,    \* OFFER_CACHE_TIMEOUT_MINUTES, 60
  PaymentTimeout,  \* minutes a payment context is good for, 10
  PricePath,       \* the handlers that answer price queries
  CanCleanUp,      \* a cleanup timer may run
  NoQuery, NoContext, NoFlow, NoOffers, NoPayment, NoRow, NoEntry, NoSummary

ASSUME TimeoutAssumption ==
  FlowTimeout \in Nat /\ OfferTimeout \in Nat /\ PaymentTimeout \in Nat
ASSUME PathAssumption ==
  PricePath \subseteq {"price_flow", "price_entry"} /\ CanCleanUp \in BOOLEAN

VARIABLES
  entry,     \* the customer's entry in booking_flows.json
  copy,      \* the entry a timer thread has loaded and will save
  request,   \* what the messages that wait for something wait for
  rows,      \* the rows this customer's conversations have inserted
  issued,    \* the booking context ids given out
  shown,     \* the last summary shown for every booking context id
  restored   \* an older entry was put back, or a confirmed one outlived a restart

vars == <<entry, copy, request, rows, issued, shown, restored>>

-----------------------------------------------------------------------------
(* From one minute past its timeout on, no condition tells ages apart.     *)
OldestPrice == OfferTimeout + 6 * FlowTimeout + 1

State == {"select_room", "ask_price_type", "ask_name", "ask_phone", "ask_email",
          "ask_special", "confirm", "group_collect_template", "group_select_template"}

(* The states of a flow that has a booking context id.                     *)
Detailed == {"ask_name", "ask_phone", "ask_email", "ask_special", "confirm"}

(* price is the query whose offer was chosen, priceAge the age of that     *)
(* offer, dates the query whose dates and guests the data holds.           *)
Flow == [state : State, age : 0..(FlowTimeout + 1),
         price : Query \cup {NoQuery}, priceAge : 0..OldestPrice,
         dates : Query \cup {NoQuery}, guest : SUBSET {"name", "phone"},
         ctx : Context \cup {NoContext}]

(* cached_offers: an entry saved by elektra_price_entry has no dates.      *)
Offers == [query : Query, dated : BOOLEAN, age : 0..(OfferTimeout + 1)]

Entry == [flow : Flow \cup {NoFlow}, offers : Offers \cup {NoOffers},
          payment : 0..(PaymentTimeout + 1) \cup {NoPayment}]

Empty == [flow |-> NoFlow, offers |-> NoOffers, payment |-> NoPayment]

Waiting == [step : {"price"}, query : Query]
             \cup [step : {"idle", "group", "quiet", "payment"}, query : {NoQuery}]

Idle == [step |-> "idle", query |-> NoQuery]

Summary == [price : Query \cup {NoQuery}, dates : Query \cup {NoQuery},
            guest : SUBSET {"name", "phone"}]

Row == [ctx : Context \cup {NoContext}, data : Summary, priceAge : 0..OldestPrice]

ASSUME NamesAssumption ==
  /\ NoQuery \notin Query /\ NoContext \notin Context /\ NoFlow \notin Flow
  /\ NoOffers \notin Offers /\ NoPayment \notin Nat /\ NoRow \notin Row
  /\ NoEntry \notin Entry /\ NoSummary \notin Summary

TypeOK ==
  /\ entry \in Entry
  /\ copy \in Entry \cup {NoEntry}
  /\ request \in [Request -> Waiting]
  /\ rows \in [Booking -> Row \cup {NoRow}]
  /\ issued \subseteq Context
  /\ shown \in [Context -> Summary \cup {NoSummary}]
  /\ restored \in BOOLEAN
  /\ entry.flow # NoFlow =>
       (entry.flow.ctx \in issued <=> entry.flow.state \in Detailed)

Init ==
  /\ entry = Empty
  /\ copy = NoEntry
  /\ request = [r \in Request |-> Idle]
  /\ rows = [b \in Booking |-> NoRow]
  /\ issued = {}
  /\ shown = [c \in Context |-> NoSummary]
  /\ restored = FALSE

-----------------------------------------------------------------------------
(* Reading and saving the entry                                            *)

\* Mutation: no timeout.
CurrentForever == entry.flow

(* get_booking_flow, which deletes a flow that has timed out.              *)
Current ==
  IF entry.flow # NoFlow /\ entry.flow.age <= FlowTimeout THEN entry.flow ELSE NoFlow

TimedOut ==
  IF entry.flow # NoFlow /\ Current = NoFlow
  THEN [entry EXCEPT !.flow = NoFlow, !.payment = NoPayment]
  ELSE entry

In(state) == Current # NoFlow /\ Current.state = state

OffersFresh == entry.offers # NoOffers /\ entry.offers.age <= OfferTimeout

\* Mutation: the whole entry is kept.
SaveFlowKeepsPayment(f) == entry' = [entry EXCEPT !.flow = f]

(* save_booking_flow and clear_booking_flow keep the offers and nothing    *)
(* else.                                                                   *)
SaveFlow(f) == entry' = [flow |-> f, offers |-> entry.offers, payment |-> NoPayment]

ClearFlow == SaveFlow(NoFlow)

NewFlow(state) ==
  [state |-> state, age |-> 0, price |-> NoQuery, priceAge |-> 0, dates |-> NoQuery,
   guest |-> {}, ctx |-> NoContext]

Proceed(f, state) == [f EXCEPT !.state = state, !.age = 0]

(* _next_guest_info_state                                                  *)
NextGuestInfo(guest) ==
  IF "name" \notin guest THEN "ask_name"
  ELSE IF "phone" \notin guest THEN "ask_phone" ELSE "ask_email"

Wait(r, step) ==
  /\ request[r].step = "idle"
  /\ request' = [request EXCEPT ![r] = [step |-> step, query |-> NoQuery]]

Return(r) == request' = [request EXCEPT ![r] = Idle]

CachedDates == IF entry.offers.dated THEN entry.offers.query ELSE NoQuery

\* Mutation: an id is made that there is already.
SelectedUnderOldId(f, c) ==
  /\ issued' = issued \cup {c}
  /\ SaveFlow([f EXCEPT !.state = NextGuestInfo(f.guest), !.age = 0, !.ctx = c])

(* _build_flow_data_from_selection, with the booking context id it makes.  *)
Selected(f, c) ==
  /\ c \notin issued
  /\ issued' = issued \cup {c}
  /\ SaveFlow([f EXCEPT !.state = NextGuestInfo(f.guest), !.age = 0, !.ctx = c])

-----------------------------------------------------------------------------
(* Prices.  A message that asks for prices is routed by the flow there is  *)
(* when it arrives; only then Elektra is asked.                            *)

AskPrice(r, q) ==
  /\ Current = NoFlow
  /\ request[r].step = "idle"
  /\ request' = [request EXCEPT ![r] = [step |-> "price", query |-> q]]
  /\ entry' = TimedOut
  /\ UNCHANGED <<copy, rows, issued, shown, restored>>

PriceAnswered(r) ==
  /\ request[r].step = "price"
  /\ \E path \in PricePath :
       entry' = [entry EXCEPT !.offers = [query |-> request[r].query, age |-> 0,
                                          dated |-> path = "price_flow"]]
  /\ Return(r)
  /\ UNCHANGED <<copy, rows, issued, shown, restored>>

(* No offers, an error, or a question back.                                *)
PriceFails(r) ==
  /\ request[r].step = "price"
  /\ Return(r)
  /\ UNCHANGED <<entry, copy, rows, issued, shown, restored>>

-----------------------------------------------------------------------------
(* Choosing a room                                                         *)

(* The room is chosen from the offers that are cached now.  When it comes  *)
(* refundable and not, and the message does not say which, that is asked.  *)
ChooseRoom ==
  LET chosen == [NewFlow("ask_price_type") EXCEPT
                   !.price = entry.offers.query, !.priceAge = entry.offers.age,
                   !.dates = CachedDates]
  IN  \/ SaveFlow(chosen) /\ UNCHANGED issued
      \/ \E c \in Context : Selected(chosen, c)

(* A message that wants to book: the rooms are listed, unless it names one.*)
StartFlow ==
  /\ Current = NoFlow
  /\ OffersFresh
  /\ \/ SaveFlow(NewFlow("select_room")) /\ UNCHANGED issued
     \/ ChooseRoom
  /\ UNCHANGED <<copy, request, rows, shown, restored>>

SelectRoom ==
  /\ In("select_room")
  /\ IF OffersFresh THEN ChooseRoom ELSE ClearFlow /\ UNCHANGED issued
  /\ UNCHANGED <<copy, request, rows, shown, restored>>

(* A quiet room that is only sold by a person: the admins are told, then   *)
(* the flow is cleared.                                                    *)
QuietRoom(r) ==
  /\ Current = NoFlow \/ In("select_room")
  /\ OffersFresh
  /\ Wait(r, "quiet")
  /\ entry' = TimedOut
  /\ UNCHANGED <<copy, rows, issued, shown, restored>>

(* The price is the one kept in the flow.  The dates are those of the      *)
(* offers cached now, or of the flow where the cache has none.             *)
ChoosePriceType ==
  /\ In("ask_price_type")
  /\ LET f == IF OffersFresh /\ entry.offers.dated
              THEN [Current EXCEPT !.dates = entry.offers.query] ELSE Current
     IN  \E c \in Context : Selected(f, c)
  /\ UNCHANGED <<copy, request, rows, shown, restored>>

-----------------------------------------------------------------------------
(* Guest details.  A message that is not understood changes nothing.       *)

GiveName ==
  /\ In("ask_name")
  /\ LET f == [Current EXCEPT !.guest = @ \cup {"name"}]
     IN  SaveFlow(Proceed(f, NextGuestInfo(f.guest)))
  /\ UNCHANGED <<copy, request, rows, issued, shown, restored>>

GivePhone ==
  /\ In("ask_phone")
  /\ LET f == [Current EXCEPT !.guest = @ \cup {"phone"}]
     IN  SaveFlow(Proceed(f, NextGuestInfo(f.guest)))
  /\ UNCHANGED <<copy, request, rows, issued, shown, restored>>

(* The address may be skipped.                                             *)
GiveEmail ==
  /\ In("ask_email")
  /\ SaveFlow(Proceed(Current, "ask_special"))
  /\ UNCHANGED <<copy, request, rows, issued, shown, restored>>

SummaryOf(f) == [price |-> f.price, dates |-> f.dates, guest |-> f.guest]

GiveSpecial ==
  /\ In("ask_special")
  /\ SaveFlow(Proceed(Current, "confirm"))
  /\ shown' = [shown EXCEPT ![Current.ctx] = SummaryOf(Current)]
  /\ UNCHANGED <<copy, request, rows, issued, restored>>

-----------------------------------------------------------------------------
(* The end of a flow                                                       *)

(* create_hotel_booking, with the data of the flow.                        *)
Insert(b, data) ==
  /\ In("confirm")
  /\ rows[b] = NoRow
  /\ rows' = [rows EXCEPT ![b] = [ctx |-> Current.ctx, data |-> data,
                                 priceAge |-> Current.priceAge]]

\* Mutations: the flow is not cleared; the dates are taken from the cache.
ConfirmKeepsFlow(b) ==
  /\ Insert(b, SummaryOf(Current))
  /\ UNCHANGED <<entry, copy, request, issued, shown, restored>>

ConfirmFromCache(b) ==
  /\ LET dates == IF OffersFresh THEN CachedDates ELSE Current.dates
     IN  Insert(b, [SummaryOf(Current) EXCEPT !.dates = dates])
  /\ ClearFlow
  /\ UNCHANGED <<copy, request, issued, shown, restored>>

Confirm(b) ==
  /\ Insert(b, SummaryOf(Current))
  /\ ClearFlow
  /\ UNCHANGED <<copy, request, issued, shown, restored>>

(* The process ends between the insert and the save that clears the flow.  *)
ConfirmCut(b) ==
  /\ Insert(b, SummaryOf(Current))
  /\ request' = [r \in Request |-> Idle]
  /\ copy' = NoEntry
  /\ restored' = TRUE
  /\ UNCHANGED <<entry, issued, shown>>

(* The customer cancels or declines, or the insert fails.                  *)
EndFlow ==
  /\ Current # NoFlow
  /\ ClearFlow
  /\ UNCHANGED <<copy, request, rows, issued, shown, restored>>

-----------------------------------------------------------------------------
(* Groups: two templates to fill in, then a price for every family.        *)

StartGroup ==
  /\ Current = NoFlow
  /\ SaveFlow(NewFlow("group_collect_template"))
  /\ UNCHANGED <<copy, request, rows, issued, shown, restored>>

GroupCollect ==
  /\ In("group_collect_template")
  /\ SaveFlow(NewFlow("group_select_template"))
  /\ UNCHANGED <<copy, request, rows, issued, shown, restored>>

GroupSelect(r) ==
  /\ In("group_select_template")
  /\ Wait(r, "group")
  /\ UNCHANGED <<entry, copy, rows, issued, shown, restored>>

(* What was awaited is there.  The flow is cleared, whichever it is now.   *)
ClearAfterAwait(r) ==
  /\ request[r].step \in {"group", "quiet"}
  /\ ClearFlow
  /\ Return(r)
  /\ UNCHANGED <<copy, rows, issued, shown, restored>>

-----------------------------------------------------------------------------
(* Payment.  It is only asked about outside a flow.                        *)

(* Several bookings qualify: the customer is asked which one to pay.       *)
AskWhichBooking ==
  /\ Current = NoFlow
  /\ entry' = [TimedOut EXCEPT !.payment = 0]
  /\ UNCHANGED <<copy, request, rows, issued, shown, restored>>

(* Link or transfer: a person takes over.                                  *)
PaymentHandoff(r) ==
  /\ Current = NoFlow
  /\ Wait(r, "payment")
  /\ entry' = TimedOut
  /\ UNCHANGED <<copy, rows, issued, shown, restored>>

PaymentHandedOff(r) ==
  /\ request[r].step = "payment"
  /\ entry' = [entry EXCEPT !.payment = NoPayment]
  /\ Return(r)
  /\ UNCHANGED <<copy, rows, issued, shown, restored>>

(* No booking to pay for, or one that cannot be paid, or a context older   *)
(* than PaymentTimeout.                                                    *)
ForgetPayment ==
  /\ Current = NoFlow
  /\ entry' = [TimedOut EXCEPT !.payment = NoPayment]
  /\ UNCHANGED <<copy, request, rows, issued, shown, restored>>

-----------------------------------------------------------------------------
(* Cleanup, time, restarts                                                 *)

(* purge_phone_data, and a message of a chat that has no history.          *)
Purge ==
  /\ entry' = Empty
  /\ UNCHANGED <<copy, request, rows, issued, shown, restored>>

(* A timer thread loads the file and takes out this customer or another.   *)
TimerLoads ==
  /\ CanCleanUp
  /\ copy = NoEntry
  /\ copy' \in {Empty, entry}
  /\ UNCHANGED <<entry, request, rows, issued, shown, restored>>

(* Its save may fall between the load and the save of a handler, which     *)
(* undoes it, or between two loads, and then the flow of the handler is    *)
(* saved together with the older offers.                                   *)
TimerSaves ==
  /\ copy # NoEntry
  /\ entry' \in {copy, [entry EXCEPT !.offers = copy.offers], entry}
  /\ restored' = (restored \/ entry' # entry)
  /\ copy' = NoEntry
  /\ UNCHANGED <<request, rows, issued, shown>>

Older(age, limit) == IF age <= limit THEN age + 1 ELSE age

AgedFlow(f) ==
  [f EXCEPT !.age = Older(@, FlowTimeout),
            !.priceAge = IF f.price = NoQuery THEN @ ELSE Older(@, OldestPrice - 1)]

Aged(e) ==
  [flow    |-> IF e.flow = NoFlow THEN NoFlow ELSE AgedFlow(e.flow),
   offers  |-> IF e.offers = NoOffers THEN NoOffers
               ELSE [e.offers EXCEPT !.age = Older(@, OfferTimeout)],
   payment |-> IF e.payment = NoPayment THEN NoPayment
               ELSE Older(e.payment, PaymentTimeout)]

Tick ==
  /\ entry' = Aged(entry)
  /\ copy' = IF copy = NoEntry THEN NoEntry ELSE Aged(copy)
  /\ UNCHANGED <<request, rows, issued, shown, restored>>

Restart ==
  /\ request' = [r \in Request |-> Idle]
  /\ copy' = NoEntry
  /\ UNCHANGED <<entry, rows, issued, shown, restored>>

-----------------------------------------------------------------------------
Talk ==
  \/ StartFlow \/ SelectRoom \/ ChoosePriceType
  \/ GiveName \/ GivePhone \/ GiveEmail \/ GiveSpecial
  \/ EndFlow \/ StartGroup \/ GroupCollect \/ AskWhichBooking \/ ForgetPayment

Handle(r) ==
  \/ \E q \in Query : AskPrice(r, q)
  \/ PriceAnswered(r) \/ PriceFails(r)
  \/ QuietRoom(r) \/ GroupSelect(r) \/ ClearAfterAwait(r)
  \/ PaymentHandoff(r) \/ PaymentHandedOff(r)

Next ==
  \/ Talk
  \/ \E b \in Booking : Confirm(b) \/ ConfirmCut(b)
  \/ \E r \in Request : Handle(r)
  \/ Purge \/ TimerLoads \/ TimerSaves \/ Tick \/ Restart

Spec == Init /\ [][Next]_vars

-----------------------------------------------------------------------------
(* Properties                                                              *)

Made(b) == rows[b] # NoRow

\* Elektra's prices are asked for once and not again at the confirmation: the
\* price of a row is at most as old as the offers may be when the room is
\* chosen, and six waits for an answer of the customer, whatever handler
\* saves the flow and whatever a cleanup timer puts back.
PriceIsNotOlder ==
  \A b \in Booking : Made(b) => rows[b].priceAge <= OfferTimeout + 6 * FlowTimeout

\* A row holds what the customer confirmed: the price, the stay and the guest
\* of the last summary sent under its booking context id, with a name and a
\* phone number in it.  An entry that was put back, or that outlived its
\* confirmation, can be worked through once more, with another name.
RowIsWhatWasShown ==
  ~restored =>
    \A b \in Booking :
      Made(b) => /\ shown[rows[b].ctx] = rows[b].data
                 /\ rows[b].data.guest = {"name", "phone"}
                 /\ rows[b].data.price \in Query

\* A booking context id, by which get_booking_by_context_id finds the booking a
\* customer writes about, stands for one row: a second yes, or a yes that was
\* under way, confirms nothing.  Again but for entries put back or outliving.
OneRowPerContext ==
  ~restored =>
    \A a, b \in Booking : Made(a) /\ Made(b) /\ rows[a].ctx = rows[b].ctx => a = b

\* A short answer (1, 2, yes) has one question it can answer: a payment context
\* is not kept next to a flow.
OneOpenQuestion ==
  entry.payment # NoPayment => entry.flow = NoFlow

\* _build_flow_data_from_selection: the price that goes to the reservation is
\* the one the customer was shown for that stay.
BookedAsQuoted ==
  \A b \in Booking : Made(b) => rows[b].data.price = rows[b].data.dates

\* The conversations about rooms are a booking desk, by booking context ids: an
\* id shows summaries until a row is inserted under it, the row holds the last
\* of them, and no message changes either afterwards.  rows is what was
\* inserted: what staff make of a row, or delete with its phone, is not here.
\* The first entry that is put back, or outlives a restart, may disturb any.
Desk == INSTANCE BookingDesk WITH
  Dialogue <- Context, Details <- Summary, Row <- Booking, NoDetails <- NoSummary,
  booked   <- [b \in Booking |-> IF rows[b] = NoRow THEN NoRow
                                 ELSE [dialogue |-> rows[b].ctx, details |-> rows[b].data]],
  amended  <- {},
  again    <- IF restored THEN Context ELSE {},
  stale    <- IF restored THEN Context ELSE {}

IsDesk == Desk!Spec
=============================================================================
