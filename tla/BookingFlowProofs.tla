------------------------- MODULE BookingFlowProofs -------------------------
(***************************************************************************)
(* Proofs about BookingFlow, for every number of queries, rows, context    *)
(* ids and waiting messages, and for all timeouts.                         *)
(*                                                                         *)
(* What a flow may hold in a state (Good) is invariant for the entry and   *)
(* for the copy a timer thread will save, so no save of that thread can    *)
(* bring in more than an old answer.  The price of a row follows from the  *)
(* age a flow may have.  What ties the rows to the summaries (Written,     *)
(* Unused, Agreed) holds until an entry is put back or outlives a restart. *)
(***************************************************************************)
EXTENDS BookingFlow, TLAPS

(* How long ago a room may have been chosen when a flow enters a state.    *)
Waited(state) ==
  CASE state = "ask_name"    -> FlowTimeout
    [] state = "ask_phone"   -> 2 * FlowTimeout
    [] state = "ask_email"   -> 3 * FlowTimeout
    [] state = "ask_special" -> 4 * FlowTimeout
    [] state = "confirm"     -> 5 * FlowTimeout
    [] OTHER                 -> 0

Bare == {"select_room", "group_collect_template", "group_select_template"}

GuestIn(state) ==
  CASE state \in {"ask_email", "ask_special", "confirm"} -> {"name", "phone"}
    [] state = "ask_phone" -> {"name"}
    [] OTHER               -> {}

Holds(f) ==
  /\ f.guest = GuestIn(f.state)
  /\ IF f.state \in Bare THEN f.price = NoQuery ELSE f.price \in Query

Young(f) ==
  f.age <= FlowTimeout => f.priceAge <= OfferTimeout + Waited(f.state) + f.age

Named(f, ids) ==
  IF f.state \in Detailed THEN f.ctx \in ids ELSE f.ctx = NoContext

Good(f, ids) == f # NoFlow => Holds(f) /\ Young(f) /\ Named(f, ids)

GoodEntry(e, ids) ==
  /\ e \in Entry
  /\ Good(e.flow, ids)
  /\ e.payment # NoPayment => e.flow = NoFlow

(* The invariant that timer threads keep.                                  *)
Kept ==
  /\ GoodEntry(entry, issued)
  /\ copy # NoEntry => GoodEntry(copy, issued)
  /\ request \in [Request -> Waiting]
  /\ rows \in [Booking -> Row \cup {NoRow}]
  /\ issued \subseteq Context
  /\ shown \in [Context -> Summary \cup {NoSummary}]
  /\ restored \in BOOLEAN
  /\ PriceIsNotOlder

(* The invariant that holds as long as none puts an entry back.            *)
Written ==
  \A b \in Booking :
    Made(b) => /\ rows[b].ctx \in issued
               /\ shown[rows[b].ctx] = rows[b].data
               /\ rows[b].data.guest = {"name", "phone"}
               /\ rows[b].data.price \in Query

Unused ==
  entry.flow # NoFlow => \A b \in Booking : Made(b) => rows[b].ctx # entry.flow.ctx

Agreed ==
  entry.flow # NoFlow /\ entry.flow.state = "confirm" =>
    shown[entry.flow.ctx] = SummaryOf(entry.flow)

Distinct ==
  \A a, b \in Booking : Made(a) /\ Made(b) /\ rows[a].ctx = rows[b].ctx => a = b

Tied == ~restored => Written /\ Unused /\ Agreed /\ Distinct

IInv == Kept /\ Tied

-----------------------------------------------------------------------------
(* Flows and entries                                                       *)

\* A good flow stays good when more context ids are given out.
LEMMA GoodGrows ==
  ASSUME NEW ids, NEW more, ids \subseteq more, NEW e, GoodEntry(e, ids)
  PROVE  GoodEntry(e, more)
BY DEF GoodEntry, Good, Named

\* What save_booking_flow writes is a good entry when the flow is good.
LEMMA SavedGood ==
  ASSUME NEW ids, NEW e \in Entry, NEW f \in Flow \cup {NoFlow}, Good(f, ids)
  PROVE  GoodEntry([flow |-> f, offers |-> e.offers, payment |-> NoPayment], ids)
BY DEF GoodEntry, Entry

\* The range of ages, and how long a flow may have lasted in the states it starts in.
LEMMA AgeFacts ==
  /\ FlowTimeout \in Nat /\ OfferTimeout \in Nat /\ OldestPrice \in Nat
  /\ OldestPrice = OfferTimeout + 6 * FlowTimeout + 1
BY TimeoutAssumption DEF OldestPrice

\* Every answer may take FlowTimeout minutes.
LEMMA WaitedFacts ==
  /\ Waited("select_room") = 0 /\ Waited("group_collect_template") = 0
  /\ Waited("group_select_template") = 0 /\ Waited("ask_price_type") = 0
  /\ Waited("ask_name") = FlowTimeout /\ Waited("ask_phone") = 2 * FlowTimeout
  /\ Waited("ask_email") = 3 * FlowTimeout /\ Waited("ask_special") = 4 * FlowTimeout
  /\ Waited("confirm") = 5 * FlowTimeout
BY DEF Waited, Bare

\* A flow without a chosen room is good.
LEMMA NewFlowGood ==
  ASSUME NEW ids, NEW state \in Bare
  PROVE  NewFlow(state) \in Flow /\ Good(NewFlow(state), ids)
<1>1. state \in State /\ state \notin Detailed
      /\ state \notin {"ask_email", "ask_special", "confirm", "ask_phone"}
  BY DEF Bare, State, Detailed
<1>2. NewFlow(state) \in Flow
  BY <1>1, AgeFacts DEF NewFlow, Flow
<1>3. Holds(NewFlow(state))
  BY <1>1 DEF NewFlow, Holds, GuestIn
<1>4. Young(NewFlow(state))
  BY WaitedFacts, AgeFacts DEF NewFlow, Young, Bare
<1>5. Named(NewFlow(state), ids)
  BY <1>1 DEF NewFlow, Named
<1>6. QED
  BY <1>2, <1>3, <1>4, <1>5 DEF Good

\* The room chosen from offers that are good for OfferTimeout minutes.
LEMMA ChosenGood ==
  ASSUME NEW ids, NEW f \in Flow, f.state = "ask_price_type", f.age = 0,
         f.price \in Query, f.priceAge \in 0..OfferTimeout, f.guest = {},
         f.ctx = NoContext
  PROVE  Good(f, ids)
<1>1. Holds(f)
  BY DEF Holds, GuestIn, Bare
<1>2. Young(f)
  BY WaitedFacts, AgeFacts DEF Young
<1>3. Named(f, ids)
  BY DEF Named, Detailed
<1>4. QED
  BY <1>1, <1>2, <1>3 DEF Good

\* A flow that asks for the price type gets a context id and asks for the name.
LEMMA SelectedGood ==
  ASSUME NEW ids, NEW c \in Context, c \in ids, NEW f \in Flow,
         f.state = "ask_price_type", Good(f, ids), f # NoFlow, f.age <= FlowTimeout,
         NEW g \in Flow, g.state = "ask_name", g.age = 0, g.ctx = c,
         g.guest = f.guest, g.price = f.price, g.priceAge = f.priceAge
  PROVE  Good(g, ids)
<1>1. f.guest = {} /\ f.price \in Query
  BY DEF Good, Holds, GuestIn, Bare
<1>2. f.priceAge <= OfferTimeout + FlowTimeout
  <2>1. f.age \in Nat /\ f.priceAge \in Nat
    BY AgeFacts DEF Flow
  <2>2. QED
    BY <2>1, WaitedFacts, AgeFacts DEF Good, Young
<1>3. Holds(g)
  BY <1>1 DEF Holds, GuestIn, Bare
<1>4. Young(g)
  <2>1. g.priceAge \in Nat
    BY AgeFacts DEF Flow
  <2>2. QED
    BY <1>2, <2>1, WaitedFacts, AgeFacts DEF Young
<1>5. Named(g, ids)
  BY DEF Named, Detailed
<1>6. QED
  BY <1>3, <1>4, <1>5 DEF Good

(* A step of the dialogue: the flow in the next state, with what was asked.*)
NextStep(state) ==
  CASE state = "ask_name"  -> "ask_phone"
    [] state = "ask_phone" -> "ask_email"
    [] state = "ask_email" -> "ask_special"
    [] OTHER               -> "confirm"

\* A good flow that takes the next step of the dialogue in time stays good.
LEMMA ProceedGood ==
  ASSUME NEW ids, NEW f \in Flow, Good(f, ids), f # NoFlow, f.age <= FlowTimeout,
         f.state \in {"ask_name", "ask_phone", "ask_email", "ask_special"},
         NEW g \in Flow, g.state = NextStep(f.state), g.age = 0, g.ctx = f.ctx,
         g.guest = GuestIn(g.state), g.price = f.price, g.priceAge = f.priceAge
  PROVE  Good(g, ids)
<1>1. f.age \in Nat /\ f.priceAge \in Nat /\ g.priceAge \in Nat
  BY AgeFacts DEF Flow
<1>2. f.priceAge <= OfferTimeout + Waited(f.state) + f.age
  BY DEF Good, Young
<1>3. Holds(g)
  BY DEF Good, Holds, Bare, NextStep
<1>4. Named(g, ids)
  BY DEF Good, Named, Detailed, NextStep
<1>5. Young(g)
  <2>1. CASE f.state = "ask_name"
    BY <1>1, <1>2, <2>1, WaitedFacts, AgeFacts DEF Young, NextStep
  <2>2. CASE f.state = "ask_phone"
    BY <1>1, <1>2, <2>2, WaitedFacts, AgeFacts DEF Young, NextStep
  <2>3. CASE f.state = "ask_email"
    BY <1>1, <1>2, <2>3, WaitedFacts, AgeFacts DEF Young, NextStep
  <2>4. CASE f.state = "ask_special"
    BY <1>1, <1>2, <2>4, WaitedFacts, AgeFacts DEF Young, NextStep
  <2>5. QED
    BY <2>1, <2>2, <2>3, <2>4
<1>6. QED
  BY <1>3, <1>4, <1>5 DEF Good

\* A minute makes a flow older, and its price by no more than that.
LEMMA AgedFlowGood ==
  ASSUME NEW ids, NEW f \in Flow, Good(f, ids), f # NoFlow
  PROVE  /\ AgedFlow(f) \in Flow /\ Good(AgedFlow(f), ids)
         /\ AgedFlow(f).state = f.state /\ AgedFlow(f).ctx = f.ctx
         /\ SummaryOf(AgedFlow(f)) = SummaryOf(f)
<1> DEFINE g == AgedFlow(f)
<1>1. f.age \in 0..(FlowTimeout + 1) /\ f.priceAge \in 0..OldestPrice
  BY DEF Flow
<1>2. Older(f.age, FlowTimeout) \in 0..(FlowTimeout + 1)
  BY <1>1, AgeFacts DEF Older
<1>3. Older(f.priceAge, OldestPrice - 1) \in 0..OldestPrice
  BY <1>1, AgeFacts DEF Older
<1>4. /\ g \in Flow
      /\ g.state = f.state /\ g.ctx = f.ctx /\ g.guest = f.guest
      /\ g.price = f.price /\ g.dates = f.dates
      /\ g.age = Older(f.age, FlowTimeout)
      /\ g.priceAge = IF f.price = NoQuery THEN f.priceAge
                      ELSE Older(f.priceAge, OldestPrice - 1)
  BY <1>1, <1>2, <1>3 DEF AgedFlow, Flow
<1>5. Young(g)
  <2> DEFINE w == Waited(f.state)
  <2>1. w \in Nat
    BY WaitedFacts, AgeFacts DEF Waited
  <2>2. f.age <= FlowTimeout => f.priceAge <= OfferTimeout + w + f.age
    BY DEF Good, Young
  <2>3. g.age <= FlowTimeout => g.priceAge <= OfferTimeout + w + g.age
    <3> HIDE DEF w, g
    <3> QED
      BY <1>1, <1>4, <2>1, <2>2, AgeFacts DEF Older
  <2>4. QED
    BY <1>4, <2>3 DEF Young
<1>6. Holds(g) /\ Named(g, ids) /\ SummaryOf(g) = SummaryOf(f)
  <2> HIDE DEF g
  <2> QED
    BY <1>4 DEF Good, Holds, Named, SummaryOf
<1>7. QED
  BY <1>4, <1>5, <1>6 DEF Good

\* A minute leaves a good entry good.
LEMMA AgedGood ==
  ASSUME NEW ids, NEW e, GoodEntry(e, ids)
  PROVE  GoodEntry(Aged(e), ids)
<1>1. /\ e.flow \in Flow \cup {NoFlow} /\ e.offers \in Offers \cup {NoOffers}
      /\ e.payment \in 0..(PaymentTimeout + 1) \cup {NoPayment}
  BY DEF GoodEntry, Entry
<1>2. Aged(e).flow \in Flow \cup {NoFlow} /\ Good(Aged(e).flow, ids)
  BY <1>1, AgedFlowGood DEF GoodEntry, Aged, Good
<1>3. Aged(e).offers \in Offers \cup {NoOffers}
  BY <1>1, TimeoutAssumption DEF Aged, Offers, Older
<1>4. /\ Aged(e).payment \in 0..(PaymentTimeout + 1) \cup {NoPayment}
      /\ e.payment = NoPayment => Aged(e).payment = NoPayment
  BY <1>1, TimeoutAssumption DEF Aged, Older
<1>5. Aged(e) = [flow |-> Aged(e).flow, offers |-> Aged(e).offers,
                 payment |-> Aged(e).payment]
  BY DEF Aged
<1>6. Aged(e) \in Entry
  BY <1>2, <1>3, <1>4, <1>5 DEF Entry
<1>7. e.flow = NoFlow => Aged(e).flow = NoFlow
  BY DEF Aged
<1>8. QED
  BY <1>2, <1>4, <1>6, <1>7 DEF GoodEntry

-----------------------------------------------------------------------------
(* Steps that save the entry and insert no row                             *)

(* The new flow is none, or the old one with what it was, or one whose     *)
(* context id no row has yet.                                              *)
Follows ==
  \/ entry'.flow = NoFlow
  \/ /\ entry.flow # NoFlow
     /\ entry'.flow.ctx = entry.flow.ctx
     /\ entry'.flow.state = "confirm" =>
          entry.flow.state = "confirm" /\ SummaryOf(entry'.flow) = SummaryOf(entry.flow)
  \/ entry'.flow.state # "confirm" /\ entry'.flow.ctx \notin issued

Saves ==
  /\ GoodEntry(entry', issued') /\ Follows
  /\ issued \subseteq issued' /\ issued' \subseteq Context
  /\ request' \in [Request -> Waiting]
  /\ UNCHANGED <<copy, rows, shown, restored>>

\* Such a step keeps the invariant.
LEMMA SavesKeepIInv ==
  ASSUME IInv, Saves
  PROVE  IInv'
<1>1. Kept'
  BY GoodGrows DEF IInv, Kept, Saves, PriceIsNotOlder, Made
<1>2. Tied'
  <2> SUFFICES ASSUME ~restored' PROVE (Written /\ Unused /\ Agreed /\ Distinct)'
    BY DEF Tied
  <2>1. Written /\ Unused /\ Agreed /\ Distinct
    BY DEF IInv, Tied, Saves
  <2>2. Written' /\ Distinct'
    BY <2>1 DEF Written, Distinct, Made, Saves
  <2>3. Unused'
    BY <2>1 DEF Written, Unused, Made, Saves, Follows
  <2>4. Agreed'
    BY <2>1 DEF Agreed, Saves, Follows
  <2>5. QED
    BY <2>2, <2>3, <2>4
<1>3. QED
  BY <1>1, <1>2 DEF IInv

\* The flow that get_booking_flow returns.
LEMMA CurrentFacts ==
  ASSUME Kept
  PROVE  /\ Current # NoFlow =>
              /\ Current = entry.flow /\ Current \in Flow /\ Good(Current, issued)
              /\ Current.age <= FlowTimeout
         /\ GoodEntry(TimedOut, issued)
         /\ Current = NoFlow => TimedOut.flow = NoFlow
         /\ TimedOut.flow # NoFlow => TimedOut.flow = entry.flow
<1>1. /\ entry \in Entry /\ Good(entry.flow, issued)
      /\ entry.payment # NoPayment => entry.flow = NoFlow
  BY DEF Kept, GoodEntry
<1>2. entry.flow \in Flow \cup {NoFlow}
  BY <1>1 DEF Entry
<1>3. [entry EXCEPT !.flow = NoFlow, !.payment = NoPayment] \in Entry
  BY <1>1 DEF Entry
<1>4. GoodEntry(TimedOut, issued)
  BY <1>1, <1>3 DEF TimedOut, GoodEntry, Good, Entry
<1>5. /\ Current = NoFlow => TimedOut.flow = NoFlow
      /\ TimedOut.flow # NoFlow => TimedOut.flow = entry.flow
  BY <1>1 DEF TimedOut, Current, Entry
<1>6. QED
  BY <1>1, <1>2, <1>4, <1>5 DEF Current

\* What save_booking_flow leaves in the file.
LEMMA SaveFlowFacts ==
  ASSUME Kept, NEW f \in Flow \cup {NoFlow}, SaveFlow(f), Good(f, issued')
  PROVE  GoodEntry(entry', issued') /\ entry'.flow = f
<1>1. entry \in Entry
  BY DEF Kept, GoodEntry
<1>2. GoodEntry([flow |-> f, offers |-> entry.offers, payment |-> NoPayment], issued')
  BY <1>1, SavedGood
<1>3. QED
  BY <1>2 DEF SaveFlow

\* So does clear_booking_flow.
LEMMA ClearFlowSaves ==
  ASSUME Kept, ClearFlow, request' \in [Request -> Waiting],
         UNCHANGED <<copy, rows, issued, shown, restored>>
  PROVE  Saves
BY SaveFlowFacts DEF ClearFlow, Good, Saves, Follows, Kept

\* A step that leaves the entry as it is, but for a flow that has timed out.
LEMMA TimedOutSaves ==
  ASSUME Kept, entry' = entry \/ entry' = TimedOut, request' \in [Request -> Waiting],
         UNCHANGED <<copy, rows, issued, shown, restored>>
  PROVE  Saves
<1>1. GoodEntry(entry', issued')
  BY CurrentFacts DEF Kept
<1>2. entry'.flow = NoFlow \/ (entry.flow # NoFlow /\ entry'.flow = entry.flow)
  BY CurrentFacts
<1>3. QED
  BY <1>1, <1>2 DEF Saves, Follows, Kept

\* A message begins or ends to wait.
LEMMA WaitType ==
  ASSUME Kept, NEW r \in Request
  PROVE  /\ \A step \in {"group", "quiet", "payment"} :
              Wait(r, step) => request' \in [Request -> Waiting]
         /\ Return(r) => request' \in [Request -> Waiting]
BY DEF Kept, Wait, Return, Idle, Waiting

\* Choosing a room from offers that are fresh gives a flow no row knows of.
LEMMA ChooseRoomFacts ==
  ASSUME Kept, OffersFresh, ChooseRoom
  PROVE  /\ GoodEntry(entry', issued')
         /\ issued \subseteq issued' /\ issued' \subseteq Context
         /\ entry'.flow.state # "confirm" /\ entry'.flow.ctx \notin issued
<1> DEFINE new == NewFlow("ask_price_type")
           chosen == [new EXCEPT !.price = entry.offers.query,
                                 !.priceAge = entry.offers.age, !.dates = CachedDates]
<1>1. entry.offers \in Offers
  BY DEF Kept, GoodEntry, Entry, OffersFresh
<1>2. /\ entry.offers.query \in Query /\ CachedDates \in Query \cup {NoQuery}
      /\ entry.offers.age \in 0..OfferTimeout
  BY <1>1, AgeFacts DEF Offers, OffersFresh, CachedDates
<1>3. /\ chosen \in Flow /\ chosen.state = "ask_price_type" /\ chosen.age = 0
      /\ chosen.price = entry.offers.query /\ chosen.priceAge = entry.offers.age
      /\ chosen.guest = {} /\ chosen.ctx = NoContext
  <2>1. /\ new \in Flow /\ new.state = "ask_price_type" /\ new.age = 0
        /\ new.guest = {} /\ new.ctx = NoContext
    BY AgeFacts DEF NewFlow, Flow, State
  <2>2. entry.offers.age \in 0..OldestPrice
    BY <1>2, AgeFacts
  <2> HIDE DEF new
  <2>3. QED
    BY <1>2, <2>1, <2>2 DEF Flow
<1>4. chosen \in Flow /\ \A ids : Good(chosen, ids)
  <2> HIDE DEF chosen
  <2> QED
    BY <1>2, <1>3, ChosenGood
<1>5. NoContext \notin issued /\ issued \subseteq Context
  BY NamesAssumption DEF Kept
<1>6. CASE SaveFlow(chosen) /\ UNCHANGED issued
  <2>1. chosen.state = "ask_price_type" /\ chosen.ctx = NoContext
    BY <1>3
  <2>2. GoodEntry(entry', issued') /\ entry'.flow = chosen
    <3> HIDE DEF chosen
    <3> QED
      BY <1>4, <1>6, SaveFlowFacts
  <2>3. QED
    <3> HIDE DEF chosen
    <3> QED
      BY <1>5, <1>6, <2>1, <2>2
<1>7. ASSUME NEW c \in Context, Selected(chosen, c)
      PROVE  /\ GoodEntry(entry', issued')
             /\ issued \subseteq issued' /\ issued' \subseteq Context
             /\ entry'.flow.state # "confirm" /\ entry'.flow.ctx \notin issued
  <2> DEFINE g == [chosen EXCEPT !.state = NextGuestInfo(chosen.guest), !.age = 0,
                                 !.ctx = c]
  <2>1. chosen.guest = {} /\ chosen.age = 0 /\ chosen.state = "ask_price_type"
    BY <1>3
  <2>2. NextGuestInfo(chosen.guest) = "ask_name"
    BY <2>1 DEF NextGuestInfo
  <2>3. /\ g \in Flow /\ g.state = "ask_name" /\ g.age = 0 /\ g.ctx = c
        /\ g.guest = chosen.guest /\ g.price = chosen.price
        /\ g.priceAge = chosen.priceAge
    <3>1. chosen \in Flow /\ "ask_name" \in State /\ 0 \in 0..(FlowTimeout + 1)
      BY <1>4, AgeFacts DEF State
    <3>2. QED
      <4> HIDE DEF chosen
      <4> QED
        BY <3>1, <2>2 DEF Flow
  <2>4. chosen # NoFlow /\ chosen.age <= FlowTimeout
    BY <1>4, <2>1, NamesAssumption, AgeFacts
  <2>5. c \notin issued /\ issued' = issued \cup {c} /\ SaveFlow(g)
    BY <1>7 DEF Selected
  <2>6. Good(g, issued')
    <3> HIDE DEF chosen, g
    <3> QED
      BY <1>4, <2>1, <2>3, <2>4, <2>5, SelectedGood
  <2>7. QED
    <3> HIDE DEF g
    <3> QED
      BY <1>5, <2>3, <2>5, <2>6, SaveFlowFacts
<1>8. QED
  BY <1>6, <1>7 DEF ChooseRoom

\* A flow that is shown in a list or a template has no context id.
LEMMA NewFlowSaves ==
  ASSUME Kept, NEW state \in Bare, SaveFlow(NewFlow(state)),
         UNCHANGED <<copy, request, rows, issued, shown, restored>>
  PROVE  Saves
<1>1. GoodEntry(entry', issued') /\ entry'.flow = NewFlow(state)
  BY NewFlowGood, SaveFlowFacts
<1>2. entry'.flow.state # "confirm" /\ entry'.flow.ctx = NoContext
  BY <1>1 DEF NewFlow, Bare
<1>3. NoContext \notin issued
  BY NamesAssumption DEF Kept
<1>4. QED
  BY <1>1, <1>2, <1>3 DEF Saves, Follows, Kept

\* The step to the next question of the dialogue.
LEMMA NextStepSaves ==
  ASSUME Kept, Current # NoFlow, Current.state \in {"ask_name", "ask_phone", "ask_email"},
         NEW g \in Flow, SaveFlow(g), g.state = NextStep(Current.state), g.age = 0,
         g.ctx = Current.ctx, g.guest = GuestIn(g.state), g.price = Current.price,
         g.priceAge = Current.priceAge,
         UNCHANGED <<copy, request, rows, issued, shown, restored>>
  PROVE  Saves
<1>1. /\ Current = entry.flow /\ Current \in Flow /\ Good(Current, issued)
      /\ Current.age <= FlowTimeout
  BY CurrentFacts
<1>2. Good(g, issued)
  BY <1>1, ProceedGood
<1>3. GoodEntry(entry', issued') /\ entry'.flow = g
  BY <1>2, SaveFlowFacts
<1>4. g.state # "confirm"
  BY DEF NextStep
<1>5. QED
  BY <1>1, <1>3, <1>4 DEF Saves, Follows, Kept

\* The fields of the flow that an answer leads to.
LEMMA ProceedFields ==
  ASSUME NEW f \in Flow, NEW state \in State
  PROVE  /\ Proceed(f, state) \in Flow
         /\ Proceed(f, state).state = state /\ Proceed(f, state).age = 0
         /\ Proceed(f, state).guest = f.guest /\ Proceed(f, state).ctx = f.ctx
         /\ Proceed(f, state).price = f.price /\ Proceed(f, state).dates = f.dates
         /\ Proceed(f, state).priceAge = f.priceAge
<1>1. 0 \in 0..(FlowTimeout + 1)
  BY AgeFacts
<1>2. Proceed(f, state) \in Flow
  BY <1>1 DEF Proceed, Flow
<1>3. Proceed(f, state).state = state /\ Proceed(f, state).age = 0
  BY DEF Proceed, Flow
<1>4. /\ Proceed(f, state).guest = f.guest /\ Proceed(f, state).ctx = f.ctx
      /\ Proceed(f, state).price = f.price /\ Proceed(f, state).dates = f.dates
      /\ Proceed(f, state).priceAge = f.priceAge
  BY DEF Proceed, Flow
<1>5. QED
  BY <1>2, <1>3, <1>4

\* The fields of the flow that knows a name or a phone number.
LEMMA GuestFields ==
  ASSUME NEW f \in Flow, NEW guest \in SUBSET {"name", "phone"},
         NEW g, g = [f EXCEPT !.guest = guest]
  PROVE  /\ g \in Flow /\ g.guest = guest
         /\ g.state = f.state /\ g.ctx = f.ctx /\ g.price = f.price
         /\ g.priceAge = f.priceAge
BY DEF Flow

-----------------------------------------------------------------------------
(* The actions                                                             *)

\* Starting a flow, by a list of rooms or with a room.
LEMMA StartFlowOK ==
  ASSUME Kept, StartFlow
  PROVE  Saves
<1>1. CASE SaveFlow(NewFlow("select_room")) /\ UNCHANGED issued
  BY <1>1, NewFlowSaves DEF StartFlow, Bare
<1>2. CASE ChooseRoom
  BY <1>2, ChooseRoomFacts DEF StartFlow, Saves, Follows, Kept
<1>3. QED
  BY <1>1, <1>2 DEF StartFlow

\* Choosing a room from the list.
LEMMA SelectRoomOK ==
  ASSUME Kept, SelectRoom
  PROVE  Saves
<1>1. CASE OffersFresh
  BY <1>1, ChooseRoomFacts DEF SelectRoom, Saves, Follows, Kept
<1>2. CASE ~OffersFresh
  BY <1>2, ClearFlowSaves DEF SelectRoom, Kept
<1>3. QED
  BY <1>1, <1>2

\* Choosing the kind of price.
LEMMA ChoosePriceTypeOK ==
  ASSUME Kept, ChoosePriceType
  PROVE  Saves
<1> DEFINE f == IF OffersFresh /\ entry.offers.dated
                THEN [Current EXCEPT !.dates = entry.offers.query] ELSE Current
<1>1. /\ Current # NoFlow /\ Current.state = "ask_price_type"
      /\ Current = entry.flow /\ Current \in Flow /\ Good(Current, issued)
      /\ Current.age <= FlowTimeout
  BY CurrentFacts DEF ChoosePriceType, In
<1>2. OffersFresh => entry.offers.query \in Query
  BY DEF Kept, GoodEntry, Entry, OffersFresh, Offers
<1>3. /\ f \in Flow /\ f.state = "ask_price_type" /\ f.age = Current.age
      /\ f.price = Current.price /\ f.priceAge = Current.priceAge
      /\ f.guest = Current.guest /\ f.ctx = Current.ctx
  BY <1>1, <1>2 DEF Flow
<1>4. PICK c \in Context : Selected(f, c)
  BY DEF ChoosePriceType
<1> HIDE DEF f
<1>5. Good(f, issued \cup {c}) /\ f # NoFlow
  BY <1>1, <1>3, NamesAssumption DEF Good, Holds, Young, Named, Detailed
<1> DEFINE g == [f EXCEPT !.state = NextGuestInfo(f.guest), !.age = 0, !.ctx = c]
<1>6. NextGuestInfo(f.guest) = "ask_name"
  BY <1>3, <1>5 DEF NextGuestInfo, Good, Holds, GuestIn
<1>7. "ask_name" \in State /\ 0 \in 0..(FlowTimeout + 1)
  BY AgeFacts DEF State
<1>8. /\ g \in Flow /\ g.state = "ask_name" /\ g.age = 0 /\ g.ctx = c
      /\ g.guest = f.guest /\ g.price = f.price /\ g.priceAge = f.priceAge
  BY <1>3, <1>6, <1>7 DEF Flow
<1>9. c \notin issued /\ issued' = issued \cup {c} /\ SaveFlow(g)
  BY <1>4 DEF Selected
<1> HIDE DEF g
<1>10. Good(g, issued')
  BY <1>1, <1>3, <1>5, <1>8, <1>9, SelectedGood
<1>11. GoodEntry(entry', issued') /\ entry'.flow = g
  BY <1>8, <1>9, <1>10, SaveFlowFacts
<1>12. QED
  BY <1>8, <1>9, <1>11 DEF Saves, Follows, Kept, ChoosePriceType

\* The name of the guest.
LEMMA GiveNameOK ==
  ASSUME Kept, GiveName
  PROVE  Saves
<1>1. /\ Current # NoFlow /\ Current.state = "ask_name"
      /\ Current \in Flow /\ Good(Current, issued)
  BY CurrentFacts DEF GiveName, In
<1>2. /\ Current.guest \cup {"name"} = {"name"}
      /\ Current.guest \cup {"name"} \in SUBSET {"name", "phone"}
  BY <1>1 DEF Good, Holds, GuestIn
<1> DEFINE f == [Current EXCEPT !.guest = Current.guest \cup {"name"}]
           g == Proceed(f, NextGuestInfo(f.guest))
<1>3. SaveFlow(g)
  BY DEF GiveName
<1>4. /\ f \in Flow /\ f.guest = {"name"} /\ f.ctx = Current.ctx
      /\ f.price = Current.price /\ f.priceAge = Current.priceAge
  BY <1>1, <1>2, GuestFields
<1> HIDE DEF f
<1>5. NextGuestInfo(f.guest) = "ask_phone" /\ "ask_phone" \in State
  BY <1>4 DEF NextGuestInfo, State
<1>6. /\ g \in Flow /\ g.state = "ask_phone" /\ g.age = 0 /\ g.guest = {"name"}
      /\ g.ctx = Current.ctx /\ g.price = Current.price
      /\ g.priceAge = Current.priceAge
  BY <1>4, <1>5, ProceedFields
<1> HIDE DEF g
<1>7. QED
  BY <1>1, <1>3, <1>6, NextStepSaves DEF GiveName, NextStep, GuestIn

\* The phone number.
LEMMA GivePhoneOK ==
  ASSUME Kept, GivePhone
  PROVE  Saves
<1>1. /\ Current # NoFlow /\ Current.state = "ask_phone"
      /\ Current \in Flow /\ Good(Current, issued)
  BY CurrentFacts DEF GivePhone, In
<1>2. /\ Current.guest \cup {"phone"} = {"name", "phone"}
      /\ Current.guest \cup {"phone"} \in SUBSET {"name", "phone"}
  BY <1>1 DEF Good, Holds, GuestIn
<1> DEFINE f == [Current EXCEPT !.guest = Current.guest \cup {"phone"}]
           g == Proceed(f, NextGuestInfo(f.guest))
<1>3. SaveFlow(g)
  BY DEF GivePhone
<1>4. /\ f \in Flow /\ f.guest = {"name", "phone"} /\ f.ctx = Current.ctx
      /\ f.price = Current.price /\ f.priceAge = Current.priceAge
  BY <1>1, <1>2, GuestFields
<1> HIDE DEF f
<1>5. NextGuestInfo(f.guest) = "ask_email" /\ "ask_email" \in State
  BY <1>4 DEF NextGuestInfo, State
<1>6. /\ g \in Flow /\ g.state = "ask_email" /\ g.age = 0 /\ g.guest = {"name", "phone"}
      /\ g.ctx = Current.ctx /\ g.price = Current.price
      /\ g.priceAge = Current.priceAge
  BY <1>4, <1>5, ProceedFields
<1> HIDE DEF g
<1>7. QED
  BY <1>1, <1>3, <1>6, NextStepSaves DEF GivePhone, NextStep, GuestIn

\* The address.
LEMMA GiveEmailOK ==
  ASSUME Kept, GiveEmail
  PROVE  Saves
<1>1. /\ Current # NoFlow /\ Current.state = "ask_email"
      /\ Current \in Flow /\ Good(Current, issued)
  BY CurrentFacts DEF GiveEmail, In
<1>2. Current.guest = {"name", "phone"}
  BY <1>1 DEF Good, Holds, GuestIn
<1> DEFINE g == Proceed(Current, "ask_special")
<1>3. /\ g \in Flow /\ g.state = "ask_special" /\ g.age = 0
      /\ g.guest = {"name", "phone"} /\ g.ctx = Current.ctx
      /\ g.price = Current.price /\ g.priceAge = Current.priceAge
  BY <1>1, <1>2, ProceedFields DEF State
<1>4. SaveFlow(g)
  BY DEF GiveEmail
<1> HIDE DEF g
<1>5. QED
  BY <1>1, <1>3, <1>4, NextStepSaves DEF GiveEmail, NextStep, GuestIn

\* The actions that clear the flow or ask about a payment.
LEMMA ClearingOK ==
  ASSUME Kept, \/ EndFlow \/ StartGroup \/ GroupCollect \/ Purge
               \/ AskWhichBooking \/ ForgetPayment
  PROVE  Saves
<1>1. request' \in [Request -> Waiting] /\ entry \in Entry
  BY DEF Kept, GoodEntry, EndFlow, StartGroup, GroupCollect, Purge, AskWhichBooking,
         ForgetPayment
<1>2. CASE EndFlow
  BY <1>1, <1>2, ClearFlowSaves DEF EndFlow
<1>3. CASE StartGroup
  BY <1>3, NewFlowSaves DEF StartGroup, Bare
<1>4. CASE GroupCollect
  BY <1>4, NewFlowSaves DEF GroupCollect, Bare
<1>5. CASE Purge
  <2>1. Empty \in Entry /\ Empty.flow = NoFlow /\ Empty.payment = NoPayment
    BY DEF Empty, Entry
  <2>2. QED
    BY <1>1, <1>5, <2>1 DEF Purge, Saves, Follows, GoodEntry, Good, Kept
<1>6. CASE AskWhichBooking \/ ForgetPayment
  <2>1. TimedOut \in Entry /\ TimedOut.flow = NoFlow
    BY <1>6, CurrentFacts DEF GoodEntry, AskWhichBooking, ForgetPayment
  <2>2. \A pay \in 0..(PaymentTimeout + 1) \cup {NoPayment} :
          LET e == [TimedOut EXCEPT !.payment = pay]
          IN  e \in Entry /\ e.flow = NoFlow
    BY <2>1 DEF Entry
  <2>3. 0 \in 0..(PaymentTimeout + 1)
    BY TimeoutAssumption
  <2>4. entry' \in Entry /\ entry'.flow = NoFlow
    BY <1>6, <2>2, <2>3 DEF AskWhichBooking, ForgetPayment
  <2>5. UNCHANGED <<copy, rows, issued, shown, restored>>
    BY <1>6 DEF AskWhichBooking, ForgetPayment
  <2>6. QED
    BY <1>1, <2>4, <2>5 DEF Saves, Follows, GoodEntry, Good, Kept
<1>7. QED
  BY <1>2, <1>3, <1>4, <1>5, <1>6

\* Everything that waits, and what it waits for.
LEMMA HandleOK ==
  ASSUME Kept, NEW r \in Request, Handle(r)
  PROVE  Saves
<1>1. ASSUME NEW q \in Query, AskPrice(r, q) PROVE Saves
  <2>1. request' \in [Request -> Waiting]
    BY <1>1 DEF AskPrice, Kept, Waiting
  <2>2. QED
    BY <1>1, <2>1, TimedOutSaves DEF AskPrice
<1>2. CASE PriceAnswered(r)
  <2>1. request' \in [Request -> Waiting]
    BY <1>2, WaitType DEF PriceAnswered
  <2>2. request[r].query \in Query
    BY <1>2 DEF PriceAnswered, Kept, Waiting
  <2>3. PICK path \in PricePath :
          entry' = [entry EXCEPT !.offers = [query |-> request[r].query, age |-> 0,
                                             dated |-> path = "price_flow"]]
    BY <1>2 DEF PriceAnswered
  <2> DEFINE offers == [query |-> request[r].query, age |-> 0,
                        dated |-> path = "price_flow"]
  <2>4. offers \in Offers
    BY <2>2, TimeoutAssumption DEF Offers
  <2>5. entry' = [entry EXCEPT !.offers = offers]
    BY <2>3
  <2> HIDE DEF offers
  <2>6. /\ entry \in Entry /\ Good(entry.flow, issued) /\ issued \subseteq Context
        /\ entry.payment # NoPayment => entry.flow = NoFlow
    BY DEF Kept, GoodEntry
  <2>7. entry' \in Entry /\ entry'.flow = entry.flow /\ entry'.payment = entry.payment
    BY <2>4, <2>5, <2>6 DEF Entry
  <2>8. QED
    BY <1>2, <2>1, <2>6, <2>7 DEF PriceAnswered, Saves, Follows, GoodEntry
<1>3. CASE PriceFails(r)
  BY <1>3, WaitType, TimedOutSaves DEF PriceFails
<1>4. CASE QuietRoom(r)
  BY <1>4, WaitType, TimedOutSaves DEF QuietRoom
<1>5. CASE GroupSelect(r)
  BY <1>5, WaitType, TimedOutSaves DEF GroupSelect
<1>6. CASE ClearAfterAwait(r)
  BY <1>6, WaitType, ClearFlowSaves DEF ClearAfterAwait
<1>7. CASE PaymentHandoff(r)
  BY <1>7, WaitType, TimedOutSaves DEF PaymentHandoff
<1>8. CASE PaymentHandedOff(r)
  <2>1. request' \in [Request -> Waiting]
    BY <1>8, WaitType DEF PaymentHandedOff
  <2>2. entry \in Entry /\ Good(entry.flow, issued) /\ issued \subseteq Context
    BY DEF Kept, GoodEntry
  <2>3. /\ entry' \in Entry /\ entry'.flow = entry.flow
        /\ entry'.payment = NoPayment
    BY <1>8, <2>2 DEF PaymentHandedOff, Entry
  <2>4. QED
    BY <1>8, <2>1, <2>2, <2>3 DEF PaymentHandedOff, Saves, Follows, GoodEntry
<1>9. QED
  BY <1>1, <1>2, <1>3, <1>4, <1>5, <1>6, <1>7, <1>8 DEF Handle

\* The summary: what the flow holds is now what was shown.
LEMMA GiveSpecialOK ==
  ASSUME IInv, GiveSpecial
  PROVE  IInv'
<1>1. Kept
  BY DEF IInv
<1> DEFINE g == Proceed(Current, "confirm")
<1>2. /\ Current # NoFlow /\ Current.state = "ask_special" /\ Current = entry.flow
      /\ Current \in Flow /\ Good(Current, issued) /\ Current.age <= FlowTimeout
  BY <1>1, CurrentFacts DEF GiveSpecial, In
<1>3. /\ Current.guest = {"name", "phone"} /\ Current.ctx \in issued
      /\ Current.price \in Query /\ Current.dates \in Query \cup {NoQuery}
  BY <1>2 DEF Good, Holds, GuestIn, Named, Detailed, Bare, Flow
<1>4. /\ g \in Flow /\ g.state = "confirm" /\ g.age = 0 /\ g.guest = Current.guest
      /\ g.ctx = Current.ctx /\ g.price = Current.price /\ g.dates = Current.dates
      /\ g.priceAge = Current.priceAge
  BY <1>2, ProceedFields DEF State
<1>5. /\ SaveFlow(g)
      /\ shown' = [shown EXCEPT ![Current.ctx] = SummaryOf(Current)]
      /\ UNCHANGED <<copy, request, rows, issued, restored>>
  BY DEF GiveSpecial
<1> HIDE DEF g
<1>6. Good(g, issued)
  BY <1>2, <1>3, <1>4, ProceedGood DEF NextStep, GuestIn
<1>7. GoodEntry(entry', issued') /\ entry'.flow = g
  BY <1>1, <1>4, <1>5, <1>6, SaveFlowFacts
<1>8. SummaryOf(Current) \in Summary /\ SummaryOf(g) = SummaryOf(Current)
  BY <1>3, <1>4 DEF SummaryOf, Summary
<1>9. issued \subseteq Context /\ shown \in [Context -> Summary \cup {NoSummary}]
  BY <1>1 DEF Kept
<1>10. Kept'
  BY <1>1, <1>5, <1>7, <1>8, <1>9 DEF Kept, PriceIsNotOlder, Made
<1>11. ASSUME ~restored PROVE (Written /\ Unused /\ Agreed /\ Distinct)'
  <2>1. Written /\ Unused /\ Agreed /\ Distinct
    BY <1>11 DEF IInv, Tied
  <2>2. Unused'
    BY <1>2, <1>4, <1>5, <1>7, <2>1 DEF Unused, Made
  <2>3. Distinct'
    BY <1>5, <2>1 DEF Distinct, Made
  <2>4. \A b \in Booking : Made(b) => shown'[rows[b].ctx] = shown[rows[b].ctx]
    BY <1>2, <1>5, <1>9, <2>1 DEF Unused, Written
  <2>5. Written'
    BY <1>5, <2>1, <2>4 DEF Written, Made
  <2>6. Agreed'
    BY <1>3, <1>4, <1>5, <1>7, <1>8, <1>9 DEF Agreed
  <2>7. QED
    BY <2>2, <2>3, <2>5, <2>6
<1>12. QED
  BY <1>5, <1>10, <1>11 DEF IInv, Tied

\* The row that is inserted: a good flow's price is young enough.
LEMMA InsertFacts ==
  ASSUME Kept, NEW b \in Booking, Insert(b, SummaryOf(Current))
  PROVE  \E row \in Row :
           /\ row.ctx = Current.ctx /\ row.data = SummaryOf(Current)
           /\ row.data.guest = {"name", "phone"} /\ row.data.price \in Query
           /\ rows' \in [Booking -> Row \cup {NoRow}]
           /\ \A a \in Booking : rows'[a] = IF a = b THEN row ELSE rows[a]
           /\ PriceIsNotOlder'
           /\ Current # NoFlow /\ Current.state = "confirm" /\ Current = entry.flow
           /\ Current.ctx \in issued
<1>1. /\ Current # NoFlow /\ Current.state = "confirm" /\ Current = entry.flow
      /\ Current \in Flow /\ Good(Current, issued) /\ Current.age <= FlowTimeout
  BY CurrentFacts DEF Insert, In
<1>2. /\ Current.guest = {"name", "phone"} /\ Current.ctx \in issued
      /\ Current.price \in Query /\ Current.dates \in Query \cup {NoQuery}
      /\ Current.ctx \in Context \cup {NoContext}
  BY <1>1 DEF Good, Holds, GuestIn, Named, Detailed, Bare, Flow
<1>3. /\ Current.age \in Nat /\ Current.priceAge \in Nat
      /\ Current.priceAge \in 0..OldestPrice
  BY <1>1, AgeFacts DEF Flow
<1>4. Current.priceAge <= OfferTimeout + 6 * FlowTimeout
  BY <1>1, <1>3, WaitedFacts, AgeFacts DEF Good, Young
<1> DEFINE row == [ctx |-> Current.ctx, data |-> SummaryOf(Current),
                   priceAge |-> Current.priceAge]
<1>5. /\ row \in Row /\ row.ctx = Current.ctx /\ row.data = SummaryOf(Current)
      /\ row.data.guest = {"name", "phone"} /\ row.data.price \in Query
      /\ row.priceAge <= OfferTimeout + 6 * FlowTimeout
  BY <1>2, <1>3, <1>4 DEF Row, Summary, SummaryOf
<1>6. rows' = [rows EXCEPT ![b] = row]
  BY DEF Insert
<1> HIDE DEF row
<1>7. rows \in [Booking -> Row \cup {NoRow}]
  BY DEF Kept
<1>8. /\ rows' \in [Booking -> Row \cup {NoRow}]
      /\ \A a \in Booking : rows'[a] = IF a = b THEN row ELSE rows[a]
  BY <1>5, <1>6, <1>7
<1>9. PriceIsNotOlder'
  BY <1>5, <1>8 DEF Kept, PriceIsNotOlder, Made
<1>10. QED
  BY <1>1, <1>2, <1>5, <1>8, <1>9

\* The confirmation: the row holds what was shown, and no row has its id yet.
LEMMA ConfirmOK ==
  ASSUME IInv, NEW b \in Booking, Confirm(b)
  PROVE  IInv'
<1>1. Kept
  BY DEF IInv
<1>2. /\ Insert(b, SummaryOf(Current)) /\ ClearFlow
      /\ UNCHANGED <<copy, request, issued, shown, restored>>
  BY DEF Confirm
<1>3. PICK row \in Row :
         /\ row.ctx = Current.ctx /\ row.data = SummaryOf(Current)
         /\ row.data.guest = {"name", "phone"} /\ row.data.price \in Query
         /\ rows' \in [Booking -> Row \cup {NoRow}]
         /\ \A a \in Booking : rows'[a] = IF a = b THEN row ELSE rows[a]
         /\ PriceIsNotOlder'
         /\ Current # NoFlow /\ Current.state = "confirm" /\ Current = entry.flow
         /\ Current.ctx \in issued
  BY <1>1, <1>2, InsertFacts
<1>4. GoodEntry(entry', issued') /\ entry'.flow = NoFlow
  BY <1>1, <1>2, SaveFlowFacts DEF ClearFlow, Good
<1>5. Kept'
  BY <1>1, <1>2, <1>3, <1>4 DEF Kept
<1>6. ASSUME ~restored PROVE (Written /\ Unused /\ Agreed /\ Distinct)'
  <2>1. Written /\ Unused /\ Agreed /\ Distinct
    BY <1>6 DEF IInv, Tied
  <2>2. Unused' /\ Agreed'
    BY <1>4 DEF Unused, Agreed
  <2>3. shown[row.ctx] = row.data /\ row.ctx \in issued
    BY <1>3, <2>1 DEF Agreed
  <2>4. Written'
    BY <1>2, <1>3, <2>1, <2>3 DEF Written, Made
  <2>5. \A a \in Booking : Made(a) => rows[a].ctx # row.ctx
    BY <1>3, <2>1 DEF Unused
  <2>6. Distinct'
    BY <1>3, <2>1, <2>5 DEF Distinct, Made
  <2>7. QED
    BY <2>2, <2>4, <2>6
<1>7. QED
  BY <1>2, <1>5, <1>6 DEF IInv, Tied

\* A restart after the insert leaves the flow to be confirmed again.
LEMMA ConfirmCutOK ==
  ASSUME IInv, NEW b \in Booking, ConfirmCut(b)
  PROVE  IInv'
<1>1. Kept
  BY DEF IInv
<1>2. /\ Insert(b, SummaryOf(Current)) /\ UNCHANGED <<entry, issued, shown>>
      /\ copy' = NoEntry /\ restored' = TRUE /\ request' = [r \in Request |-> Idle]
  BY DEF ConfirmCut
<1>3. rows' \in [Booking -> Row \cup {NoRow}] /\ PriceIsNotOlder'
  BY <1>1, <1>2, InsertFacts
<1>4. request' \in [Request -> Waiting]
  BY <1>2 DEF Idle, Waiting
<1>5. QED
  BY <1>1, <1>2, <1>3, <1>4 DEF IInv, Kept, Tied

\* A timer thread copies what is there, or that without the customer's entry.
LEMMA TimerLoadsOK ==
  ASSUME IInv, TimerLoads
  PROVE  IInv'
<1>1. GoodEntry(Empty, issued)
  BY DEF GoodEntry, Good, Empty, Entry
<1>2. Kept'
  BY <1>1 DEF IInv, Kept, TimerLoads, PriceIsNotOlder, Made
<1>3. Tied'
  BY DEF IInv, Tied, TimerLoads, Written, Unused, Agreed, Distinct, Made
<1>4. QED
  BY <1>2, <1>3 DEF IInv

\* What it saves is good; when that differs from what was there, restored is set.
LEMMA TimerSavesOK ==
  ASSUME IInv, TimerSaves
  PROVE  IInv'
<1>1. Kept
  BY DEF IInv
<1>2. /\ GoodEntry(copy, issued) /\ GoodEntry(entry, issued)
      /\ copy \in Entry /\ entry \in Entry
  BY <1>1 DEF Kept, TimerSaves, GoodEntry
<1> DEFINE mixed == [entry EXCEPT !.offers = copy.offers]
<1>3. mixed \in Entry /\ mixed.flow = entry.flow /\ mixed.payment = entry.payment
  BY <1>2 DEF Entry
<1>4. entry' \in {copy, mixed, entry}
  BY DEF TimerSaves
<1> HIDE DEF mixed
<1>5. GoodEntry(entry', issued)
  BY <1>2, <1>3, <1>4 DEF GoodEntry
<1>6. /\ copy' = NoEntry /\ restored' = (restored \/ entry' # entry)
      /\ UNCHANGED <<request, rows, issued, shown>>
  BY DEF TimerSaves
<1>7. restored' \in BOOLEAN
  BY <1>6
<1>8. Kept'
  BY <1>1, <1>5, <1>6, <1>7 DEF Kept, PriceIsNotOlder, Made
<1>9. ASSUME ~restored' PROVE (Written /\ Unused /\ Agreed /\ Distinct)'
  <2>1. ~restored /\ entry' = entry
    BY <1>6, <1>9
  <2>2. QED
    BY <1>6, <2>1 DEF IInv, Tied, Written, Unused, Agreed, Distinct, Made
<1>10. QED
  BY <1>8, <1>9 DEF IInv, Tied

\* A minute passes.
LEMMA TickOK ==
  ASSUME IInv, Tick
  PROVE  IInv'
<1>1. Kept
  BY DEF IInv
<1>2. /\ entry' = Aged(entry) /\ copy' = IF copy = NoEntry THEN NoEntry ELSE Aged(copy)
      /\ UNCHANGED <<request, rows, issued, shown, restored>>
  BY DEF Tick
<1>3. /\ GoodEntry(entry, issued) /\ GoodEntry(Aged(entry), issued)
      /\ copy # NoEntry => GoodEntry(Aged(copy), issued)
  BY <1>1, AgedGood DEF Kept
<1>4. Kept'
  BY <1>1, <1>2, <1>3 DEF Kept, PriceIsNotOlder, Made
<1>5. \/ entry.flow = NoFlow /\ entry'.flow = NoFlow
      \/ /\ entry.flow # NoFlow
         /\ entry'.flow.state = entry.flow.state /\ entry'.flow.ctx = entry.flow.ctx
         /\ SummaryOf(entry'.flow) = SummaryOf(entry.flow)
  <2>1. CASE entry.flow = NoFlow
    BY <1>2, <2>1 DEF Aged
  <2>2. CASE entry.flow # NoFlow
    <3>1. entry.flow \in Flow /\ Good(entry.flow, issued)
      BY <1>3, <2>2 DEF GoodEntry, Entry
    <3>2. entry'.flow = AgedFlow(entry.flow)
      BY <1>2, <2>2 DEF Aged
    <3>3. QED
      BY <2>2, <3>1, <3>2, AgedFlowGood
  <2>3. QED
    BY <2>1, <2>2
<1>6. Tied'
  BY <1>2, <1>5 DEF IInv, Tied, Written, Unused, Agreed, Distinct, Made
<1>7. QED
  BY <1>4, <1>6 DEF IInv

\* A restart forgets the waiting messages and the copy.
LEMMA RestartOK ==
  ASSUME IInv, Restart
  PROVE  IInv'
<1>1. [r \in Request |-> Idle] \in [Request -> Waiting]
  BY DEF Idle, Waiting
<1>2. Kept'
  BY <1>1 DEF IInv, Kept, Restart, PriceIsNotOlder, Made
<1>3. Tied'
  BY DEF IInv, Tied, Restart, Written, Unused, Agreed, Distinct, Made
<1>4. QED
  BY <1>2, <1>3 DEF IInv

-----------------------------------------------------------------------------
(* The invariant                                                           *)

\* The invariant holds at the start.
LEMMA InitIInv == Init => IInv
<1> SUFFICES ASSUME Init PROVE IInv
  OBVIOUS
<1>1. Empty \in Entry /\ Empty.flow = NoFlow /\ Empty.payment = NoPayment
  BY DEF Empty, Entry
<1>2. [r \in Request |-> Idle] \in [Request -> Waiting]
  BY DEF Idle, Waiting
<1>3. \A b \in Booking : rows[b] = NoRow
  BY DEF Init
<1>4. Kept
  BY <1>1, <1>2, <1>3 DEF Init, Kept, GoodEntry, Good, PriceIsNotOlder, Made
<1>5. Tied
  BY <1>1, <1>3 DEF Init, Tied, Written, Unused, Agreed, Distinct, Made
<1>6. QED
  BY <1>4, <1>5 DEF IInv

\* Every step keeps the invariant.
LEMMA StepIInv == IInv /\ [Next]_vars => IInv'
<1> SUFFICES ASSUME IInv, [Next]_vars PROVE IInv'
  OBVIOUS
<1>1. Kept
  BY DEF IInv
<1>2. CASE Talk
  <2>1. CASE StartFlow
    BY <1>1, <2>1, StartFlowOK, SavesKeepIInv
  <2>2. CASE SelectRoom
    BY <1>1, <2>2, SelectRoomOK, SavesKeepIInv
  <2>3. CASE ChoosePriceType
    BY <1>1, <2>3, ChoosePriceTypeOK, SavesKeepIInv
  <2>4. CASE GiveName
    BY <1>1, <2>4, GiveNameOK, SavesKeepIInv
  <2>5. CASE GivePhone
    BY <1>1, <2>5, GivePhoneOK, SavesKeepIInv
  <2>6. CASE GiveEmail
    BY <1>1, <2>6, GiveEmailOK, SavesKeepIInv
  <2>7. CASE GiveSpecial
    BY <2>7, GiveSpecialOK
  <2>8. CASE \/ EndFlow \/ StartGroup \/ GroupCollect \/ AskWhichBooking
             \/ ForgetPayment
    BY <1>1, <2>8, ClearingOK, SavesKeepIInv
  <2>9. QED
    BY <1>2, <2>1, <2>2, <2>3, <2>4, <2>5, <2>6, <2>7, <2>8 DEF Talk
<1>3. ASSUME NEW b \in Booking, Confirm(b) \/ ConfirmCut(b) PROVE IInv'
  BY <1>3, ConfirmOK, ConfirmCutOK
<1>4. ASSUME NEW r \in Request, Handle(r) PROVE IInv'
  BY <1>1, <1>4, HandleOK, SavesKeepIInv
<1>5. CASE Purge
  BY <1>1, <1>5, ClearingOK, SavesKeepIInv
<1>6. CASE TimerLoads
  BY <1>6, TimerLoadsOK
<1>7. CASE TimerSaves
  BY <1>7, TimerSavesOK
<1>8. CASE Tick
  BY <1>8, TickOK
<1>9. CASE Restart
  BY <1>9, RestartOK
<1>10. CASE UNCHANGED vars
  <2>1. Kept'
    BY <1>1, <1>10 DEF vars, Kept, PriceIsNotOlder, Made
  <2>2. Tied'
    BY <1>10 DEF vars, IInv, Tied, Written, Unused, Agreed, Distinct, Made
  <2>3. QED
    BY <2>1, <2>2 DEF IInv
<1>11. QED
  BY <1>2, <1>3, <1>4, <1>5, <1>6, <1>7, <1>8, <1>9, <1>10 DEF Next

\* What the invariant says of the properties that the runs check.
LEMMA IInvImplies ==
  ASSUME IInv
  PROVE  TypeOK /\ PriceIsNotOlder /\ OneOpenQuestion /\ RowIsWhatWasShown
         /\ OneRowPerContext
<1>1. /\ entry \in Entry /\ Good(entry.flow, issued) /\ issued \subseteq Context
      /\ entry.payment # NoPayment => entry.flow = NoFlow
  BY DEF IInv, Kept, GoodEntry
<1>2. NoContext \notin issued
  BY <1>1, NamesAssumption
<1>3. entry.flow # NoFlow => (entry.flow.ctx \in issued <=> entry.flow.state \in Detailed)
  BY <1>1, <1>2 DEF Good, Named
<1>4. copy \in Entry \cup {NoEntry}
  BY DEF IInv, Kept, GoodEntry
<1>5. TypeOK
  BY <1>1, <1>3, <1>4 DEF TypeOK, IInv, Kept
<1>6. PriceIsNotOlder /\ OneOpenQuestion
  BY <1>1 DEF IInv, Kept, OneOpenQuestion
<1>7. RowIsWhatWasShown /\ OneRowPerContext
  BY DEF IInv, Tied, Written, Distinct, RowIsWhatWasShown, OneRowPerContext
<1>8. QED
  BY <1>5, <1>6, <1>7

-----------------------------------------------------------------------------
(* The rows as the bookings of a desk                                      *)

Booked ==
  [b \in Booking |-> IF rows[b] = NoRow THEN NoRow
                     ELSE [dialogue |-> rows[b].ctx, details |-> rows[b].data]]

(* Once an entry was restored, every id is disturbed, and stays so.        *)
LEMMA RestoredDisturbs ==
  ASSUME restored' \in BOOLEAN, restored => restored'
  PROVE  Desk!Disturbed
<1> DEFINE now == IF restored THEN Context ELSE {}
           then == IF restored' THEN Context ELSE {}
<1>1. then \in SUBSET Context /\ then \in SUBSET then /\ then = now \cup then
  OBVIOUS
<1>2. \E a \in SUBSET Context : \E s \in SUBSET a : then = now \cup a /\ then = now \cup s
  <2> HIDE DEF now, then
  <2>1. QED
    BY <1>1
<1>3. QED
  BY <1>2 DEF Desk!Disturbed

\* A step that neither shows nor inserts is at most a disturbance of the desk.
LEMMA QuietStep ==
  ASSUME UNCHANGED <<rows, shown>>, restored' \in BOOLEAN, restored => restored'
  PROVE  Desk!Next
BY RestoredDisturbs DEF Booked, Desk!Next, Desk!Disturb

\* The flow has no row under its id yet, or was disturbed.
LEMMA FlowIsOpen ==
  ASSUME IInv, entry.flow # NoFlow, NEW d \in Context, d = entry.flow.ctx
  PROVE  Desk!Open(d)
<1>1. CASE restored
  BY <1>1 DEF Desk!Open
<1>2. CASE ~restored
  <2>1. \A b \in Booking : rows[b] # NoRow => rows[b].ctx # d
    BY <1>2 DEF IInv, Tied, Unused, Made
  <2>2. \A b \in Booking : Booked[b] # NoRow => Booked[b].dialogue # d
    BY <2>1 DEF Booked
  <2>3. ~ Desk!HasBooked(d)
    BY <2>2 DEF Booked, Desk!HasBooked
  <2>4. QED
    BY <2>3 DEF Desk!Open
<1>3. QED
  BY <1>1, <1>2

\* The summary is shown under an id that may still book.
LEMMA GiveSpecialRefines ==
  ASSUME IInv, GiveSpecial
  PROVE  Desk!Next
<1>1. /\ Current # NoFlow /\ Current.state = "ask_special" /\ Current = entry.flow
      /\ Current \in Flow /\ Good(Current, issued) /\ issued \subseteq Context
  BY CurrentFacts DEF GiveSpecial, In, IInv, Kept
<1>2. Current.ctx \in Context /\ SummaryOf(Current) \in Summary
  BY <1>1 DEF Good, Named, Detailed, Flow, SummaryOf, Summary
<1>3. PICK d \in Context, x \in Summary : d = Current.ctx /\ x = SummaryOf(Current)
  BY <1>2
<1>4. Desk!Open(d)
  BY <1>1, <1>3, FlowIsOpen
<1>5. /\ shown' = [shown EXCEPT ![d] = x] /\ shown \in [Context -> Summary \cup {NoSummary}]
      /\ UNCHANGED <<rows, restored>>
  BY <1>3 DEF GiveSpecial, IInv, Kept
<1>6. shown'[d] = x
  BY <1>5
<1>7. Desk!Show(d)
  BY <1>4, <1>5, <1>6 DEF Booked, Desk!Show
<1>8. QED
  BY <1>7 DEF Desk!Next

\* The insert books what was shown last.
LEMMA InsertRefines ==
  ASSUME IInv, NEW b \in Booking, Insert(b, SummaryOf(Current)), UNCHANGED shown,
         restored' \in BOOLEAN, restored => restored'
  PROVE  Desk!Next
<1>1. PICK row \in Row :
         /\ row.ctx = Current.ctx /\ row.data = SummaryOf(Current)
         /\ \A a \in Booking : rows'[a] = IF a = b THEN row ELSE rows[a]
         /\ Current # NoFlow /\ Current.state = "confirm" /\ Current = entry.flow
         /\ Current.ctx \in issued
  BY InsertFacts DEF IInv
<1>2. Current.ctx \in Context /\ row.data \in Summary /\ row # NoRow /\ rows[b] = NoRow
  BY <1>1, NamesAssumption DEF IInv, Kept, Row, Insert
<1>3. PICK d \in Context, x \in Summary : d = Current.ctx /\ x = row.data
  BY <1>2
<1>4. Desk!Open(d) /\ Booked[b] = NoRow
  BY <1>1, <1>2, <1>3, FlowIsOpen DEF Booked
<1>5. d \notin (IF restored THEN Context ELSE {}) => x = shown[d]
  BY <1>1, <1>3 DEF IInv, Tied, Agreed
<1>6. /\ Booked'[b] = [dialogue |-> d, details |-> x]
      /\ Booked' = [Booked EXCEPT ![b] = Booked'[b]]
  BY <1>1, <1>2, <1>3 DEF Booked
<1>7. Booked'[b] \in Desk!Bookings(d) /\ Booked'[b].details = x
  BY <1>6 DEF Desk!Bookings
<1>8. Desk!Book(b, d)
  BY <1>4, <1>5, <1>6, <1>7, RestoredDisturbs DEF Booked, Desk!Book
<1>9. QED
  BY <1>8 DEF Desk!Next

\* Every step is one of the desk's.
LEMMA StepRefines == IInv /\ [Next]_vars => Desk!Next
<1> SUFFICES ASSUME IInv, [Next]_vars PROVE Desk!Next
  OBVIOUS
<1>1. Kept /\ restored \in BOOLEAN
  BY DEF IInv, Kept
<1>2. CASE Saves
  BY <1>1, <1>2, QuietStep DEF Saves
<1>3. CASE Talk
  <2>1. CASE GiveSpecial
    BY <2>1, GiveSpecialRefines
  <2>2. CASE \/ StartFlow \/ SelectRoom \/ ChoosePriceType
             \/ GiveName \/ GivePhone \/ GiveEmail
    BY <1>1, <1>2, <2>2, StartFlowOK, SelectRoomOK, ChoosePriceTypeOK,
       GiveNameOK, GivePhoneOK, GiveEmailOK
  <2>3. CASE \/ EndFlow \/ StartGroup \/ GroupCollect \/ AskWhichBooking
             \/ ForgetPayment
    BY <1>1, <1>2, <2>3, ClearingOK
  <2>4. QED
    BY <1>3, <2>1, <2>2, <2>3 DEF Talk
<1>4. ASSUME NEW b \in Booking, Confirm(b) \/ ConfirmCut(b) PROVE Desk!Next
  BY <1>1, <1>4, InsertRefines DEF Confirm, ConfirmCut
<1>5. ASSUME NEW r \in Request, Handle(r) PROVE Desk!Next
  BY <1>1, <1>2, <1>5, HandleOK
<1>6. CASE Purge
  BY <1>1, <1>2, <1>6, ClearingOK
<1>7. CASE TimerLoads \/ TimerSaves \/ Tick \/ Restart \/ UNCHANGED vars
  <2>1. UNCHANGED <<rows, shown>> /\ restored' \in BOOLEAN /\ (restored => restored')
    BY <1>1, <1>7 DEF TimerLoads, TimerSaves, Tick, Restart, vars
  <2>2. QED
    BY <2>1, QuietStep
<1>8. QED
  BY <1>3, <1>4, <1>5, <1>6, <1>7 DEF Next

-----------------------------------------------------------------------------
(* The theorems                                                            *)

\* The entry has its type, and a flow has a context id it was given in those
\* states whose handlers send it with the summary and put it into the row.
THEOREM BookingFlowTypeCorrect == Spec => []TypeOK
<1>1. IInv => TypeOK
  BY IInvImplies
<1>2. QED
  BY InitIInv, StepIInv, <1>1, PTL DEF Spec

\* No row has a price older than the offers may be and six waits for an answer.
THEOREM NoOldPrice == Spec => []PriceIsNotOlder
<1>1. IInv => PriceIsNotOlder
  BY IInvImplies
<1>2. QED
  BY InitIInv, StepIInv, <1>1, PTL DEF Spec

\* The question which booking to pay for is not kept next to a flow.
THEOREM OneQuestionAtATime == Spec => []OneOpenQuestion
<1>1. IInv => OneOpenQuestion
  BY IInvImplies
<1>2. QED
  BY InitIInv, StepIInv, <1>1, PTL DEF Spec

\* Until an entry is put back or outlives a restart, a row holds what its last
\* summary showed.
THEOREM RowsAreAsConfirmed == Spec => []RowIsWhatWasShown
<1>1. IInv => RowIsWhatWasShown
  BY IInvImplies
<1>2. QED
  BY InitIInv, StepIInv, <1>1, PTL DEF Spec

\* Until an entry is put back or outlives a restart, a flow is confirmed into
\* one row.
THEOREM RowsHaveTheirOwnContext == Spec => []OneRowPerContext
<1>1. IInv => OneRowPerContext
  BY IInvImplies
<1>2. QED
  BY InitIInv, StepIInv, <1>1, PTL DEF Spec

\* The conversations about rooms implement a booking desk: summaries only under
\* ids that have no row, rows that hold the last of them, one for each id, and
\* rows that no message, answer of Elektra or timer changes; until an entry is
\* put back or outlives a restart, nothing is disturbed.
THEOREM RoomsAreADesk == Spec => IsDesk
<1>1. Init => Desk!Init
  BY DEF Init, Desk!Init
<1>2. IInv /\ [Next]_vars => [Desk!Next]_(Desk!vars)
  BY StepRefines
<1>3. QED
  BY InitIInv, StepIInv, <1>1, <1>2, PTL DEF Spec, IsDesk, Desk!Spec
=============================================================================
