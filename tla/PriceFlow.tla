----------------------------- MODULE PriceFlow ------------------------------
(***************************************************************************)
(* The price conversation of one customer: the dialogue that collects the  *)
(* dates and the guests of a stay (handlers/price_flow_handler), its entry *)
(* in price_flows.json (services/price_flow_service) and the requests that *)
(* wait for Elektra's prices.                                              *)
(*                                                                         *)
(* A handler runs without interruption up to the call of Elektra; other    *)
(* messages of the customer are handled while that call is awaited.  The   *)
(* cleanup timers are threads: they load the whole file and save it.       *)
(*                                                                         *)
(* A message is what the program reads in it.  The customer's own words,   *)
(* which go to the price service beside the details and are read there     *)
(* once more, and the offers cached for a booking, are left out.           *)
(***************************************************************************)
EXTENDS PriceAnswer

CONSTANTS
  Season,       \* days on which the hotel is open
  Message,      \* what a message may mention: a bound
  Backlog,      \* what the messages before it may mention: a bound
  Slot,         \* requests that wait for Elektra at once: a bound
  Swept,        \* entries that a timer may have loaded: a bound
  PriceAnswers, Availabilities, Wishes,    \* what Elektra may answer, and
                \* what kind of room may be asked for: bounds
  NoDay, NoFlow, NoQuery, NoJob

DayOrNone == Day \cup {NoDay}
Groups == {"none", "some", "all"}    \* rooms whose guests are known

(* child: a word for children.  numbers: bare numbers that could be ages.  *)
(* no: "yok", "0".  currency: one the hotel quotes, or one its policy has  *)
(* switched off.  A day on its own is read as the first one, or as none   *)
(* if its month is spelled out, also when the customer means the last.     *)
Mention ==
  [from : DayOrNone, to : DayOrNone, nights : Nat, adults : BOOLEAN,
   child : BOOLEAN, count : {"unsaid", "zero", "some"}, ages : BOOLEAN,
   numbers : BOOLEAN, no : BOOLEAN, many : BOOLEAN, groups : Groups,
   currency : {"unsaid", "quoted", "refused"}]

(* How the extraction of details from a text is bound up: an end comes     *)
(* with a beginning, or follows from it and the number of nights; guests   *)
(* of a room come with adults, ages with a number.                         *)
Consistent(m) ==
  /\ m.to # NoDay => m.from # NoDay
  /\ m.from # NoDay /\ m.nights > 0 => m.to # NoDay
  /\ m.groups # "none" => m.adults /\ m.many
  /\ m.ages => m.count = "some"
  /\ m.count = "zero" => m.no
  /\ m.numbers => m.count = "unsaid"

ASSUME AnswersAssumption ==
  /\ PriceAnswers \ {Failed, Unreadable} \subseteq SUBSET Offer
  /\ Availabilities \ {Failed, Unreadable} \subseteq SUBSET Row
  /\ Wishes \subseteq Wish

ASSUME PriceFlowAssumption ==
  /\ NoDay \notin Day /\ Season \subseteq Day
  /\ Message \cup Backlog \subseteq {m \in Mention : Consistent(m)}

Data ==
  [from : DayOrNone, to : DayOrNone, adults : BOOLEAN, child : BOOLEAN,
   count : BOOLEAN, ages : BOOLEAN, many : BOOLEAN, groups : Groups,
   refused : BOOLEAN]

State == {"ask_dates", "ask_guests", "ask_child_ages"}

Flow  == [state : State, data : Data, stale : BOOLEAN]   \* begun 15 minutes ago
Query == Data
Job   == [kind : {"stay", "rooms"}, data : Data]

ASSUME NullAssumption ==
  NoFlow \notin Flow /\ NoQuery \notin Query /\ NoJob \notin Job

VARIABLES
  flow,         \* the dialogue, if there is one
  last,         \* last_query: the stay that was priced last
  asked,        \* what waits for Elektra
  sweep         \* the copy of the entry that a timer has loaded

vars == <<flow, last, asked, sweep>>

NoSweep == [on |-> FALSE, flow |-> NoFlow, last |-> NoQuery]

TypeOK ==
  /\ flow \in Flow \cup {NoFlow}
  /\ last \in Query \cup {NoQuery}
  /\ asked \in [Slot -> Job \cup {NoJob}]
  /\ sweep \in [on : BOOLEAN, flow : Flow \cup {NoFlow}, last : Query \cup {NoQuery}]

Init ==
  /\ flow = NoFlow /\ last = NoQuery
  /\ asked = [s \in Slot |-> NoJob]
  /\ sweep = NoSweep

-----------------------------------------------------------------------------
(* What is missing                                                         *)

DatesMissing(d)  == d.from = NoDay \/ d.to = NoDay
GuestsMissing(d) == IF d.many THEN d.groups # "all" ELSE ~d.adults
CountMissing(d)  == d.child /\ ~d.count
AgesMissing(d)   == d.child /\ ~d.ages

Complete(d) == ~(DatesMissing(d) \/ GuestsMissing(d) \/ CountMissing(d) \/ AgesMissing(d))

Question(d) ==
  IF DatesMissing(d) THEN "dates"
  ELSE IF GuestsMissing(d) THEN "guests"
  ELSE IF CountMissing(d) THEN "child_count"
  ELSE "child_ages"

\* Mutation: the number of children is asked for as their ages are.
StateForBad(question) ==
  IF question = "dates" THEN "ask_dates"
  ELSE IF question = "guests" THEN "ask_guests"
  ELSE "ask_child_ages"

StateFor(question) ==
  IF question = "dates" THEN "ask_dates"
  ELSE IF question \in {"guests", "child_count"} THEN "ask_guests"
  ELSE "ask_child_ages"

-----------------------------------------------------------------------------
(* What a handler decides: to ask, to end the dialogue or to ask Elektra.  *)
(* refused: the currency named last is switched off.  That is looked at    *)
(* here; which one is asked for is read again out of the customer's words  *)
(* and can be another (handle_elektra_price_request).                      *)

Asks(state, d) == [does |-> "asks", state |-> state, data |-> d]
Ends(d)        == [does |-> "ends", state |-> "ask_dates", data |-> d]
Prices(kind, d) == [does |-> kind, state |-> "ask_dates", data |-> d]

QueryElektraweb(d) ==
  IF d.refused THEN Ends(d) ELSE Prices("stay", d)

\* Mutation: the children are not waited for.
ProceedBad(d) ==
  IF ~DatesMissing(d) /\ ~GuestsMissing(d) THEN QueryElektraweb(d)
  ELSE Asks(StateFor(Question(d)), d)

Proceed(d) ==
  IF Complete(d) THEN QueryElektraweb(d) ELSE Asks(StateFor(Question(d)), d)

Or(new, old, none) == IF new # none THEN new ELSE old

(* Adults, children and currency of a message are taken in any question.   *)
WithCurrency(d, m) ==
  [d EXCEPT !.refused = IF m.currency = "unsaid" THEN @ ELSE m.currency = "refused"]

WithGuests(d, m) ==
  [WithCurrency(d, m) EXCEPT
    !.adults = @ \/ m.adults,
    !.child  = @ \/ m.child,
    !.count  = IF m.count = "unsaid" THEN @ ELSE m.count = "some",
    !.ages   = @ \/ m.ages]

After(from, nights) == IF from + nights < LastDay THEN from + nights ELSE LastDay

(* A number of nights counts from the first day, once that is known.       *)
AnswerDates(d, m) ==
  LET from == Or(m.from, d.from, NoDay)
      end  == IF from # NoDay /\ m.nights > 0 THEN After(from, m.nights) ELSE NoDay
      to   == Or(m.to, end, NoDay)
      e    == [WithGuests(d, m) EXCEPT !.from = from, !.to = Or(to, @, NoDay)]
  IN  IF ~DatesMissing(e) /\ ~{e.from, e.to} \subseteq Season THEN Ends(e)
      ELSE Proceed(e)

(* Rooms are priced by their own guests, in the usual currency.            *)
OfRooms(d) ==
  [d EXCEPT !.adults = TRUE, !.child = FALSE, !.count = FALSE, !.ages = FALSE,
            !.refused = FALSE]

\* Mutation: adults are overwritten also by a message that names none.
AnswerGuestsBad(d, m) == Proceed([WithGuests(d, m) EXCEPT !.adults = m.adults])

AnswerGuests(d, m) ==
  LET e == [WithCurrency(d, m) EXCEPT
              !.groups = IF d.many THEN Or(m.groups, @, "none") ELSE @]
      f == [WithGuests(e, m) EXCEPT !.from = Or(m.from, @, NoDay), !.to = Or(m.to, @, NoDay)]
  IN  IF d.many /\ m.groups = "some" THEN Asks("ask_guests", e)
      ELSE IF d.many /\ m.groups = "all" /\ ~DatesMissing(d)
      THEN Prices("rooms", OfRooms(e))
      ELSE IF f.adults THEN Proceed(f) ELSE Asks("ask_guests", f)

AnswerChildAges(d, m) ==
  LET given == m.ages \/ m.numbers
      e == [WithCurrency(d, m) EXCEPT
              !.ages  = @ \/ given,
              !.count = IF m.count # "unsaid" THEN m.count = "some" ELSE @ \/ given]
  IN  IF e.ages THEN Proceed(e)
      ELSE IF m.no THEN Proceed([e EXCEPT !.child = FALSE, !.count = FALSE])
      ELSE Asks("ask_child_ages", e)

Reply(f, m) ==
  IF f.state = "ask_dates" THEN AnswerDates(f.data, m)
  ELSE IF f.state = "ask_guests" THEN AnswerGuests(f.data, m)
  ELSE AnswerChildAges(f.data, m)

-----------------------------------------------------------------------------
(* The entry of the file                                                   *)

\* Mutation: the age of the dialogue is not looked at.
LiveBad == flow

Live    == IF flow # NoFlow /\ flow.stale THEN NoFlow ELSE flow

(* The time at which the dialogue began is kept by every save.             *)
Saved(state, d) ==
  flow' = [state |-> state, data |-> d, stale |-> Live # NoFlow /\ Live.stale]

Clear == flow' = NoFlow

Send(kind, d) ==
  \E s \in Slot :
    /\ asked[s] = NoJob
    /\ asked' = [asked EXCEPT ![s] = [kind |-> kind, data |-> d]]

Do(r) ==
  /\ \/ r.does = "asks" /\ Saved(r.state, r.data) /\ UNCHANGED asked
     \/ r.does = "ends" /\ Clear /\ UNCHANGED asked
     \/ r.does \in {"stay", "rooms"} /\ Send(r.does, r.data) /\ flow' = Live
  /\ UNCHANGED <<last, sweep>>

-----------------------------------------------------------------------------
(* Messages                                                                *)

(* The price of the last stay in another currency.                         *)
AskCurrency(m) ==
  /\ m.currency = "quoted"
  /\ last # NoQuery
  /\ Send("stay", last)
  /\ UNCHANGED <<flow, last, sweep>>

Continue(m) ==
  /\ Live # NoFlow
  /\ Do(Reply(Live, m))

(* The price of a room with a certain view: for one room, whatever was     *)
(* said of several.                                                        *)
AskFeature ==
  /\ Live # NoFlow /\ Live.state = "ask_guests"
  /\ Do(Proceed([Live.data EXCEPT !.many = FALSE, !.groups = "none"]))

Cancel ==
  /\ Live # NoFlow
  /\ Clear
  /\ UNCHANGED <<last, asked, sweep>>

(* Details of a new dialogue: those of the message, then those of the last *)
(* query, then those of earlier messages.                                  *)
FirstData(m) ==
  LET known == last # NoQuery
      apart == m.many /\ m.groups # "none"
      ages  == ~apart /\ (m.ages \/ (known /\ last.ages))
  IN  [from   |-> Or(m.from, IF known THEN last.from ELSE NoDay, NoDay),
       to     |-> Or(m.to, IF known THEN last.to ELSE NoDay, NoDay),
       adults |-> m.adults \/ (known /\ last.adults),
       child  |-> ~apart /\ (m.child \/ ages),
       count  |-> ~apart /\ (m.count = "some" \/ ages \/ (known /\ last.count)),
       ages   |-> ages,
       many   |-> m.many,
       groups |-> m.groups,
       refused |-> m.currency = "refused"]

FromBacklog(d, h) ==
  LET lacks  == ~d.adults \/ AgesMissing(d)
      ages   == d.ages \/ (lacks /\ h.ages)
  IN  IF ~(DatesMissing(d) \/ lacks) THEN d
      ELSE [d EXCEPT !.from   = Or(@, h.from, NoDay),
                     !.to     = Or(@, h.to, NoDay),
                     !.adults = @ \/ h.adults,
                     !.ages   = ages,
                     !.child  = @ \/ h.child \/ ages,
                     !.count  = @ \/ ages \/ (lacks /\ h.count = "some")]

(* Bare numbers are the ages that are missing.                             *)
FromNumbers(d, m) ==
  IF AgesMissing(d) /\ m.numbers /\ ~m.child
  THEN [d EXCEPT !.ages = TRUE, !.count = TRUE] ELSE d

Start(m) ==
  /\ Live = NoFlow
  /\ \E h \in Backlog :
       LET d == FromNumbers(FromBacklog(FirstData(m), h), m)
       IN  Do(IF d.refused THEN Ends(d) ELSE Proceed(d))

(* Anything else is left to other handlers; an old dialogue goes.          *)
Aside ==
  /\ flow' = Live
  /\ UNCHANGED <<last, asked, sweep>>

-----------------------------------------------------------------------------
(* Elektra                                                                 *)

(* The replies to a question for the prices of a stay.                     *)
Replies ==
  [from \in Day |-> [to \in Day |->
     {PriceReply(p, a, Nights(from, to), w) :
        p \in PriceAnswers, a \in Availabilities, w \in Wishes}]]

(* A stay that was answered is the last query, whichever dialogue it was   *)
(* asked for; every answer, or hand-over, ends the dialogue there is now.  *)
Answer(s) ==
  /\ asked[s] # NoJob
  /\ asked' = [asked EXCEPT ![s] = NoJob]
  /\ \E reply \in Replies[asked[s].data.from][asked[s].data.to] :
       last' = IF reply \in {"prices", "no rooms"} /\ asked[s].kind = "stay"
               THEN [asked[s].data EXCEPT !.many = FALSE, !.groups = "none"]
               ELSE last
  /\ Clear
  /\ UNCHANGED sweep

-----------------------------------------------------------------------------
(* Time, deletion, the timers and restarts                                 *)

Aged(f) == IF f = NoFlow THEN f ELSE [f EXCEPT !.stale = TRUE]

QuarterPasses ==
  /\ flow' = Aged(flow)
  /\ sweep' = [sweep EXCEPT !.flow = Aged(@)]
  /\ UNCHANGED <<last, asked>>

HourPasses ==
  /\ flow' = Aged(flow) /\ last' = NoQuery
  /\ sweep' = [sweep EXCEPT !.flow = Aged(@), !.last = NoQuery]
  /\ UNCHANGED asked

(* The first message of a conversation without history.                    *)
ConversationOver ==
  /\ Clear
  /\ UNCHANGED <<last, asked, sweep>>

Purge ==
  /\ Clear /\ last' = NoQuery
  /\ UNCHANGED <<asked, sweep>>

(* A timer clears the dialogue of this customer, or of another one.        *)
SweepLoads ==
  /\ ~sweep.on
  /\ flow # NoFlow => flow.data \in Swept
  /\ last # NoQuery => last \in Swept
  /\ \E f \in {flow, NoFlow} : sweep' = [on |-> TRUE, flow |-> f, last |-> last]
  /\ UNCHANGED <<flow, last, asked>>

SweepSaves ==
  /\ sweep.on
  /\ flow' = sweep.flow /\ last' = sweep.last
  /\ sweep' = NoSweep
  /\ UNCHANGED asked

Restart ==
  /\ asked' = [s \in Slot |-> NoJob]
  /\ sweep' = NoSweep
  /\ UNCHANGED <<flow, last>>

Next ==
  \/ \E m \in Message : AskCurrency(m) \/ Continue(m) \/ Start(m)
  \/ AskFeature \/ Cancel \/ Aside
  \/ \E s \in Slot : Answer(s)
  \/ QuarterPasses \/ HourPasses
  \/ ConversationOver \/ Purge \/ SweepLoads \/ SweepSaves
  \/ Restart

Spec == Init /\ [][Next]_vars

-----------------------------------------------------------------------------
(* Properties                                                              *)

(* The question that is put is always the first one that is open: the      *)
(* state in the file, whichever handler or timer saved it, belongs to the  *)
(* details beside it (_get_missing_fields, _ask_next_missing).             *)
AsksWhatIsMissing ==
  flow # NoFlow =>
    LET d == flow.data
    IN  /\ ~Complete(d)
        /\ flow.state = "ask_dates" <=> DatesMissing(d)
        /\ flow.state = "ask_child_ages" <=>
             ~DatesMissing(d) /\ ~GuestsMissing(d) /\ ~CountMissing(d)

(* No prices are asked for with a detail missing, also when the stay is    *)
(* that of the last query, whichever dialogue that came from, or when a    *)
(* message brings the guests of several rooms (_query_elektraweb).         *)
AskedIsComplete ==
  \A s \in Slot : asked[s] # NoJob =>
    LET d == asked[s].data
    IN  /\ ~DatesMissing(d) /\ ~GuestsMissing(d)
        /\ asked[s].kind = "stay" =>
             Complete(d) /\ d.adults

(* The program reads in m what the question asks for.  It does not in a    *)
(* last day on its own, nor in "no children" if their number is asked for. *)
Tells(m, d) ==
  /\ Question(d) = "dates" =>
       Or(m.from, d.from, NoDay) # NoDay /\ (m.to # NoDay \/ m.nights > 0)
  /\ Question(d) = "guests" => IF d.many THEN m.groups = "all" ELSE m.adults
  /\ Question(d) = "child_count" => m.count = "some"
  /\ Question(d) = "child_ages" => m.ages \/ m.numbers \/ m.no

Rank(question) ==
  IF question = "dates" THEN 1 ELSE IF question = "guests" THEN 2
  ELSE IF question = "child_count" THEN 3 ELSE 4

(* Whatever has been said, changed, put back or forgotten before, no       *)
(* message, an answer or not, leads back to an earlier question: what the  *)
(* answers have settled stays settled.  The same question is put again     *)
(* only if the program has not read in the message what it asks for.  The  *)
(* one way back is a message that gives the guests of some of the rooms    *)
(* (_handle_dates_response, _handle_guests_response,                       *)
(* _handle_child_ages_response).                                           *)
NeverAskedBack ==
  flow # NoFlow =>
    \A m \in Message :
      LET r   == Reply(flow, m)
          old == Question(flow.data)
          new == Question(r.data)
      IN  r.does = "asks" =>
            \/ Rank(new) > Rank(old)
            \/ new = old /\ ~Tells(m, flow.data)
            \/ new = "guests" /\ m.groups = "some"

Agreement == [from \in Day |-> [to \in Day |-> ReadingsAgree(Nights(from, to))]]

(* Every request that is out has a first and a last day, and whatever rows *)
(* with numbers Elektra answers about its nights, a room that is priced is *)
(* one that the question for rooms left finds under its key                *)
(* (_derive_stay_eligible_room_type_ids_from_availability and              *)
(* _extract_room_stock_from_availability_rows).                            *)
PricedIsInStock ==
  \A s \in Slot : asked[s] # NoJob =>
    LET d == asked[s].data
    IN  /\ {d.from, d.to} \subseteq Day
        /\ Agreement[d.from][d.to]

(* A dialogue begun more than fifteen minutes ago is not carried on        *)
(* (PRICE_FLOW_TIMEOUT_MINUTES), though every save keeps its beginning     *)
(* and a timer may put an old entry back.                                  *)
OldFlowIsLeft ==
  [][flow # NoFlow /\ flow.stale /\ flow' # NoFlow /\ flow'.data # flow.data
       => ~flow'.stale \/ flow' = sweep.flow]_vars
=============================================================================
