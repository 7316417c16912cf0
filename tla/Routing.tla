------------------------------ MODULE Routing ------------------------------
(***************************************************************************)
(* Who answers a message (routes/chat_routes, after the pre-checks).  The  *)
(* endpoint asks one handler after the other; the first that replies ends  *)
(* it.  Which one that is depends on the words of the message, on what the *)
(* classifier takes it for and on the dialogues that wait for an answer.   *)
(*                                                                         *)
(* A message is the set of the kinds of words in it.  The classifier       *)
(* (services/intent_semantic_service) may return anything.                 *)
(***************************************************************************)
EXTENDS Naturals, FiniteSets

Word == {"early date", "late date", "time", "guests", "adults", "name", "yes", "phone",
         "price", "prix", "jia",            \* in Turkish or English, in Chinese, in others
         "room", "feature", "table", "book", "create", "order", "begin",
         "payment", "card", "deposit", "bank", "link",
         "transfer", "flight", "faq", "parking", "pool", "late", "hours",
         "cancel", "terms", "some", "change", "reference", "number", "rate",
         "staff", "party", "question", "alarm", "switch", "digit", "bye", "hello", "new date",
         "same dates"}

(* "order" and "begin" stand for phrases such as "book the" and "book now".*)
IsWording(m) == m \subseteq Word /\ (m \cap {"order", "begin"} # {} => "book" \in m)

(* GREETING and DISCOUNT_NEGOTIATION stand for the intents like them.     *)
PriceIntent   == {"PRICE_QUERY", "AVAILABILITY_QUERY"}
BookingIntent == {"HOTEL_BOOKING_CREATE", "HOTEL_BOOKING_MODIFY", "HOTEL_BOOKING_CANCEL",
                  "PAYMENT_METHOD_QUERY", "PAYMENT_LINK_REQUEST"}
TableIntent   == {"RESTAURANT_BOOKING_CREATE", "RESTAURANT_BOOKING_MODIFY",
                  "RESTAURANT_BOOKING_CANCEL"}
Intent == PriceIntent \cup BookingIntent \cup TableIntent \cup
          {"TRANSFER_INFO", "TRANSFER_BOOKING_REQUEST", "LOCAL_FAQ_INFO", "COMPLAINT",
           "DISCOUNT_NEGOTIATION", "GREETING", "OUT_OF_SCOPE_OTHER"}

(* Dialogues with a state other than idle.                                 *)
Waiting == {"transfer", "restaurant", "booking", "price"}

(* What holds of the conversation.  "out": of the dates of this and of the *)
(* last four messages the first two lie outside the season.                *)
Fact == {"history", "payment", "out", "dates said", "guests said", "number said", "rate said",
         "contact asked", "transfer asked", "table asked", "cancellation asked", "change offered",
         "cancelling", "unsure", "upset",
         "no rules", "strict", "modern"}   \* the switches: rules, STRICT_AI_FIRST,
                                           \* NEW_PIPELINE_ENABLED

Situation == [open : SUBSET Waiting, asked : {"restaurant", "transfer", "hotel", "unknown"},
              facts : SUBSET Fact]

-----------------------------------------------------------------------------
(* The words (services/intent_normalizer_service, slot_contract_service)   *)

AsksPrice(m) == m \cap {"price", "prix", "jia"} # {}
HasDate(m)   == m \cap {"early date", "late date"} # {}
HasGuests(m) == m \cap {"guests", "adults"} # {}
Pays(m)      == m \cap {"payment", "card", "deposit"} # {}

PaymentFollowup(m) == m \cap {"card", "deposit", "bank"} # {} \/ {"payment", "link"} \subseteq m

PricePayload(m) == HasDate(m) /\ HasGuests(m)

\* Mutation: only the words for a price in Turkish and English are known.
PriceSignalBad(m) == "price" \in m /\ ("table" \in m => m \cap {"room", "feature"} # {})

(* A question for the price of a meal is none.                             *)
PriceSignal(m) == AsksPrice(m) /\ ("table" \in m => m \cap {"room", "feature"} # {})

RoomPrice(m) == AsksPrice(m) /\ m \cap {"room", "feature"} # {}

BookingCreate(m) == "order" \in m \/ {"book", "create"} \subseteq m

RoomCreate(m) == {"book", "room"} \subseteq m /\ ~PriceSignal(m)

DirectCreate(m) == {"book", "create", "room"} \subseteq m /\ "price" \notin m

ExplicitCreate(m) == BookingCreate(m) \/ RoomCreate(m) \/ DirectCreate(m)

TableBooking(m) == {"table", "book"} \subseteq m /\ m \cap {"room", "feature"} = {}

(* A day and a number up to 20, which may be the day itself.               *)
TableAnswer(m) ==
  /\ m \cap {"adults", "room", "late"} = {}
  /\ "early date" \in m \/ ("late date" \in m /\ "guests" \in m)

ReservationAnswer(m) == m \cap {"guests", "time", "flight"} # {} \/ TableAnswer(m)

LateCheckIn(m) == {"late", "question"} \subseteq m

AsksFaq(m) == m \cap {"faq", "parking", "pool"} # {}

Pivot(m) == m \cap {"payment", "card", "faq", "parking", "late", "begin"} # {}

-----------------------------------------------------------------------------
(* The intent                                                              *)

(* Words that settle it, whatever the classifier says.                     *)
Forced(m, i) ==
  IF "begin" \in m \/ (BookingCreate(m) /\ ~PriceSignal(m) /\ ~Pays(m))
    THEN IF TableBooking(m) /\ ~PriceSignal(m) /\ ~Pays(m)
         THEN "RESTAURANT_BOOKING_CREATE" ELSE "HOTEL_BOOKING_CREATE"
  ELSE IF "transfer" \in m /\ ~Pays(m) /\ m \cap {"room", "feature"} = {}
    THEN IF m \cap {"flight", "guests", "book"} # {} \/ PricePayload(m)
         THEN "TRANSFER_BOOKING_REQUEST" ELSE "TRANSFER_INFO"
  ELSE IF AsksFaq(m) /\ ~Pays(m) /\ m \cap {"room", "feature", "transfer"} = {}
    THEN "LOCAL_FAQ_INFO"
  ELSE IF PriceSignal(m) /\ ~Pays(m) THEN "PRICE_QUERY"
  ELSE IF m \cap {"payment", "card"} # {}
    THEN IF "link" \in m THEN "PAYMENT_LINK_REQUEST" ELSE "PAYMENT_METHOD_QUERY"
  ELSE IF PaymentFollowup(m) THEN "PAYMENT_METHOD_QUERY"
  ELSE IF RoomPrice(m) \/ (AsksPrice(m) /\ PricePayload(m)) THEN "PRICE_QUERY"
  ELSE i

(* A booking that is asked for without a price is no question for one.     *)
AsCreate(m, i) ==
  IF i \in PriceIntent /\ BookingCreate(m) /\ ~PriceSignal(m) THEN "HOTEL_BOOKING_CREATE" ELSE i

DomainIntent(c, other) ==
  IF c.asked = "restaurant" THEN "RESTAURANT_BOOKING_CREATE"
  ELSE IF c.asked = "transfer" THEN "TRANSFER_BOOKING_REQUEST"
  ELSE other

CoversPrice(m, c) ==
  (HasDate(m) \/ "dates said" \in c.facts) /\ (HasGuests(m) \/ "guests said" \in c.facts)

(* The new pipeline does not give up on a message that answers something.  *)
Rescued(m, i, c) ==
  IF i # "OUT_OF_SCOPE_OTHER" THEN i
  ELSE IF PricePayload(m) \/ ("history" \in c.facts /\ CoversPrice(m, c)) THEN "PRICE_QUERY"
  ELSE IF "contact asked" \in c.facts /\ ReservationAnswer(m) THEN DomainIntent(c, i)
  ELSE i

Routed(m, i, c) ==
  IF "modern" \in c.facts
  THEN LET j == Forced(m, Rescued(m, i, c))
       IN  AsCreate(m, IF PriceSignal(m) /\ "jia" \in m /\ j \notin PriceIntent
                     THEN "PRICE_QUERY" ELSE j)
  ELSE i

PrimaryIntent(m, i, c) ==
  LET j == AsCreate(m, Forced(m, Routed(m, i, c)))
  IN  IF RoomCreate(m) \/ DirectCreate(m) THEN "HOTEL_BOOKING_CREATE"
      ELSE IF LateCheckIn(m) THEN "LOCAL_FAQ_INFO"
      ELSE IF PaymentFollowup(m) THEN "PAYMENT_METHOD_QUERY"
      ELSE IF j \in PriceIntent /\ m = {"phone"} /\ "contact asked" \in c.facts
        THEN DomainIntent(c, "HOTEL_BOOKING_CREATE")
      ELSE IF j \in PriceIntent /\ c.asked = "restaurant" /\ TableAnswer(m)
        THEN "RESTAURANT_BOOKING_CREATE"
      ELSE j

-----------------------------------------------------------------------------
(* Before the intent is known                                              *)

PriceFollowup(m) ==
  /\ {"same dates", "question"} \subseteq m /\ m \cap {"room", "price"} # {}
  /\ m \cap {"cancel", "change", "number", "reference"} = {}

InfoQuestion(m) ==
  \/ {"reference", "question"} \subseteq m /\ "number" \notin m
  \/ {"transfer", "price"} \subseteq m
  \/ "hours" \in m

WantsCancelled(m) == "cancel" \in m /\ m \cap {"terms", "table", "transfer"} = {}

ChangesBooking(m) ==
  \/ m \cap {"book", "reference"} # {} /\ m \cap {"change", "cancel"} # {}
  \/ "room" \in m /\ m \cap {"change", "cancel"} # {} /\ "price" \notin m

(* Reservations that are changed or cancelled go to the staff, once their  *)
(* number and rate are known (services/operational_rule_service).          *)
Rule(m, c) ==
  IF \/ "history" \notin c.facts \/ "no rules" \in c.facts
     \/ PriceFollowup(m) /\ m \cap {"room", "adults"} # {} THEN "none"
  ELSE IF InfoQuestion(m) \/ {"cancel", "terms"} \subseteq m THEN "info"
  ELSE IF PriceFollowup(m) THEN "none"
  ELSE IF {"cancel", "room", "some"} \subseteq m THEN "question"
  ELSE IF "cancellation asked" \in c.facts \/ WantsCancelled(m)
    THEN IF /\ "number" \in m \/ "number said" \in c.facts
            /\ m \cap {"rate", "digit"} # {} \/ "rate said" \in c.facts
         THEN "staff" ELSE "question"
  ELSE IF ChangesBooking(m) /\ m \cap {"order", "number"} = {} THEN "question"
  ELSE IF {"book", "new date"} \subseteq m /\ "cancel" \notin m THEN "question"
  ELSE IF "change offered" \in c.facts /\ m = {"yes"} THEN "staff"
  ELSE "none"

SlotFollowup(m, c) ==
  /\ "history" \in c.facts
  /\ \/ "dates said" \in c.facts /\ ~HasDate(m)
     \/ "guests said" \in c.facts /\ ~HasGuests(m)
  /\ HasDate(m) \/ HasGuests(m) \/ m \cap {"time", "phone", "digit", "flight"} # {}

\* Mutation: the model also gets what asks for a price.
BypassesModelBad(m) == PricePayload(m) \/ ExplicitCreate(m) \/ PaymentFollowup(m)

(* Words that the model may not answer first.                              *)
BypassesModel(m) ==
  RoomPrice(m) \/ PricePayload(m) \/ PriceSignal(m) \/ ExplicitCreate(m) \/ PaymentFollowup(m)

(* A question for the terms of a cancellation and for nothing else.        *)
AsksTerms(m) ==
  /\ {"cancel", "terms"} \subseteq m
  /\ ~AsksPrice(m) /\ ~PricePayload(m) /\ ~Pays(m) /\ ~AsksFaq(m)
  /\ m \cap {"book", "room", "feature", "transfer", "late"} = {}

-----------------------------------------------------------------------------
(* The handlers, in the order in which they are asked                      *)

Rank == [rules |-> 1, cancellation |-> 2, alarm |-> 3, welcome |-> 4, menu |-> 5,
         model_first |-> 6, language |-> 7, policy |-> 8, season |-> 9, unknown |-> 10,
         clarify |-> 11, transfer |-> 12, table |-> 13, staff |-> 14, restaurant |-> 15,
         booking |-> 16, price |-> 17, elektra |-> 18, price_guard |-> 19,
         last_checks |-> 20, mood |-> 21, model |-> 22]

Busy(c) == c.open # {} \/ "payment" \in c.facts

When(b, h) == IF b THEN {h} ELSE {}

Stay == PriceIntent \cup {"HOTEL_BOOKING_CREATE"}

(* The handler asks for details that the intent needs (slot_contract).     *)
Incomplete(m, i, c) ==
  \/ i \in Stay /\ ~PricePayload(m) /\ ~("history" \in c.facts /\ CoversPrice(m, c))
  \/ i \in {"HOTEL_BOOKING_MODIFY", "HOTEL_BOOKING_CANCEL", "RESTAURANT_BOOKING_MODIFY",
           "RESTAURANT_BOOKING_CANCEL", "PAYMENT_LINK_REQUEST"} /\ "number" \notin m
  \/ i = "LOCAL_FAQ_INFO" /\ m \cap {"faq", "pool", "late", "hours"} = {}

(* The reference may lack its change, the question its topic, and so on.   *)
MayBeIncomplete(i) ==
  i \in {"HOTEL_BOOKING_MODIFY", "HOTEL_BOOKING_CANCEL", "RESTAURANT_BOOKING_MODIFY",
         "RESTAURANT_BOOKING_CANCEL", "PAYMENT_LINK_REQUEST", "LOCAL_FAQ_INFO",
         "DISCOUNT_NEGOTIATION"}

Clarifies(m, i, c) ==
  /\ c.open = {}
  /\ i \notin {"RESTAURANT_BOOKING_CREATE", "TRANSFER_BOOKING_REQUEST"}
  /\ ~(i = "HOTEL_BOOKING_CREATE" /\ BookingCreate(m))

\* Mutation: staff are called in the middle of a dialogue.
GivesUpAlways(m, i, c) ==
  i = "OUT_OF_SCOPE_OTHER" /\ ~("contact asked" \in c.facts /\ ReservationAnswer(m))

(* What the classifier does not know, or is not sure of, goes to staff.    *)
GivesUp(m, i, c) ==
  /\ \/ i = "OUT_OF_SCOPE_OTHER"
     \/ {"unsure", "modern"} \subseteq c.facts /\ i \in {"TRANSFER_INFO", "COMPLAINT", "GREETING",
                                        "TRANSFER_BOOKING_REQUEST", "DISCOUNT_NEGOTIATION"}
  /\ ~("contact asked" \in c.facts /\ ReservationAnswer(m))
  /\ ~LateCheckIn(m)
  /\ ~Busy(c)

(* With STRICT_AI_FIRST the model gets what belongs to no dialogue.        *)
LeavesToModel(m, c) ==
  /\ "strict" \in c.facts /\ ~Busy(c)
  /\ ~BypassesModel(m) /\ "contact asked" \notin c.facts

StartsTable(m, j, c) ==
  /\ j \in TableIntent \/ "restaurant" \in c.open
  /\ \/ j = "RESTAURANT_BOOKING_CREATE"
     \/ "book" \in m /\ m \cap {"table", "party"} # {}
     \/ "table asked" \in c.facts

CallsStaff(m, c) == m \cap {"staff", "party"} # {} /\ "payment" \notin c.facts

(* Mentioned in a question, the words for staff do not count.              *)
OnlyAsks(m) ==
  m \cap {"question", "terms", "hours", "reference", "faq", "parking", "pool", "late",
          "rate", "book"} # {}

Books(m, j, c) ==
  \/ j \in BookingIntent \/ "booking" \in c.open
  \/ PaymentFollowup(m) \/ "payment" \in c.facts \/ ExplicitCreate(m)

Prices(m, j, c) ==
  /\ j \in PriceIntent \/ "price" \in c.open
  /\ m # {"phone"}
  /\ ~("price" \in c.open /\ Pivot(m))

(* A price is never left to the model.                                     *)
GuardsPrice(m, j) ==
  /\ (j \in PriceIntent /\ ~ExplicitCreate(m)) \/ PriceSignal(m)
  /\ ~DirectCreate(m)

(* The handlers that reply when they are asked.                            *)
Replies(m, i, c) ==
  LET j == PrimaryIntent(m, i, c)
  IN  When(Rule(m, c) # "none", "rules")
      \cup When("history" \notin c.facts, "welcome")
      \cup When(m = {"digit"} /\ ~Busy(c), "menu")
      \cup When(/\ "modern" \in c.facts /\ LeavesToModel(m, c)
                 /\ i \notin Stay /\ ~SlotFollowup(m, c), "model_first")
      \cup When("switch" \in m, "language")
      \cup When("modern" \in c.facts /\ AsksTerms(m), "policy")
      \cup When(j \in Stay /\ "out" \in c.facts, "season")
      \cup When(GivesUp(m, j, c), "unknown")
      \cup When(Clarifies(m, j, c) /\ Incomplete(m, j, c), "clarify")
      \cup When("transfer" \in c.open \/ j = "TRANSFER_BOOKING_REQUEST"
                 \/ "transfer asked" \in c.facts, "transfer")
      \cup When(StartsTable(m, j, c) /\ j = "RESTAURANT_BOOKING_CREATE", "table")
      \cup When("staff" \in m /\ CallsStaff(m, c) /\ ~OnlyAsks(m), "staff")
      \cup When(GuardsPrice(m, j), "price_guard")
      \cup When("upset" \in c.facts, "mood")
      \cup {"model"}

(* The handlers that reply or pass the message on, depending on more than  *)
(* its words.                                                              *)
MayReply(m, i, c) ==
  LET j == PrimaryIntent(m, i, c)
  IN  When("cancel" \in m \/ "cancelling" \in c.facts, "cancellation")
      \cup When("alarm" \in m, "alarm")
      \cup When(LeavesToModel(m, c), "model_first")
      \cup When("modern" \in c.facts /\ {"cancel", "question"} \subseteq m, "policy")
      \cup When(Clarifies(m, j, c) /\ MayBeIncomplete(j), "clarify")
      \cup When(StartsTable(m, j, c), "table")
      \cup When(CallsStaff(m, c), "staff")
      \cup When("restaurant" \in c.open, "restaurant")
      \cup When(Books(m, j, c), "booking")
      \cup When(Prices(m, j, c), "price")
      \cup When(j \in PriceIntent, "elektra")
      \cup When(HasDate(m) \/ m \cap {"bye", "hello", "digit"} # {}, "last_checks")

(* Price or booking first (services/flow_fsm).                             *)
PriceFirst(j, c) ==
  /\ "modern" \in c.facts /\ "booking" \notin c.open
  /\ "price" \in c.open \/ j \in PriceIntent

Before(g, h, j, c) ==
  IF {g, h} = {"booking", "price"} THEN (g = "price") = PriceFirst(j, c)
  ELSE Rank[g] < Rank[h]

(* The handlers one of which answers the message.                          *)
Answerers(m, i, c) ==
  {h \in Replies(m, i, c) \cup MayReply(m, i, c) :
     \A g \in Replies(m, i, c) : ~Before(g, h, PrimaryIntent(m, i, c), c)}
=============================================================================
