--------------------------- MODULE RoutingProofs ----------------------------
(* What holds of the choice of a handler for all messages, intents and     *)
(* situations.                                                             *)
EXTENDS ChatRouting, TLAPS

LEMMA RanksAre ==
  /\ Rank["transfer"] = 12 /\ Rank["table"] = 13 /\ Rank["restaurant"] = 15
  /\ Rank["booking"] = 16 /\ Rank["price"] = 17 /\ Rank["elektra"] = 18
  /\ Rank["price_guard"] = 19 /\ Rank["last_checks"] = 20 /\ Rank["mood"] = 21
  /\ Rank["model"] = 22
  BY DEF Rank

-----------------------------------------------------------------------------
(* A message that asks for a price is not left to the language model.      *)

LEMMA GuardReplies ==
  ASSUME NEW m, NEW i, NEW c, AsksForPrice(m)
  PROVE  "price_guard" \in Replies(m, i, c)
  <1>1. GuardsPrice(m, PrimaryIntent(m, i, c))
    BY DEF AsksForPrice, GuardsPrice
  <1>2. "price_guard" \in When(GuardsPrice(m, PrimaryIntent(m, i, c)), "price_guard")
    BY <1>1 DEF When
  <1> QED
    BY <1>2 DEF Replies

LEMMA ModelIsNotFirst ==
  ASSUME NEW m, NEW i, NEW c, AsksForPrice(m)
  PROVE  "model_first" \notin Replies(m, i, c) \cup MayReply(m, i, c)
  <1>1. ~LeavesToModel(m, c)
    BY DEF AsksForPrice, LeavesToModel, BypassesModel
  <1>2. "model_first" \notin Replies(m, i, c)
    BY <1>1 DEF Replies, When
  <1>3. "model_first" \notin MayReply(m, i, c)
    BY <1>1 DEF MayReply, When
  <1> QED
    BY <1>2, <1>3

LEMMA ModelNamesNoPrice ==
  ASSUME NEW m, NEW i, NEW c, AsksForPrice(m)
  PROVE  Answerers(m, i, c) \cap {"model", "model_first"} = {}
  <1> DEFINE j == PrimaryIntent(m, i, c)
  <1>1. Before("price_guard", "model", j, c)
    BY RanksAre DEF Before
  <1>2. "model" \notin Answerers(m, i, c)
    BY <1>1, GuardReplies DEF Answerers
  <1>3. "model_first" \notin Answerers(m, i, c)
    BY ModelIsNotFirst DEF Answerers
  <1> QED
    BY <1>2, <1>3

(* No message that passes the pre-checks and asks for a price is answered  *)
(* by the language model (chat_routes.py:2089).                            *)
THEOREM PricesComeFromElektra == Spec => []PriceIsNotInvented
  <1>1. PriceInvented = {}
    BY ModelNamesNoPrice DEF PriceInvented, InventsPrice
  <1>2. PriceIsNotInvented
    BY <1>1 DEF PriceIsNotInvented
  <1> QED
    BY <1>2, PTL

-----------------------------------------------------------------------------
(* A bare answer reaches a dialogue that waits.                            *)

LEMMA BareWords ==
  ASSUME NEW m, BareAnswer(m)
  PROVE  /\ ~AsksPrice(m) /\ ~PriceSignal(m) /\ ~PaymentFollowup(m) /\ ~ExplicitCreate(m)
         /\ ~Pivot(m) /\ ~AsksTerms(m)
  BY DEF BareAnswer, AsksPrice, PriceSignal, PaymentFollowup, ExplicitCreate, BookingCreate,
         RoomCreate, DirectCreate, Pivot, AsksTerms

(* What else could reply has nothing to go by.                             *)
LEMMA OthersAreSilent ==
  ASSUME NEW m, NEW j, NEW c, BareAnswer(m), c.open # {}, "history" \in c.facts,
         ~IsDrawnAway(m, j, c)
  PROVE  /\ Rule(m, c) = "none" /\ Busy(c)
         /\ "cancel" \notin m /\ "cancelling" \notin c.facts /\ "alarm" \notin m /\ "switch" \notin m
         /\ m # {"digit"} /\ ~LeavesToModel(m, c) /\ ~GivesUp(m, j, c) /\ ~Clarifies(m, j, c)
         /\ ~CallsStaff(m, c)
         /\ (StartsTable(m, j, c) => "restaurant" \in c.open)
         /\ (j = "TRANSFER_BOOKING_REQUEST" \/ "transfer asked" \in c.facts => "transfer" \in c.open)
  <1>1. "cancel" \notin m /\ "alarm" \notin m /\ "switch" \notin m /\ "digit" \notin m
         /\ "same dates" \notin m
         /\ m \cap {"staff", "party"} = {} /\ "book" \notin m /\ "room" \notin m
         /\ "reference" \notin m /\ "transfer" \notin m /\ "hours" \notin m
    BY DEF BareAnswer
  <1>2. c.facts \cap {"transfer asked", "table asked", "cancellation asked", "cancelling",
                      "change offered"} = {}
    BY DEF IsDrawnAway
  <1>3. Busy(c)
    BY DEF Busy
  <1>4. ~PriceFollowup(m) /\ ~InfoQuestion(m) /\ ~WantsCancelled(m) /\ ~ChangesBooking(m)
    BY <1>1 DEF PriceFollowup, InfoQuestion, WantsCancelled, ChangesBooking
  <1>5. Rule(m, c) = "none"
    BY <1>1, <1>2, <1>4 DEF Rule
  <1>6. ~LeavesToModel(m, c) /\ ~GivesUp(m, j, c) /\ ~Clarifies(m, j, c) /\ ~CallsStaff(m, c)
    BY <1>1, <1>3 DEF LeavesToModel, GivesUp, Clarifies, CallsStaff
  <1>7. StartsTable(m, j, c) => "restaurant" \in c.open
    BY <1>1, <1>2 DEF StartsTable, IsDrawnAway
  <1>8. j = "TRANSFER_BOOKING_REQUEST" => "transfer" \in c.open
    BY DEF IsDrawnAway
  <1> QED
    BY <1>1, <1>2, <1>3, <1>5, <1>6, <1>7, <1>8

Rest == {"booking", "price", "elektra", "price_guard", "last_checks", "mood", "model"}

LEMMA AskedIsFew ==
  ASSUME NEW m, NEW i, NEW c, BareAnswer(m), c.open # {}, "history" \in c.facts,
         ~IsDrawnAway(m, PrimaryIntent(m, i, c), c),
         NEW h \in Replies(m, i, c) \cup MayReply(m, i, c)
  PROVE  h \in Listeners(c) \cup Rest
  <1> DEFINE j == PrimaryIntent(m, i, c)
  <1>0. /\ Rule(m, c) = "none" /\ Busy(c)
        /\ "cancel" \notin m /\ "cancelling" \notin c.facts /\ "alarm" \notin m /\ "switch" \notin m
        /\ m # {"digit"} /\ ~LeavesToModel(m, c) /\ ~GivesUp(m, j, c) /\ ~Clarifies(m, j, c)
        /\ ~CallsStaff(m, c)
        /\ (StartsTable(m, j, c) => "restaurant" \in c.open)
        /\ (j = "TRANSFER_BOOKING_REQUEST" \/ "transfer asked" \in c.facts => "transfer" \in c.open)
    BY OthersAreSilent
  <1>1. ~AsksTerms(m)
    BY BareWords
  <1> HIDE DEF j
  <1>2. CASE h \in Replies(m, i, c)
    <2>1. Replies(m, i, c) \subseteq {"season", "transfer", "table"} \cup Rest
      BY <1>0, <1>1 DEF Replies, When, Rest, j
    <2>2. "season" \in Replies(m, i, c) => "out" \in c.facts
      BY DEF Replies, When
    <2>3. "transfer" \in Replies(m, i, c) => "transfer" \in c.open
      BY <1>0 DEF Replies, When, j
    <2>4. "table" \in Replies(m, i, c) => "restaurant" \in c.open
      BY <1>0 DEF Replies, When, j
    <2> QED
      BY <1>2, <2>1, <2>2, <2>3, <2>4 DEF Listeners, When
  <1>3. CASE h \in MayReply(m, i, c)
    <2>1. MayReply(m, i, c) \subseteq {"table", "restaurant"} \cup Rest
      BY <1>0 DEF MayReply, When, Rest, j
    <2>2. "table" \in MayReply(m, i, c) => "restaurant" \in c.open
      BY <1>0 DEF MayReply, When, j
    <2>3. "restaurant" \in MayReply(m, i, c) => "restaurant" \in c.open
      BY DEF MayReply, When
    <2> QED
      BY <1>3, <2>1, <2>2, <2>3 DEF Listeners, When
  <1> QED
    BY <1>2, <1>3

LEMMA DialogueIsHeard ==
  ASSUME NEW m, NEW i, NEW c, c.open \subseteq Waiting, BareAnswer(m), c.open # {},
         "history" \in c.facts, ~IsDrawnAway(m, PrimaryIntent(m, i, c), c)
  PROVE  IsHeard(m, i, c)
  <1> DEFINE j     == PrimaryIntent(m, i, c)
             asked == Replies(m, i, c) \cup MayReply(m, i, c)
  <1>1. \A h \in asked \ Listeners(c) : h \in Rest
    BY AskedIsFew
  <1>2. \A d \in c.open : d \in Listeners(c)
    BY DEF Listeners
  <1>3. SUFFICES \E d \in c.open : d \in asked /\ \A h \in asked \ Listeners(c) : ~Before(h, d, j, c)
    BY <1>2 DEF IsHeard
  <1>4. CASE "transfer" \in c.open
    <2>1. "transfer" \in asked
      BY <1>4 DEF Replies, When
    <2>2. \A h \in Rest : ~Before(h, "transfer", j, c)
      BY RanksAre DEF Rest, Before
    <2> QED
      BY <1>1, <1>4, <2>1, <2>2
  <1>5. CASE "restaurant" \in c.open
    <2>1. "restaurant" \in asked
      BY <1>5 DEF MayReply, When
    <2>2. \A h \in Rest : ~Before(h, "restaurant", j, c)
      BY RanksAre DEF Rest, Before
    <2> QED
      BY <1>1, <1>5, <2>1, <2>2
  <1>6. CASE "booking" \in c.open
    <2>1. "booking" \in asked
      BY <1>6 DEF MayReply, When, Books
    <2>2. ~PriceFirst(j, c)
      BY <1>6 DEF PriceFirst
    <2>3. ~Before("price", "booking", j, c)
      BY <2>2 DEF Before
    <2>4. \A h \in Rest \ {"price"} : {h, "booking"} # {"booking", "price"} /\ ~(Rank[h] < Rank["booking"])
      BY RanksAre DEF Rest
    <2>5. \A h \in Rest \ {"price"} : ~Before(h, "booking", j, c)
      BY <2>4 DEF Before
    <2> QED
      BY <1>1, <1>6, <2>1, <2>3, <2>5
  <1>7. CASE c.open = {"price"}
    <2>1. "price" \in asked
      BY <1>7, BareWords DEF MayReply, When, Prices, IsDrawnAway
    <2>2. \A h \in Rest \ {"booking"} : ~Before(h, "price", j, c)
      BY RanksAre DEF Rest, Before
    <2>3. "booking" \in asked => Books(m, j, c)
      BY DEF Replies, MayReply, When
    <2>4. Books(m, j, c) => "modern" \in c.facts
      BY <1>7 DEF IsDrawnAway
    <2>5. "modern" \in c.facts => PriceFirst(j, c)
      BY <1>7 DEF PriceFirst
    <2>6. "booking" \in asked => ~Before("booking", "price", j, c)
      BY <2>3, <2>4, <2>5 DEF Before
    <2> QED
      BY <1>1, <1>7, <2>1, <2>2, <2>6
  <1> QED
    BY <1>4, <1>5, <1>6, <1>7 DEF Waiting

(* No bare answer to an open question goes to a handler that answers for   *)
(* itself (chat_routes.py:1470-1476).                                      *)
THEOREM AnswersReachTheirDialogue == Spec => []OpenQuestionIsHeard
  <1>1. \A c \in Situations : c.open \subseteq Waiting
    BY RoutingAssumption DEF Situation
  <1>2. Unheard = {}
    BY <1>1, DialogueIsHeard DEF Unheard
  <1>3. OpenQuestionIsHeard
    BY <1>2 DEF OpenQuestionIsHeard
  <1> QED
    BY <1>3, PTL
=============================================================================
