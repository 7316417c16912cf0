---------------------------- MODULE ChatRouting -----------------------------
(* Routing, for the messages that ChatRoute lets pass its pre-checks.      *)
EXTENDS ChatRoute, Routing

CONSTANTS
  Wording,      \* the messages: a bound
  Situations    \* what the conversation is like when they come: a bound

ASSUME RoutingAssumption ==
  /\ \A m \in Wording : IsWording(m)
  /\ Situations \subseteq Situation

(* A situation that task t may find its message in.                        *)
Finds(t, c) ==
  /\ "transfer" \in c.open <=> flow # NoFlow
  /\ "history" \in c.facts <=> ~task[t].new

-----------------------------------------------------------------------------
AsksForPrice(m) == PriceSignal(m) /\ ~DirectCreate(m)

InventsPrice(c) ==
  \E m \in Wording, i \in Intent :
    AsksForPrice(m) /\ Answerers(m, i, c) \cap {"model", "model_first"} # {}

PriceInvented == {c \in Situations : InventsPrice(c)}

(* A message that asks for a price or for free rooms is never answered by  *)
(* the language model, whatever the classifier takes it for, whichever     *)
(* dialogue is open and whichever pipeline is switched on                  *)
(* (chat_routes.py:2089: never let the LLM produce a price).               *)
PriceIsNotInvented ==
  \A t \in Task : Ready(t) => \A c \in PriceInvented : ~Finds(t, c)

-----------------------------------------------------------------------------
(* Messages that only answer a question.                                   *)
BareAnswer(m) ==
  /\ m # {}
  /\ m \subseteq {"early date", "late date", "time", "guests", "adults", "name", "yes", "phone"}

(* The dialogues that wait.  Dates out of season are refused before.       *)
Listeners(c) ==
  c.open \cup When("restaurant" \in c.open, "table") \cup When("out" \in c.facts, "season")

(* What draws an answer to another dialogue: its intent, which the         *)
(* classifier or an earlier question suggests, a question of a dialogue    *)
(* that has ended, a phone number, and in the old pipeline a booking.      *)
IsDrawnAway(m, j, c) ==
  \/ j = "TRANSFER_BOOKING_REQUEST" /\ "transfer" \notin c.open
  \/ j = "RESTAURANT_BOOKING_CREATE" /\ "restaurant" \notin c.open
  \/ c.facts \cap {"transfer asked", "table asked", "cancellation asked", "cancelling",
                   "change offered"} # {}
  \/ c.open = {"price"} /\ (m = {"phone"} \/ ("modern" \notin c.facts /\ Books(m, j, c)))

(* The first that is asked is a dialogue that waits.                       *)
IsHeard(m, i, c) ==
  LET j     == PrimaryIntent(m, i, c)
      asked == Replies(m, i, c) \cup MayReply(m, i, c)
  IN  \E d \in Listeners(c) \cap asked : \A h \in asked \ Listeners(c) : ~Before(h, d, j, c)

Unheard ==
  {c \in Situations :
     /\ c.open # {} /\ "history" \in c.facts
     /\ \E m \in Wording, i \in Intent :
          BareAnswer(m) /\ ~IsDrawnAway(m, PrimaryIntent(m, i, c), c) /\ ~IsHeard(m, i, c)}

(* The bare answer to the question of a dialogue reaches a dialogue that   *)
(* waits before any handler that answers for itself: neither the model nor *)
(* the staff, the menu or the questions for missing details take it        *)
(* (chat_routes.py:1470-1476, 1782, slot_contract_service.py:135).         *)
OpenQuestionIsHeard ==
  \A t \in Task : Ready(t) => \A c \in Unheard : ~Finds(t, c)
=============================================================================
