---------------------------- MODULE PriceAnswer -----------------------------
(***************************************************************************)
(* What the program makes of Elektra's answers to a question for prices    *)
(* (services/elektraweb_booking_service): which rooms it offers, when it   *)
(* says that there are none and when it hands the customer over.           *)
(*                                                                         *)
(* A price answer is a set of offers, an availability answer a set of rows *)
(* with one night of one room each.  Amounts, currencies and the text of   *)
(* the reply are left out.                                                 *)
(***************************************************************************)
EXTENDS Integers, FiniteSets, FiniteSetsExt

CONSTANTS
  Room,         \* room-type-ids
  Named,        \* those whose label is in ROOM_TYPE_MAP
  Key,          \* the keys of its labels
  KeyOf,        \* the key of every room with such a label
  LastDay,      \* the last day that is told apart, and all after it: a bound
  Most,         \* the most rooms of a type for sale: a bound
  Listed,       \* the rows an availability answer may have: a bound
  Tag,          \* features a customer may ask for or refuse
  Tags,         \* the features of every room
  NoNumber,     \* a field that is missing, or is no number
  Failed,       \* no connection, HTTP 400 and above, bad JSON
  Unreadable    \* an answer without a list

ASSUME PriceAnswerAssumption ==
  /\ Named \subseteq Room /\ LastDay \in Nat
  /\ KeyOf \in [Named -> Key]
  /\ Most \in Nat /\ NoNumber \notin Int
  /\ Tags \in [Room -> SUBSET Tag]

Day == 1..LastDay

(* The nights of a stay: none if it does not begin before it ends.         *)
Nights(from, to) == from..(to - 1)

Left == (0..Most) \cup {NoNumber}

(* said: the row has a field room-to-sell or stop-sell.                    *)
Row == {r \in [room : Room, date : Day, left : Left, stop : BOOLEAN, said : BOOLEAN] :
          r.said \/ (r.left = NoNumber /\ ~r.stop)}

ASSUME ListedAssumption == Listed \subseteq Row

(* counts: every number of rooms an offer names, of one night or of all.   *)
Offer == [room : Room, available : BOOLEAN, counts : SUBSET Left, stop : BOOLEAN,
          special : BOOLEAN]

Wish == [required : SUBSET Tag, forbidden : SUBSET Tag]

-----------------------------------------------------------------------------
(* Availability                                                            *)

RowsOf(rows, room, nights) == {r \in rows : r.room = room /\ r.date \in nights}

Dates(rows) == {r.date : r \in rows}

\* Mutation: one good night is enough.
EligibleRoomsBad(rows, nights) ==
  {room \in Room :
     \E r \in RowsOf(rows, room, nights) : r.left # NoNumber /\ r.left > 0 /\ ~r.stop}

(* Rooms that can be had on every night.                                   *)
EligibleRooms(rows, nights) ==
  {room \in Room :
     /\ nights # {}
     /\ nights = Dates({r \in RowsOf(rows, room, nights) :
                          r.said => r.left # NoNumber /\ r.left > 0 /\ ~r.stop})}

ForSale(r) == IF r.stop \/ r.left = NoNumber THEN 0 ELSE r.left

RowsOfKey(rows, key, nights) ==
  {r \in rows : r.room \in Named /\ KeyOf[r.room] = key /\ r.date \in nights}

(* How many rooms of a key can be had.  The rooms of a key are one here:   *)
(* of all their rows of a night the largest number counts, of several      *)
(* nights the smallest.                                                    *)
RoomStock(rows, nights) ==
  [key \in {k \in Key : nights # {} /\ Dates(RowsOfKey(rows, k, nights)) = nights} |->
     Min({Max({ForSale(r) : r \in RowsOfKey(rows, key, {night})}) : night \in nights})]

-----------------------------------------------------------------------------
(* Offers                                                                  *)

IsOfferBookable(offer) ==
  /\ offer.available /\ ~offer.stop
  /\ \A n \in offer.counts : n # NoNumber => n > 0

OfferMatches(offer, wish) ==
  wish.required \cup wish.forbidden # {} =>
    /\ offer.room \in Named
    /\ wish.required \subseteq Tags[offer.room]
    /\ wish.forbidden \cap Tags[offer.room] = {}

Suitable(offers, wish) ==
  {o \in offers : IsOfferBookable(o) /\ OfferMatches(o, wish)}

(* The usual rates; special ones if there is nothing else.                 *)
RoomPrices(offers) ==
  LET named == {o \in offers : o.room \in Named}
      usual == {o \in named : ~o.special}
  IN  {o.room : o \in (IF usual # {} THEN usual ELSE named)}

(* The reply to a question for prices.  Without a list in the answer there *)
(* are no offers, as in an empty one.                                      *)
PriceReply(prices, availability, nights, wish) ==
  LET offers == IF prices = Unreadable THEN {} ELSE prices
      rows   == IF availability = Unreadable THEN {} ELSE availability
      fit    == Suitable({o \in offers : o.room \in EligibleRooms(rows, nights)}, wish)
  IN  CASE prices = Failed -> "HANDOFF:API_ERROR"
        [] prices # Failed /\ nights # {} /\ availability = Failed -> "HANDOFF:AVAILABILITY_ERROR"
        [] OTHER -> IF fit = {} THEN "no rooms"
                    ELSE IF RoomPrices(fit) = {} THEN "HANDOFF:FORMAT_ERROR"
                    ELSE "prices"

(* Of an answer with numbers in its rows, however many are missing,        *)
(* repeated, sold out or stopped: a room that is priced has a key that the *)
(* question for rooms left counts one of, and of a room that shares its    *)
(* key with no other the converse holds too.  Of rooms that share a key it *)
(* does not, they may be free on different nights; nor does the first part *)
(* for rows without numbers, which only the prices take for free           *)
(* (_derive_stay_eligible_room_type_ids_from_availability and              *)
(* _extract_room_stock_from_availability_rows).                            *)
ReadingsAgree(nights) ==
  \A rows \in SUBSET {r \in Listed : r.said} :
    LET stock    == RoomStock(rows, nights)
        eligible == EligibleRooms(rows, nights)
        Counted(key) == key \in DOMAIN stock /\ stock[key] > 0
        Alone(room)  == \A x \in Named : KeyOf[x] = KeyOf[room] => x = room
    IN  \A room \in Named :
          /\ room \in eligible => Counted(KeyOf[room])
          /\ Counted(KeyOf[room]) /\ Alone(room) => room \in eligible
=============================================================================
