---------------------------- MODULE MCPriceFlow -----------------------------
(* An instance of PriceFlow for TLC: messages that mention one or two      *)
(* details.  Day 3 alone is what an answer to the question for the last    *)
(* day may be read as; day 2 is before the season.                         *)
EXTENDS PriceFlow, TLC

CONSTANTS deluxe, land, street, cottage, exclusiveLand, jacuzzi

Nothing ==
  [from |-> NoDay, to |-> NoDay, nights |-> 0, adults |-> FALSE,
   child |-> FALSE, count |-> "unsaid", ages |-> FALSE, numbers |-> FALSE,
   no |-> FALSE, many |-> FALSE, groups |-> "none", currency |-> "unsaid"]

Says(m) == m @@ Nothing

Messages == {
  Nothing,
  Says([from |-> 3]),
  Says([nights |-> 2]),
  Says([from |-> 2, to |-> 4, numbers |-> TRUE]),
  Says([from |-> 3, to |-> 4, adults |-> TRUE]),
  Says([adults |-> TRUE]),
  Says([adults |-> TRUE, child |-> TRUE]),
  Says([adults |-> TRUE, numbers |-> TRUE]),
  Says([child |-> TRUE, count |-> "some"]),
  Says([child |-> TRUE, count |-> "zero", no |-> TRUE]),
  Says([child |-> TRUE, count |-> "some", ages |-> TRUE]),
  Says([no |-> TRUE]),
  Says([many |-> TRUE]),
  Says([many |-> TRUE, adults |-> TRUE, groups |-> "some"]),
  Says([many |-> TRUE, adults |-> TRUE, groups |-> "all"]),
  Says([currency |-> "quoted"]),
  Says([currency |-> "refused"])}

Backlogs == {
  Nothing,
  Says([from |-> 2, to |-> 4]),
  Says([adults |-> TRUE, child |-> TRUE])}

DatesOnly ==
  [from |-> 2, to |-> 4, adults |-> FALSE, child |-> FALSE,
   count |-> FALSE, ages |-> FALSE, many |-> FALSE, groups |-> "none",
   refused |-> FALSE]

SweptEntries == {DatesOnly, [DatesOnly EXCEPT !.adults = TRUE]}

Features == (deluxe :> {jacuzzi}) @@ [r \in {land, street, cottage} |-> {}]

(* Two rooms share a key.                                                  *)
Keys == (deluxe :> deluxe) @@ [r \in {land, street} |-> exclusiveLand]

Offered(room) ==
  [room |-> room, available |-> TRUE, counts |-> {}, stop |-> FALSE, special |-> FALSE]

OfferLists ==
  {{}, {Offered(deluxe)}, {[Offered(deluxe) EXCEPT !.special = TRUE]},
   {Offered(cottage)}, {[Offered(deluxe) EXCEPT !.counts = {0, 1}]},
   Failed, Unreadable}

ARow(room, date, left, stop) ==
  [room |-> room, date |-> date, left |-> left, stop |-> stop, said |-> TRUE]

(* Two nights of three rooms, free and sold out; of one room also nights   *)
(* that are stopped or have no number, of another a night before.          *)
SomeRows ==
  {ARow(r, d, n, FALSE) : r \in {deluxe, land, street}, d \in 2..3, n \in {0, 1}}
    \cup {ARow(deluxe, 2, 1, TRUE), ARow(deluxe, 3, NoNumber, FALSE), ARow(land, 1, 1, FALSE)}

Free(room, left) ==
  {ARow(room, d, left, FALSE) : d \in 2..3}

RowLists ==
  {{}, Free(deluxe, 1), Free(deluxe, 1) \cup Free(cottage, 1), Free(deluxe, 0),
   Failed, Unreadable}

WishesForRooms ==
  {[required |-> {}, forbidden |-> {}], [required |-> {jacuzzi}, forbidden |-> {}],
   [required |-> {}, forbidden |-> {jacuzzi}]}

Symmetry == Permutations(Slot)
=============================================================================
