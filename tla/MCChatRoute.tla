---------------------------- MODULE MCChatRoute -----------------------------
(* An instance of ChatRouting for TLC: two of the five details.            *)
EXTENDS ChatRouting, TLC

CONSTANTS d, p1, p2

DateAndRoute == <<"date", "route">>

Says(x, y) == [f \in Field |-> IF f = "date" THEN x ELSE y]

\* Both details at once, and a route, which may be the second one.
Mentions == {Says(d, p1), Says(NoValue, p2)}

Bare == {{"early date"}, {"late date"}, {"time"}, {"guests"}, {"adults"}, {"name"}, {"yes"},
         {"phone"}, {"early date", "guests"}, {"late date", "adults"}, {"name", "phone"}}

ForPrice ==
  {{p} : p \in {"price", "prix", "jia"}} \cup
  {{"price", w} : w \in {"late date", "book", "card", "transfer", "pool", "late", "staff", "digit"}}
  \cup {{"prix", "table", "room"}, {"jia", "book", "create"}, {"price", "book", "order", "begin"}}

Messages == Bare \cup ForPrice

\* One thing is out of the ordinary, in either pipeline.
Circumstances ==
  {{}, {"strict"}} \cup
  {{"history"} \cup x \cup y : x \in {{f} : f \in Fact}, y \in {{}, {"modern"}}}

Conversations ==
  {[open |-> o, asked |-> a, facts |-> f] :
     o \in {{}, {"price", "booking"}} \cup {{w} : w \in Waiting},
     a \in {"restaurant", "transfer", "hotel", "unknown"}, f \in Circumstances}

Symmetry == Permutations(Message) \cup Permutations(Task) \cup Permutations(Row)
=============================================================================
