--------------------------- MODULE FollowUpProofs ---------------------------
(***************************************************************************)
(* What holds of FollowUp for any number of chats and requests, and any    *)
(* times: type correctness, and without the job thread that only late      *)
(* entries are dropped, that a chat is only closed when its customer has   *)
(* been silent for CloseAfter minutes, and, with one cycle at a time, that *)
(* it is reminded once.                                                    *)
(*                                                                         *)
(* None but the first is inductive.  The closing follows from two facts:   *)
(* in the document the event loop works on, no entry is older than its     *)
(* chat's silence, and while a request closes chats it holds the event     *)
(* loop, so no message comes between its list and its last look at it.     *)
(***************************************************************************)
EXTENDS FollowUp, TLAPS

CycleOK ==
  /\ cycle \in [Cycle -> Progress]
  /\ \A c \in Cycle : /\ cycle[c].drop \cap cycle[c].remind = {}
                      /\ cycle[c].phone # NoPhone <=> cycle[c].step \in {"send", "sent"}

HandOK == hand \in [Thread -> Doc \cup {NoDoc}]

RestOK ==
  /\ pending \in Doc
  /\ enabled \in BOOLEAN
  /\ timers \subseteq Phone
  /\ chat \in [Phone -> Chat]
  /\ restarts \in 0..MaxRestarts

-----------------------------------------------------------------------------
(* Helpers                                                                 *)

\* The parts of TypeOK that different actions disturb.
LEMMA TypeParts ==
  /\ TypeOK <=> CycleOK /\ HandOK /\ RestOK
  /\ TypeOK' <=> CycleOK' /\ HandOK' /\ RestOK'
BY DEF TypeOK, CycleOK, HandOK, RestOK

\* What does not change stays typed.
LEMMA Kept ==
  /\ CycleOK /\ UNCHANGED cycle => CycleOK'
  /\ HandOK /\ UNCHANGED hand => HandOK'
BY DEF CycleOK, HandOK

\* Every cycle runs on a thread.
LEMMA CycleThread == ASSUME NEW c \in Cycle PROVE ThreadOf(c) \in Thread
BY DEF Cycle, ThreadOf, Thread

\* Bounds of an age.
LEMMA Ages == CloseAfter \in Nat /\ 0 \in Age /\ CloseAfter \in Age
BY TimeAssumption DEF Age

\* A thread takes a document to save.
LEMMA PutOK ==
  ASSUME HandOK, NEW t \in Thread, NEW doc \in Doc, Put(t, doc)
  PROVE  HandOK'
BY DEF HandOK, Put

\* Removing an entry leaves a document.
LEMMA RemoveOK ==
  ASSUME HandOK, RestOK, NEW t \in Thread, NEW p \in Phone, Remove(t, p)
  PROVE  HandOK'
<1>1. Without(p) \in Doc
  BY DEF RestOK, Doc, Without
<1>2. CASE pending[p] = NoEntry
  BY <1>2 DEF Remove, HandOK
<1>3. CASE pending[p] # NoEntry
  BY <1>1, <1>3, PutOK DEF Remove
<1> QED
  BY <1>2, <1>3

\* One cycle gets a new record.
LEMMA CycleMoves ==
  ASSUME CycleOK, NEW c \in Cycle, NEW r \in Progress,
         r.drop \cap r.remind = {},
         r.phone # NoPhone <=> r.step \in {"send", "sent"},
         cycle' = [cycle EXCEPT ![c] = r]
  PROVE  CycleOK'
BY DEF CycleOK

\* A cycle goes on after an await.
LEMMA RunningOK ==
  ASSUME CycleOK, NEW c \in Cycle, cycle' = Running(c)
  PROVE  CycleOK'
<1> DEFINE r == cycle'[c]
<1>0. cycle[c] \in Progress /\ cycle[c].drop \cap cycle[c].remind = {}
  BY DEF CycleOK
<1>1. r = [step |-> "run", drop |-> cycle[c].drop, remind |-> cycle[c].remind,
           close |-> cycle[c].close, phone |-> NoPhone]
  BY <1>0 DEF Running, CycleOK, Progress
<1>2. cycle' = [cycle EXCEPT ![c] = r]
  BY <1>0 DEF Running, CycleOK
<1> HIDE DEF r
<1>3. r \in Progress
  BY <1>0, <1>1 DEF Progress
<1> QED
  BY <1>0, <1>1, <1>2, <1>3, CycleMoves

\* One chat gets a new record.
LEMMA ChatMoves ==
  ASSUME chat \in [Phone -> Chat], NEW p \in Phone, NEW r \in Chat,
         chat' = [chat EXCEPT ![p] = r]
  PROVE  chat' \in [Phone -> Chat]
OBVIOUS

\* Growing older keeps documents and their order of ages.
LEMMA OlderOK ==
  ASSUME NEW n \in Age
  PROVE  Older(n) \in Age /\ n <= Older(n) /\ \A m \in Age : n <= m => Older(n) <= Older(m)
BY TimeAssumption DEF Age, Older

\* A minute leaves a document a document.
LEMMA AgedOK == ASSUME NEW doc \in Doc PROVE Aged(doc) \in Doc
<1>1. ASSUME NEW p \in Phone PROVE Aged(doc)[p] \in Entry \cup {NoEntry}
  <2>1. CASE doc[p] = NoEntry
    BY <2>1 DEF Aged
  <2>2. CASE doc[p] # NoEntry
    <3>1. doc[p] \in Entry
      BY <2>2 DEF Doc
    <3>2. Older(doc[p].age) \in Age
      BY <3>1, OlderOK DEF Entry
    <3> QED
      BY <2>2, <3>1, <3>2 DEF Aged, Entry
  <2> QED
    BY <2>1, <2>2
<1> QED
  BY <1>1 DEF Aged, Doc

-----------------------------------------------------------------------------
(* Type correctness                                                        *)

\* The initial states are typed.
LEMMA InitType == Init => TypeOK
<1> SUFFICES ASSUME Init PROVE TypeOK
  OBVIOUS
<1>1. CycleOK
  BY DEF Init, CycleOK, Idle, Progress
<1>2. HandOK
  BY DEF Init, HandOK
<1>3. RestOK
  BY Ages, TimeAssumption DEF Init, RestOK, Doc, Chat
<1> QED
  BY <1>1, <1>2, <1>3, TypeParts

\* Messages, replies, purges, clear-all and saves.
LEMMA LoopType ==
  ASSUME TypeOK, NEW p \in Phone,
         Message(p) \/ Reply(p) \/ Purge(p) \/ CleanUp(p)
  PROVE  TypeOK'
<1>0. CycleOK /\ HandOK /\ RestOK /\ "loop" \in Thread
      /\ chat \in [Phone -> Chat] /\ chat[p] \in Chat
  BY TypeParts DEF RestOK, Thread
<1> DEFINE r == chat'[p]
<1>1. CASE Message(p)
  <2>1. r.state = "asked" /\ r.silence = 0 /\ r.reminders = chat[p].reminders /\ r \in Chat
    BY <1>0, <1>1, Ages DEF Message, Chat
  <2>2. chat' = [chat EXCEPT ![p] = r]
    BY <1>0, <1>1 DEF Message
  <2>3. HandOK'
    BY <1>0, <1>1, RemoveOK DEF Message
  <2>4. chat' \in [Phone -> Chat]
    BY <1>0, <2>1, <2>2, ChatMoves
  <2> QED
    BY <1>0, <1>1, <2>3, <2>4, TypeParts, Kept DEF Message, RestOK
<1>2. CASE Reply(p)
  <2>0. r = [state |-> "answered", silence |-> chat[p].silence, reminders |-> 0]
    BY <1>0, <1>2 DEF Reply, Chat
  <2>1. r \in Chat
    <3>1. chat[p].silence \in Age /\ 0 \in 0..2
      BY <1>0 DEF Chat
    <3> HIDE DEF r
    <3> QED
      BY <2>0, <3>1 DEF Chat
  <2>2. chat' = [chat EXCEPT ![p] = r]
    BY <1>0, <1>2 DEF Reply
  <2>3. [pending EXCEPT ![p] = [age |-> 0, reminded |-> FALSE]] \in Doc
    BY <1>0, Ages DEF RestOK, Doc, Entry
  <2>4. HandOK'
    BY <1>0, <1>2, <2>3, PutOK DEF Reply
  <2>5. chat' \in [Phone -> Chat]
    BY <1>0, <2>1, <2>2, ChatMoves
  <2> QED
    BY <1>0, <1>2, <2>4, <2>5, TypeParts, Kept DEF Reply, RestOK
<1>3. CASE Purge(p)
  <2>1. Forgotten(chat[p]) \in Chat
    BY <1>0 DEF Forgotten, Chat
  <2>2. HandOK'
    BY <1>0, <1>3, RemoveOK DEF Purge
  <2>3. chat' \in [Phone -> Chat]
    BY <1>0, <1>3, <2>1, ChatMoves DEF Purge
  <2> QED
    BY <1>0, <1>3, <2>2, <2>3, TypeParts, Kept DEF Purge, RestOK
<1>4. CASE CleanUp(p)
  <2>1. Forgotten(chat[p]) \in Chat
    BY <1>0 DEF Forgotten, Chat
  <2>2. chat' \in [Phone -> Chat]
    BY <1>0, <1>4, <2>1, ChatMoves DEF CleanUp
  <2> QED
    BY <1>0, <1>4, <2>2, TypeParts, Kept DEF CleanUp, RestOK
<1> QED
  BY <1>1, <1>2, <1>3, <1>4

\* What concerns all chats or none.
LEMMA OutsideType ==
  ASSUME TypeOK, ClearAll \/ Switch \/ Tick \/ Restart \/ \E t \in Thread : Save(t)
  PROVE  TypeOK'
<1>0. CycleOK /\ HandOK /\ RestOK /\ "loop" \in Thread /\ chat \in [Phone -> Chat]
  BY TypeParts DEF RestOK, Thread
<1>1. CASE ClearAll
  <2>1. [p \in Phone |-> NoEntry] \in Doc
    BY DEF Doc
  <2>2. HandOK'
    BY <1>0, <1>1, <2>1, PutOK DEF ClearAll
  <2>3. \A p \in Phone : Forgotten(chat[p]) \in Chat
    BY <1>0 DEF Forgotten, Chat
  <2> QED
    BY <1>0, <1>1, <2>2, <2>3, TypeParts, Kept DEF ClearAll, RestOK
<1>2. CASE Switch
  BY <1>0, <1>2, TypeParts, Kept DEF Switch, RestOK
<1>3. CASE Tick
  <2>1. pending' \in Doc
    BY <1>0, <1>3, AgedOK DEF Tick, RestOK
  <2>2. HandOK'
    BY <1>0, <1>3, AgedOK DEF Tick, HandOK
  <2>3. ASSUME NEW p \in Phone PROVE [chat[p] EXCEPT !.silence = Older(@)] \in Chat
    <3>1. chat[p] \in Chat /\ Older(chat[p].silence) \in Age
      BY <1>0, OlderOK DEF Chat
    <3> QED
      BY <3>1 DEF Chat
  <2>4. chat' \in [Phone -> Chat]
    BY <1>3, <2>3 DEF Tick
  <2> QED
    BY <1>0, <1>3, <2>1, <2>2, <2>4, TypeParts, Kept DEF Tick, RestOK
<1>4. CASE Restart
  <2>1. CycleOK'
    BY <1>4 DEF Restart, CycleOK, Idle, Progress
  <2>2. HandOK'
    BY <1>4 DEF Restart, HandOK
  <2>3. \A p \in Phone :
          [chat[p] EXCEPT !.state = IF @ = "asked" THEN "none" ELSE @] \in Chat
    BY <1>0 DEF Chat
  <2>4. restarts' \in 0..MaxRestarts
    BY <1>0, <1>4, TimeAssumption DEF Restart, RestOK
  <2> QED
    BY <1>0, <1>4, <2>1, <2>2, <2>3, <2>4, TypeParts DEF Restart, RestOK
<1>5. ASSUME NEW t \in Thread, Save(t) PROVE TypeOK'
  <2>1. HandOK' /\ pending' \in Doc
    BY <1>0, <1>5 DEF Save, HandOK
  <2> QED
    BY <1>0, <1>5, <2>1, TypeParts, Kept DEF Save, RestOK
<1> QED
  BY <1>1, <1>2, <1>3, <1>4, <1>5

\* The lists of a cycle are made of phones, and no entry is on both of the
\* first two.
LEMMA Lists ==
  ASSUME TypeOK
  PROVE  /\ {p \in Entries : Late(pending[p])} \subseteq Phone
         /\ {p \in Entries : Remindable(pending[p])} \subseteq Phone
         /\ {p \in Entries : Expired(pending[p])} \subseteq Phone
         /\ {p \in Entries : Late(pending[p])} \cap
              {p \in Entries : Remindable(pending[p])} = {}
<1>1. ASSUME NEW p \in Entries PROVE ~(Late(pending[p]) /\ Remindable(pending[p]))
  <2>1. pending[p].age \in Age
    BY <1>1 DEF Entries, TypeOK, Doc, Entry
  <2>2. pending[p].age \in Nat /\ RemindAfter + Grace \in Nat /\ RemindAfter \in Nat
    BY <2>1, TimeAssumption DEF Age
  <2> QED
    BY <2>2 DEF Late, Remindable
<1> QED
  BY <1>1 DEF Entries

\* The steps of a cycle that change nothing but the cycle.
LEMMA CycleOnlyType ==
  ASSUME TypeOK, NEW c \in Cycle,
         Begin(c) \/ StartSend(c) \/ SendFails(c) \/ FindExpired(c)
  PROVE  TypeOK'
<1>0. CycleOK /\ HandOK /\ RestOK /\ cycle[c] \in Progress
      /\ cycle[c].drop \cap cycle[c].remind = {}
      /\ (cycle[c].phone # NoPhone <=> cycle[c].step \in {"send", "sent"})
  BY TypeParts DEF CycleOK
<1> DEFINE r == cycle'[c]
<1>1. CASE Begin(c)
  <2> DEFINE late == {p \in Entries : Late(pending[p])}
             due  == {p \in Entries : Remindable(pending[p])}
  <2>1. r = [step |-> "run", drop |-> late, remind |-> due, close |-> cycle[c].close,
             phone |-> cycle[c].phone]
    BY <1>0, <1>1 DEF Begin, CycleOK, Progress
  <2>2. late \subseteq Phone /\ due \subseteq Phone /\ late \cap due = {}
        /\ cycle[c].phone = NoPhone
    BY <1>0, <1>1, Lists DEF Begin
  <2>3. cycle' = [cycle EXCEPT ![c] = r]
    BY <1>0, <1>1 DEF Begin, CycleOK
  <2> HIDE DEF r, late, due
  <2>4. r \in Progress
    BY <1>0, <2>1, <2>2 DEF Progress
  <2>5. CycleOK'
    BY <1>0, <2>1, <2>2, <2>3, <2>4, CycleMoves
  <2> QED
    BY <1>0, <1>1, <2>5, TypeParts, Kept DEF Begin, RestOK
<1>2. CASE StartSend(c)
  <2>1. PICK p \in cycle[c].remind :
          cycle' = [cycle EXCEPT ![c].step = "send", ![c].remind = @ \ {p}, ![c].phone = p]
    BY <1>2 DEF StartSend
  <2>2. r = [step |-> "send", drop |-> cycle[c].drop, remind |-> cycle[c].remind \ {p},
             close |-> cycle[c].close, phone |-> p]
    BY <1>0, <2>1 DEF CycleOK, Progress
  <2>3. cycle' = [cycle EXCEPT ![c] = r]
    BY <1>0, <2>1 DEF CycleOK
  <2>4. p \in Phone /\ p # NoPhone
    BY <1>0, CycleAssumption DEF Progress
  <2> HIDE DEF r
  <2>5. r \in Progress
    BY <1>0, <2>2, <2>4 DEF Progress
  <2>6. CycleOK'
    BY <1>0, <2>2, <2>3, <2>4, <2>5, CycleMoves
  <2> QED
    BY <1>0, <1>2, <2>6, TypeParts, Kept DEF StartSend, RestOK
<1>3. CASE SendFails(c)
  <2>1. cycle' = Running(c)
    BY <1>3 DEF SendFails
  <2>2. CycleOK'
    BY <1>0, <2>1, RunningOK
  <2> QED
    BY <1>0, <1>3, <2>2, TypeParts, Kept DEF SendFails, RestOK
<1>4. CASE FindExpired(c)
  <2> DEFINE over == {p \in Entries : Expired(pending[p])}
  <2>1. r = [step |-> "close", drop |-> cycle[c].drop, remind |-> cycle[c].remind,
             close |-> over, phone |-> cycle[c].phone]
    BY <1>0, <1>4 DEF FindExpired, CycleOK, Progress
  <2>2. over \subseteq Phone /\ cycle[c].phone = NoPhone
    BY <1>0, <1>4, Lists DEF FindExpired, At
  <2>3. cycle' = [cycle EXCEPT ![c] = r]
    BY <1>0, <1>4 DEF FindExpired, CycleOK
  <2> HIDE DEF r, over
  <2>4. r \in Progress
    BY <1>0, <2>1, <2>2 DEF Progress
  <2>5. CycleOK'
    BY <1>0, <2>1, <2>2, <2>3, <2>4, CycleMoves
  <2> QED
    BY <1>0, <1>4, <2>5, TypeParts, Kept DEF FindExpired, RestOK
<1> QED
  BY <1>1, <1>2, <1>3, <1>4

\* The steps of a cycle that change the file, a chat or the timers.
LEMMA CycleAndMoreType ==
  ASSUME TypeOK, NEW c \in Cycle,
         Drop(c) \/ Deliver(c) \/ MarkSent(c) \/ Close(c) \/ Report(c)
  PROVE  TypeOK'
<1>0. CycleOK /\ HandOK /\ RestOK /\ cycle[c] \in Progress /\ ThreadOf(c) \in Thread
      /\ cycle[c].drop \cap cycle[c].remind = {}
      /\ (cycle[c].phone # NoPhone <=> cycle[c].step \in {"send", "sent"})
      /\ pending \in Doc
  BY TypeParts, CycleThread DEF CycleOK, RestOK
<1> DEFINE r == cycle'[c]
<1>1. CASE Drop(c)
  <2>1. PICK p \in cycle[c].drop : /\ Remove(ThreadOf(c), p)
                                   /\ cycle' = [cycle EXCEPT ![c].drop = @ \ {p}]
    BY <1>1 DEF Drop
  <2>2. r = [step |-> cycle[c].step, drop |-> cycle[c].drop \ {p},
             remind |-> cycle[c].remind, close |-> cycle[c].close,
             phone |-> cycle[c].phone]
    BY <1>0, <2>1 DEF CycleOK, Progress
  <2>3. cycle' = [cycle EXCEPT ![c] = r]
    BY <1>0, <2>1 DEF CycleOK
  <2>4. p \in Phone
    BY <1>0 DEF Progress
  <2> HIDE DEF r
  <2>5. r \in Progress
    BY <1>0, <2>2 DEF Progress
  <2>6. CycleOK'
    BY <1>0, <2>2, <2>3, <2>5, CycleMoves
  <2>7. HandOK'
    BY <1>0, <2>1, <2>4, RemoveOK
  <2> QED
    BY <1>0, <1>1, <2>6, <2>7, TypeParts DEF Drop, RestOK
<1>2. CASE Deliver(c)
  <2> DEFINE p == cycle[c].phone
             q == chat'[p]
  <2>0. p \in Phone /\ chat \in [Phone -> Chat] /\ chat[p] \in Chat
    BY <1>0, <1>2 DEF Deliver, Progress, RestOK
  <2>1. r = [step |-> "sent", drop |-> cycle[c].drop, remind |-> cycle[c].remind,
             close |-> cycle[c].close, phone |-> cycle[c].phone]
    BY <1>0, <1>2 DEF Deliver, CycleOK, Progress
  <2>2. cycle' = [cycle EXCEPT ![c] = r]
    BY <1>0, <1>2 DEF Deliver, CycleOK
  <2>3. /\ q.state = chat[p].state /\ q.silence = chat[p].silence
        /\ q.reminders = IF chat[p].reminders = 2 THEN 2 ELSE chat[p].reminders + 1
        /\ q \in Chat
    BY <1>2, <2>0 DEF Deliver, Chat
  <2>4. chat' = [chat EXCEPT ![p] = q]
    BY <1>2, <2>0 DEF Deliver
  <2> HIDE DEF r, p, q
  <2>5. r \in Progress
    BY <1>0, <2>1 DEF Progress
  <2>6. CycleOK'
    BY <1>0, <1>2, <2>1, <2>2, <2>5, CycleMoves DEF Deliver
  <2>7. chat' \in [Phone -> Chat]
    BY <2>0, <2>3, <2>4, ChatMoves
  <2> QED
    BY <1>0, <1>2, <2>6, <2>7, TypeParts, Kept DEF Deliver, RestOK
<1>3. CASE MarkSent(c)
  <2> DEFINE p   == cycle[c].phone
             doc == [pending EXCEPT ![p].reminded = TRUE]
  <2>1. p \in Phone
    BY <1>0, <1>3 DEF MarkSent, Progress
  <2>2. CycleOK'
    BY <1>0, <1>3, RunningOK DEF MarkSent
  <2>3. CASE pending[p] = NoEntry
    <3>1. HandOK'
      BY <1>0, <1>3, <2>3, Kept DEF MarkSent
    <3> QED
      BY <1>0, <1>3, <2>2, <3>1, TypeParts DEF MarkSent, RestOK
  <2>4. CASE pending[p] # NoEntry
    <3>1. pending[p] \in Entry
      BY <1>0, <2>1, <2>4 DEF Doc
    <3>2. doc \in Doc
      BY <1>0, <2>1, <3>1 DEF Doc, Entry
    <3>3. Put(ThreadOf(c), doc)
      BY <1>3, <2>4 DEF MarkSent
    <3> HIDE DEF doc
    <3>4. HandOK'
      BY <1>0, <3>2, <3>3, PutOK
    <3> QED
      BY <1>0, <1>3, <2>2, <3>4, TypeParts DEF MarkSent, RestOK
  <2> QED
    BY <2>3, <2>4
<1>4. CASE Close(c)
  <2>1. PICK p \in cycle[c].close : /\ timers' = timers \cup {p}
                                    /\ Remove(ThreadOf(c), p)
                                    /\ cycle' = [cycle EXCEPT ![c].close = @ \ {p}]
    BY <1>4 DEF Close
  <2>2. r = [step |-> cycle[c].step, drop |-> cycle[c].drop,
             remind |-> cycle[c].remind, close |-> cycle[c].close \ {p},
             phone |-> cycle[c].phone]
    BY <1>0, <2>1 DEF CycleOK, Progress
  <2>3. cycle' = [cycle EXCEPT ![c] = r]
    BY <1>0, <2>1 DEF CycleOK
  <2>4. p \in Phone
    BY <1>0 DEF Progress
  <2> HIDE DEF r
  <2>5. r \in Progress
    BY <1>0, <2>2 DEF Progress
  <2>6. CycleOK'
    BY <1>0, <2>2, <2>3, <2>5, CycleMoves
  <2>7. HandOK'
    BY <1>0, <2>1, <2>4, RemoveOK
  <2> QED
    BY <1>0, <1>4, <2>1, <2>4, <2>6, <2>7, TypeParts DEF Close, RestOK
<1>5. CASE Report(c)
  <2>1. CycleOK'
    BY <1>0, <1>5 DEF Report, CycleOK, Idle, Progress
  <2>2. HandOK'
    BY <1>0, <1>5, PutOK DEF Report
  <2> QED
    BY <1>0, <1>5, <2>1, <2>2, TypeParts DEF Report, RestOK
<1> QED
  BY <1>1, <1>2, <1>3, <1>4, <1>5

\* Every step keeps the types.
LEMMA NextType == TypeOK /\ [Next]_vars => TypeOK'
<1> SUFFICES ASSUME TypeOK, [Next]_vars PROVE TypeOK'
  OBVIOUS
<1>1. ASSUME NEW c \in Cycle, Work(c) PROVE TypeOK'
  BY <1>1, CycleOnlyType, CycleAndMoreType DEF Work
<1>2. CASE UNCHANGED vars
  BY <1>2, TypeParts, Kept DEF vars, RestOK
<1> QED
  BY <1>1, <1>2, LoopType, OutsideType DEF Next

\* Type correctness, for any number of chats, requests and minutes, with the
\* job thread or without.
THEOREM FollowUpTypeCorrect == Spec => []TypeOK
BY InitType, NextType, PTL DEF Spec

-----------------------------------------------------------------------------
(* Closing, without the job thread                                         *)

\* The document the event loop works on.
Current == IF hand["loop"] = NoDoc THEN pending ELSE hand["loop"]

\* No entry is older than the silence of its chat.
Young ==
  \A p \in Phone : Current[p] # NoEntry => Current[p].age <= chat[p].silence

\* A request that closes chats holds the event loop, and they are silent.
Overdue ==
  \A c \in Cycle : cycle[c].step = "close" =>
    \A p \in cycle[c].close : chat[p].silence >= CloseAfter

OneThread == Job = {} /\ MaxRestarts = 0

CInv == TypeOK /\ Young /\ Overdue

\* Without the job there is one thread.
LEMMA OnlyLoop ==
  ASSUME OneThread
  PROVE  Thread = {"loop"} /\ \A c \in Cycle : ThreadOf(c) = "loop"
BY DEF OneThread, Thread, Cycle, ThreadOf

\* The initial states satisfy the invariant.
LEMMA InitClosing == Init => CInv
<1> SUFFICES ASSUME Init PROVE CInv
  OBVIOUS
<1>1. Young
  BY DEF Init, Young, Current, Thread
<1>2. Overdue
  BY DEF Init, Overdue, Idle
<1> QED
  BY <1>1, <1>2, InitType DEF CInv

\* A step of the loop that waits for no save leaves the document alone, takes
\* an entry out of it, or replaces it.
LEMMA CurrentRemove ==
  ASSUME TypeOK, NEW p \in Phone, hand["loop"] = NoDoc, Remove("loop", p),
         UNCHANGED pending
  PROVE  /\ Current = pending
         /\ Current'[p] = NoEntry
         /\ \A q \in Phone : q # p => Current'[q] = pending[q]
<1>1. pending \in [Phone -> Entry \cup {NoEntry}] /\ "loop" \in Thread
      /\ hand \in [Thread -> Doc \cup {NoDoc}]
  BY DEF TypeOK, Doc, Thread
<1>2. CASE pending[p] = NoEntry
  BY <1>1, <1>2 DEF Remove, Current
<1>3. CASE pending[p] # NoEntry
  <2>1. hand'["loop"] = Without(p)
    BY <1>1, <1>3 DEF Remove, Put
  <2>2. Without(p) \in Doc
    BY <1>1 DEF Without, Doc
  <2>3. Current' = Without(p)
    BY <2>1, <2>2, DocAssumption DEF Current
  <2> QED
    BY <1>1, <2>3 DEF Without, Current
<1> QED
  BY <1>2, <1>3

\* Entries that go, or keep their age, keep the first part of the invariant.
Shrinks ==
  \A q \in Phone :
    \/ Current'[q] = NoEntry
    \/ Current[q] # NoEntry /\ Current'[q].age = Current[q].age

SameSilence == \A q \in Phone : chat'[q].silence = chat[q].silence

\* They keep it when no chat's silence changes.
LEMMA YoungKept ==
  ASSUME Young, Shrinks, SameSilence
  PROVE  Young'
BY DEF Young, Shrinks, SameSilence

\* So do cycles that do not start closing, for the second part.
LEMMA OverdueKept ==
  ASSUME TypeOK, Overdue, SameSilence,
         \A c \in Cycle : cycle'[c].step = "close" =>
            cycle[c].step = "close" /\ cycle'[c].close \subseteq cycle[c].close
  PROVE  Overdue'
<1> SUFFICES ASSUME NEW c \in Cycle, cycle'[c].step = "close", NEW p \in cycle'[c].close
             PROVE  chat'[p].silence >= CloseAfter
  BY DEF Overdue
<1>1. chat[p].silence >= CloseAfter
  BY DEF Overdue
<1>2. p \in Phone
  BY DEF TypeOK, Progress
<1> QED
  BY <1>1, <1>2 DEF SameSilence

\* Messages and what the admin does.
LEMMA LoopClosing ==
  ASSUME CInv, OneThread, NEW p \in Phone,
         Message(p) \/ Reply(p) \/ Purge(p) \/ CleanUp(p)
  PROVE  Young' /\ Overdue'
<1>0. /\ TypeOK /\ Young /\ Overdue
      /\ chat \in [Phone -> Chat] /\ chat[p] \in Chat /\ "loop" \in Thread
      /\ hand \in [Thread -> Doc \cup {NoDoc}]
      /\ pending \in [Phone -> Entry \cup {NoEntry}]
  BY DEF CInv, TypeOK, Doc, Thread
<1>1. CASE Message(p)
  <2>1. hand["loop"] = NoDoc /\ \A c \in Cycle : cycle'[c].step # "close"
    BY <1>1, OnlyLoop DEF Message, Free
  <2>2. /\ Current = pending /\ Current'[p] = NoEntry
        /\ \A q \in Phone : q # p => Current'[q] = pending[q]
    BY <1>0, <1>1, <2>1, CurrentRemove DEF Message
  <2>3. \A q \in Phone : q # p => chat'[q] = chat[q]
    BY <1>0, <1>1 DEF Message
  <2>4. Young'
    BY <1>0, <2>2, <2>3 DEF Young
  <2> QED
    BY <2>1, <2>4 DEF Overdue
<1>2. CASE Reply(p)
  <2> DEFINE doc == [pending EXCEPT ![p] = [age |-> 0, reminded |-> FALSE]]
  <2>1. hand["loop"] = NoDoc /\ \A c \in Cycle : cycle'[c].step # "close"
    BY <1>2, OnlyLoop DEF Reply, Free
  <2>2. doc \in Doc
    BY <1>0, Ages DEF Doc, Entry
  <2>3. Current = pending /\ Current' = doc
    BY <1>0, <1>2, <2>1, <2>2, DocAssumption DEF Reply, Put, Current
  <2>4. SameSilence
    BY <1>0, <1>2 DEF Reply, SameSilence, Chat
  <2>5. chat[p].silence \in Nat
    BY <1>0 DEF Chat, Age
  <2>6. ASSUME NEW q \in Phone, Current'[q] # NoEntry
        PROVE  Current'[q].age <= chat'[q].silence
    <3>1. CASE q = p
      BY <1>0, <2>3, <2>4, <2>5, <3>1 DEF SameSilence
    <3>2. CASE q # p
      BY <1>0, <2>3, <2>4, <2>6, <3>2 DEF SameSilence, Young
    <3> QED
      BY <3>1, <3>2
  <2> QED
    BY <2>1, <2>6 DEF Young, Overdue
<1>3. CASE Purge(p)
  <2>1. hand["loop"] = NoDoc /\ \A c \in Cycle : cycle'[c].step # "close"
    BY <1>3, OnlyLoop DEF Purge, Free
  <2>2. /\ Current = pending /\ Current'[p] = NoEntry
        /\ \A q \in Phone : q # p => Current'[q] = pending[q]
    BY <1>0, <1>3, <2>1, CurrentRemove DEF Purge
  <2>3. SameSilence
    BY <1>0, <1>3 DEF Purge, SameSilence, Forgotten, Chat
  <2>4. Young'
    BY <1>0, <2>2, <2>3, YoungKept DEF Shrinks
  <2> QED
    BY <2>1, <2>4 DEF Overdue
<1>4. CASE CleanUp(p)
  <2>1. SameSilence
    BY <1>0, <1>4 DEF CleanUp, SameSilence, Forgotten, Chat
  <2>2. Current' = Current /\ cycle' = cycle
    BY <1>4 DEF CleanUp, Current
  <2>3. Shrinks
    BY <2>2 DEF Shrinks
  <2> QED
    BY <1>0, <2>1, <2>2, <2>3, YoungKept, OverdueKept
<1> QED
  BY <1>1, <1>2, <1>3, <1>4

\* What concerns all chats or none.
LEMMA OutsideClosing ==
  ASSUME CInv, OneThread,
         ClearAll \/ Switch \/ Tick \/ Restart \/ \E t \in Thread : Save(t)
  PROVE  Young' /\ Overdue'
<1>0. /\ TypeOK /\ Young /\ Overdue
      /\ chat \in [Phone -> Chat] /\ "loop" \in Thread
      /\ hand \in [Thread -> Doc \cup {NoDoc}]
      /\ pending \in Doc
  BY DEF CInv, TypeOK, Thread
<1>1. CASE ClearAll
  <2>1. \A c \in Cycle : cycle'[c].step # "close"
    BY <1>1, OnlyLoop DEF ClearAll, Free
  <2>2. [q \in Phone |-> NoEntry] \in Doc
    BY DEF Doc
  <2>3. Current' = [q \in Phone |-> NoEntry]
    BY <1>0, <1>1, <2>2, DocAssumption DEF ClearAll, Put, Current
  <2> QED
    BY <2>1, <2>3 DEF Young, Overdue
<1>2. CASE Switch
  <2>1. SameSilence /\ Shrinks /\ cycle' = cycle
    BY <1>2 DEF Switch, SameSilence, Shrinks, Current
  <2> QED
    BY <1>0, <2>1, YoungKept, OverdueKept
<1>3. CASE Tick
  <2>1. Current \in Doc
    BY <1>0 DEF Current
  <2>2. Current' = Aged(Current)
    <3>1. CASE hand["loop"] = NoDoc
      BY <1>0, <1>3, <3>1 DEF Tick, Current
    <3>2. CASE hand["loop"] # NoDoc
      <4>1. hand["loop"] \in Doc
        BY <1>0, <3>2
      <4>2. Aged(hand["loop"]) # NoDoc
        BY <4>1, AgedOK, DocAssumption
      <4> QED
        BY <1>0, <1>3, <3>2, <4>2 DEF Tick, Current
    <3> QED
      BY <3>1, <3>2
  <2>3. ASSUME NEW q \in Phone
        PROVE  chat'[q].silence = Older(chat[q].silence) /\ chat[q].silence \in Age
    BY <1>0, <1>3 DEF Tick, Chat
  <2>4. ASSUME NEW q \in Phone, Current'[q] # NoEntry
        PROVE  Current'[q].age <= chat'[q].silence
    <3>1. Current[q] # NoEntry /\ Current'[q].age = Older(Current[q].age)
      BY <2>2, <2>4 DEF Aged
    <3>2. Current[q].age \in Age /\ Current[q].age <= chat[q].silence
      BY <1>0, <2>1, <3>1 DEF Doc, Entry, Young
    <3> QED
      BY <2>3, <3>1, <3>2, OlderOK
  <2>5. ASSUME NEW c \in Cycle, cycle'[c].step = "close", NEW q \in cycle'[c].close
        PROVE  chat'[q].silence >= CloseAfter
    <3>1. cycle'[c] = cycle[c]
      BY <1>3 DEF Tick
    <3>2. q \in Phone /\ chat[q].silence >= CloseAfter
      BY <1>0, <2>5, <3>1 DEF TypeOK, Progress, Overdue
    <3>3. chat[q].silence <= Older(chat[q].silence) /\ Older(chat[q].silence) \in Age
          /\ chat[q].silence \in Age
      BY <2>3, <3>2, OlderOK
    <3> QED
      BY <2>3, <3>2, <3>3, TimeAssumption DEF Age
  <2> QED
    BY <2>4, <2>5 DEF Young, Overdue
<1>4. CASE Restart
  BY <1>0, <1>4 DEF Restart, OneThread, TypeOK
<1>5. ASSUME NEW t \in Thread, Save(t) PROVE Young' /\ Overdue'
  <2>1. t = "loop"
    BY <1>5, OnlyLoop
  <2>2. Current' = Current /\ cycle' = cycle /\ chat' = chat
    BY <1>0, <1>5, <2>1 DEF Save, Current
  <2>3. SameSilence /\ Shrinks
    BY <2>2 DEF SameSilence, Shrinks
  <2> QED
    BY <1>0, <2>2, <2>3, YoungKept, OverdueKept
<1> QED
  BY <1>1, <1>2, <1>3, <1>4, <1>5

\* The steps of a request.
LEMMA CycleClosing ==
  ASSUME CInv, OneThread, NEW c \in Cycle, Work(c)
  PROVE  Young' /\ Overdue'
<1>0. /\ TypeOK /\ Young /\ Overdue /\ ThreadOf(c) = "loop"
      /\ cycle \in [Cycle -> Progress] /\ cycle[c] \in Progress
      /\ chat \in [Phone -> Chat] /\ "loop" \in Thread
      /\ hand \in [Thread -> Doc \cup {NoDoc}]
      /\ pending \in Doc
  BY OnlyLoop DEF CInv, TypeOK, Thread
<1>1. ASSUME Begin(c) \/ StartSend(c) \/ SendFails(c) PROVE Young' /\ Overdue'
  <2>1. SameSilence /\ Shrinks
    BY <1>1 DEF Begin, StartSend, SendFails, SameSilence, Shrinks, Current
  <2>2. \A d \in Cycle : cycle'[d].step = "close" => cycle'[d] = cycle[d]
    <3>1. CASE Begin(c)
      BY <1>0, <3>1 DEF Begin, Progress
    <3>2. CASE StartSend(c)
      BY <1>0, <3>2 DEF StartSend, Progress
    <3>3. CASE SendFails(c)
      BY <1>0, <3>3 DEF SendFails, Running, Progress
    <3> QED
      BY <1>1, <3>1, <3>2, <3>3
  <2> QED
    BY <1>0, <2>1, <2>2, YoungKept, OverdueKept
<1>2. CASE FindExpired(c)
  <2>1. SameSilence /\ Shrinks /\ Current = pending /\ chat' = chat
    BY <1>0, <1>2 DEF FindExpired, At, SameSilence, Shrinks, Current
  <2>2. /\ cycle'[c].close = {p \in Entries : Expired(pending[p])}
        /\ \A d \in Cycle : d # c => cycle'[d] = cycle[d]
    BY <1>0, <1>2 DEF FindExpired, Progress
  <2>3. ASSUME NEW p \in Phone, pending[p] # NoEntry, Expired(pending[p])
        PROVE  chat'[p].silence >= CloseAfter
    <3>1. pending[p].age <= chat[p].silence /\ pending[p].age >= CloseAfter
      BY <1>0, <2>1, <2>3 DEF Young, Expired
    <3>2. pending[p].age \in Nat /\ chat[p].silence \in Nat
      BY <1>0, <2>3 DEF Doc, Entry, Chat, Age
    <3> QED
      BY <2>1, <3>1, <3>2, TimeAssumption
  <2>4. Overdue'
    BY <1>0, <2>1, <2>2, <2>3 DEF Overdue, Entries
  <2> QED
    BY <1>0, <2>1, <2>4, YoungKept
<1>3. ASSUME Drop(c) \/ Close(c) PROVE Young' /\ Overdue'
  <2>1. PICK p \in Phone : Remove("loop", p)
    BY <1>0, <1>3 DEF Drop, Close, Progress
  <2>2. hand["loop"] = NoDoc /\ UNCHANGED pending /\ chat' = chat
    BY <1>0, <1>3 DEF Drop, Close, At
  <2>3. SameSilence /\ Shrinks
    BY <1>0, <2>1, <2>2, CurrentRemove DEF SameSilence, Shrinks
  <2>4. \A d \in Cycle : cycle'[d].step = "close" =>
          cycle[d].step = "close" /\ cycle'[d].close \subseteq cycle[d].close
    BY <1>0, <1>3 DEF Drop, Close, At, Progress
  <2> QED
    BY <1>0, <2>3, <2>4, YoungKept, OverdueKept
<1>4. CASE Deliver(c)
  <2>1. SameSilence
    BY <1>0, <1>4 DEF Deliver, SameSilence, Chat
  <2>2. Shrinks
    BY <1>4 DEF Deliver, Shrinks, Current
  <2>3. \A d \in Cycle : cycle'[d].step = "close" => cycle'[d] = cycle[d]
    BY <1>0, <1>4 DEF Deliver
  <2> QED
    BY <1>0, <2>1, <2>2, <2>3, YoungKept, OverdueKept
<1>5. CASE MarkSent(c)
  <2> DEFINE p   == cycle[c].phone
             doc == [pending EXCEPT ![p].reminded = TRUE]
  <2>1. SameSilence /\ hand["loop"] = NoDoc /\ Current = pending
    BY <1>0, <1>5 DEF MarkSent, Free, SameSilence, Current
  <2>2. Shrinks
    <3>1. CASE pending[p] = NoEntry
      BY <1>0, <1>5, <3>1 DEF MarkSent, Shrinks, Current
    <3>2. CASE pending[p] # NoEntry
      <4>1. p \in Phone
        BY <1>0, <1>5 DEF MarkSent, Progress, TypeOK
      <4>2. pending[p] \in Entry
        BY <1>0, <3>2, <4>1 DEF Doc
      <4>3. /\ doc \in Doc
            /\ \A q \in Phone : pending[q] # NoEntry => doc[q].age = pending[q].age
        BY <1>0, <4>1, <4>2 DEF Doc, Entry
      <4>4. \A q \in Phone : pending[q] = NoEntry => doc[q] = NoEntry
        BY <1>0, <3>2, <4>1 DEF Doc
      <4>5. Put("loop", doc)
        BY <1>0, <1>5, <3>2 DEF MarkSent
      <4> HIDE DEF doc
      <4>6. Current' = doc
        BY <1>0, <4>3, <4>5, DocAssumption DEF Put, Current
      <4> QED
        BY <2>1, <4>3, <4>4, <4>6 DEF Shrinks
    <3> QED
      BY <3>1, <3>2
  <2>3. \A d \in Cycle : cycle'[d].step = "close" => cycle'[d] = cycle[d]
    BY <1>0, <1>5 DEF MarkSent, Running
  <2> QED
    BY <1>0, <2>1, <2>2, <2>3, YoungKept, OverdueKept
<1>6. CASE Report(c)
  <2>1. Current = pending /\ Current' = pending
    BY <1>0, <1>6, DocAssumption DEF Report, At, Put, Current
  <2>2. SameSilence /\ Shrinks
    BY <1>6, <2>1 DEF Report, SameSilence, Shrinks
  <2>3. \A d \in Cycle : cycle'[d].step = "close" => cycle'[d] = cycle[d]
    BY <1>0, <1>6 DEF Report, Idle
  <2> QED
    BY <1>0, <2>2, <2>3, YoungKept, OverdueKept
<1> QED
  BY <1>1, <1>2, <1>3, <1>4, <1>5, <1>6 DEF Work

\* The invariant is inductive.
LEMMA NextClosing == OneThread /\ CInv /\ [Next]_vars => CInv'
<1> SUFFICES ASSUME OneThread, CInv, [Next]_vars PROVE CInv'
  OBVIOUS
<1>1. TypeOK'
  BY NextType DEF CInv
<1>2. CASE Next
  BY <1>1, <1>2, LoopClosing, OutsideClosing, CycleClosing DEF Next, CInv
<1>3. CASE UNCHANGED vars
  <2>1. Current' = Current /\ chat' = chat /\ cycle' = cycle
    BY <1>3 DEF vars, Current
  <2> QED
    BY <1>1, <2>1 DEF CInv, Young, Overdue
<1> QED
  BY <1>2, <1>3

\* A step that gives a chat up for cleanup finds it silent.
LEMMA ClosingStep ==
  CInv /\ [Next]_vars => [\A p \in timers' \ timers : chat[p].silence >= CloseAfter]_vars
<1> SUFFICES ASSUME CInv, Next, NEW p \in timers' \ timers
             PROVE  chat[p].silence >= CloseAfter
  BY DEF vars
<1>1. PICK c \in Cycle : Close(c)
  BY DEF Next, Work, Save, Message, Reply, Purge, CleanUp, ClearAll, Switch, Tick,
         Restart, Begin, Drop, StartSend, Deliver, SendFails, MarkSent, FindExpired,
         Report
<1>2. p \in cycle[c].close /\ cycle[c].step = "close"
  BY <1>1 DEF Close, At
<1> QED
  BY <1>2 DEF CInv, Overdue

\* Without the job thread and restarts, a chat is given up for cleanup only
\* when no message of its customer was handled for CloseAfter minutes.
THEOREM ClosesSilentChats ==
  ASSUME OneThread
  PROVE  Spec => ClosesOnlySilent
<1>1. Init => CInv
  BY InitClosing
<1>2. CInv /\ [Next]_vars => CInv'
  BY NextClosing
<1>3. CInv /\ [Next]_vars
        => [\A p \in timers' \ timers : chat[p].silence >= CloseAfter]_vars
  BY ClosingStep
<1> QED
  BY <1>1, <1>2, <1>3, PTL DEF Spec, ClosesOnlySilent
-----------------------------------------------------------------------------
(* One reminder, with one request at a time                                *)

\* Two requests, or a lost answer, would send the same reminder twice.
OneCycle ==
  OneThread /\ "answer lost" \notin Trouble /\ \A c, d \in Cycle : c = d

\* A reminder that was sent is marked, or is about to be.
Settled(p)   == Current[p] = NoEntry \/ Current[p].reminded
SendingTo(p) == \E c \in Cycle : cycle[c].step = "sent" /\ cycle[c].phone = p

ReminderIsKnown ==
  \A p \in Phone :
    \/ chat[p].reminders = 0
    \/ chat[p].reminders = 1 /\ (Settled(p) \/ SendingTo(p))

\* The list of a cycle names chats that were not reminded.
ListIsFresh ==
  \A c \in Cycle :
    /\ \A p \in cycle[c].remind : chat[p].reminders = 0 /\ p # cycle[c].phone
    /\ cycle[c].step = "send" => chat[cycle[c].phone].reminders = 0

RInv == TypeOK /\ ReminderIsKnown /\ ListIsFresh

\* No chat is reminded in this step, and a mark stays until the next reply.
NoReminder ==
  \A p \in Phone :
    \/ chat'[p].reminders = 0
    \/ chat'[p].reminders = chat[p].reminders /\ (Settled(p) => Settled(p)')

\* No cycle takes a chat on or goes on from a message it has sent.
NoNewSend ==
  \A c \in Cycle :
    /\ cycle'[c].remind \subseteq cycle[c].remind
    /\ \/ cycle'[c].step = cycle[c].step /\ cycle'[c].phone = cycle[c].phone
       \/ cycle[c].step # "sent" /\ cycle'[c].step # "send" /\ cycle'[c].phone = NoPhone

\* Such a step keeps the invariant.
LEMMA RemindsKept ==
  ASSUME RInv, NoReminder, NoNewSend
  PROVE  ReminderIsKnown' /\ ListIsFresh'
<1>0. /\ \A p \in Phone : p # NoPhone
      /\ \A c \in Cycle : cycle[c].remind \subseteq Phone
      /\ \A c \in Cycle : cycle[c].step = "send" => cycle[c].phone \in Phone
  BY CycleAssumption DEF RInv, TypeOK, Progress
<1>1. ASSUME NEW p \in Phone, chat'[p].reminders # 0
      PROVE  chat'[p].reminders = 1 /\ (Settled(p)' \/ SendingTo(p)')
  <2>1. chat'[p].reminders = chat[p].reminders /\ (Settled(p) => Settled(p)')
    BY <1>1 DEF NoReminder
  <2>2. SendingTo(p) => SendingTo(p)'
    BY DEF SendingTo, NoNewSend
  <2> QED
    BY <1>1, <2>1, <2>2 DEF RInv, ReminderIsKnown
<1>2. ASSUME NEW p \in Phone, chat[p].reminders = 0 PROVE chat'[p].reminders = 0
  BY <1>2 DEF NoReminder
<1>3. ASSUME NEW c \in Cycle, NEW p \in cycle'[c].remind
      PROVE  chat'[p].reminders = 0 /\ p # cycle'[c].phone
  <2>1. p \in cycle[c].remind /\ p \in Phone
    BY <1>0, <1>3 DEF NoNewSend
  <2>2. chat[p].reminders = 0 /\ p # cycle[c].phone
    BY <2>1 DEF RInv, ListIsFresh
  <2> QED
    BY <1>0, <1>2, <2>1, <2>2 DEF NoNewSend
<1>4. ASSUME NEW c \in Cycle, cycle'[c].step = "send"
      PROVE  chat'[cycle'[c].phone].reminders = 0
  <2>1. cycle[c].step = "send" /\ cycle'[c].phone = cycle[c].phone
    BY <1>4 DEF NoNewSend
  <2> QED
    BY <1>0, <1>2, <2>1 DEF RInv, ListIsFresh
<1> QED
  BY <1>1, <1>3, <1>4 DEF ReminderIsKnown, ListIsFresh

\* The initial states satisfy it.
LEMMA InitReminds == Init => RInv
<1> SUFFICES ASSUME Init PROVE RInv
  OBVIOUS
<1>1. ReminderIsKnown /\ ListIsFresh
  BY DEF Init, ReminderIsKnown, ListIsFresh, Idle
<1> QED
  BY <1>1, InitType DEF RInv

\* A step that changes nothing but the document, the timers or the switch.
LEMMA MarksStay ==
  ASSUME TypeOK, Job = {}
  PROVE  /\ \A p \in Phone : hand["loop"] = NoDoc /\ Remove("loop", p) /\ UNCHANGED pending
              => \A q \in Phone : Settled(q) => Settled(q)'
         /\ \A t \in Thread : Save(t) => Current' = Current
         /\ UNCHANGED <<pending, hand>> => Current' = Current
<1>1. ASSUME NEW p \in Phone, hand["loop"] = NoDoc, Remove("loop", p), UNCHANGED pending,
             NEW q \in Phone, Settled(q)
      PROVE  Settled(q)'
  BY <1>1, CurrentRemove DEF Settled
<1>2. ASSUME NEW t \in Thread, Save(t) PROVE Current' = Current
  <2>1. t = "loop" /\ hand \in [Thread -> Doc \cup {NoDoc}]
    BY DEF Thread, TypeOK
  <2> QED
    BY <1>2, <2>1 DEF Save, Current
<1> QED
  BY <1>1, <1>2 DEF Current

\* Messages and what the admin does.
LEMMA LoopReminds ==
  ASSUME RInv, OneCycle, NEW p \in Phone,
         Message(p) \/ Reply(p) \/ Purge(p) \/ CleanUp(p)
  PROVE  NoReminder /\ NoNewSend
<1>0. /\ TypeOK /\ Job = {} /\ chat \in [Phone -> Chat]
      /\ hand \in [Thread -> Doc \cup {NoDoc}] /\ "loop" \in Thread
      /\ pending \in [Phone -> Entry \cup {NoEntry}]
  BY DEF RInv, TypeOK, Doc, Thread, OneCycle, OneThread
<1>1. NoNewSend
  BY DEF NoNewSend, Message, Reply, Purge, CleanUp
<1>2. CASE Message(p) \/ Purge(p)
  <2>1. \A q \in Phone : Settled(q) => Settled(q)'
    BY <1>0, <1>2, MarksStay DEF Message, Purge, Free
  <2>2. \A q \in Phone : chat'[q].reminders = chat[q].reminders
    BY <1>0, <1>2 DEF Message, Purge, Forgotten, Chat
  <2> QED
    BY <1>1, <2>1, <2>2 DEF NoReminder
<1>3. CASE Reply(p)
  <2> DEFINE doc == [pending EXCEPT ![p] = [age |-> 0, reminded |-> FALSE]]
  <2>1. hand["loop"] = NoDoc
    BY <1>3 DEF Reply, Free
  <2>2. doc \in Doc
    BY <1>0, Ages DEF Doc, Entry
  <2>3. Current = pending /\ Current' = doc
    BY <1>0, <1>3, <2>1, <2>2, DocAssumption DEF Reply, Put, Current
  <2>4. \A q \in Phone : q # p => Settled(q)' = Settled(q)
    BY <1>0, <2>3 DEF Settled
  <2>5. chat'[p].reminders = 0 /\ \A q \in Phone : q # p => chat'[q] = chat[q]
    BY <1>0, <1>3 DEF Reply, Chat
  <2> HIDE DEF doc
  <2> QED
    BY <1>1, <2>4, <2>5 DEF NoReminder
<1>4. CASE CleanUp(p)
  <2>1. Current' = Current
    BY <1>0, <1>4, MarksStay DEF CleanUp
  <2>2. \A q \in Phone : chat'[q].reminders = chat[q].reminders
    BY <1>0, <1>4 DEF CleanUp, Forgotten, Chat
  <2> QED
    BY <1>1, <2>1, <2>2 DEF NoReminder, Settled
<1> QED
  BY <1>2, <1>3, <1>4

\* What concerns all chats or none.
LEMMA OutsideReminds ==
  ASSUME RInv, OneCycle,
         ClearAll \/ Switch \/ Tick \/ Restart \/ \E t \in Thread : Save(t)
  PROVE  NoReminder /\ NoNewSend
<1>a. TypeOK /\ Job = {} /\ MaxRestarts = 0
  BY DEF RInv, OneCycle, OneThread
<1>0. /\ TypeOK /\ Job = {} /\ ~Restart
      /\ chat \in [Phone -> Chat]
      /\ hand \in [Thread -> Doc \cup {NoDoc}] /\ "loop" \in Thread
      /\ pending \in Doc
  BY <1>a DEF TypeOK, Thread, Restart
<1>1. CASE ClearAll
  <2>1. [q \in Phone |-> NoEntry] \in Doc
    BY DEF Doc
  <2>2. Current' = [q \in Phone |-> NoEntry]
    BY <1>0, <1>1, <2>1, DocAssumption DEF ClearAll, Put, Current
  <2>3. \A q \in Phone : Settled(q)'
    BY <2>2 DEF Settled
  <2>4. \A q \in Phone : chat'[q].reminders = chat[q].reminders
    BY <1>0, <1>1 DEF ClearAll, Forgotten, Chat
  <2> QED
    BY <1>1, <2>3, <2>4 DEF NoReminder, NoNewSend, ClearAll
<1>2. CASE Switch
  BY <1>0, <1>2, MarksStay DEF Switch, NoReminder, NoNewSend, Settled
<1>3. CASE Tick
  <2>1. ASSUME NEW q \in Phone, Settled(q) PROVE Settled(q)'
    <3>1. CASE hand["loop"] = NoDoc
      <4>1. Current = pending /\ Current' = Aged(pending)
        BY <1>0, <1>3, <3>1 DEF Tick, Current
      <4> QED
        BY <2>1, <4>1 DEF Settled, Aged
    <3>2. CASE hand["loop"] # NoDoc
      <4>1. hand["loop"] \in Doc
        BY <1>0, <3>2
      <4>2. Aged(hand["loop"]) # NoDoc
        BY <4>1, AgedOK, DocAssumption
      <4>3. Current = hand["loop"] /\ Current' = Aged(hand["loop"])
        BY <1>0, <1>3, <3>2, <4>2 DEF Tick, Current
      <4> QED
        BY <2>1, <4>3 DEF Settled, Aged
    <3> QED
      BY <3>1, <3>2
  <2>2. \A q \in Phone : chat'[q].reminders = chat[q].reminders
    BY <1>0, <1>3 DEF Tick, Chat
  <2> QED
    BY <1>3, <2>1, <2>2 DEF NoReminder, NoNewSend, Tick
<1>4. CASE Restart
  BY <1>0, <1>4
<1>5. ASSUME NEW t \in Thread, Save(t) PROVE NoReminder /\ NoNewSend
  <2>1. Current' = Current /\ cycle' = cycle /\ chat' = chat
    BY <1>0, <1>5, MarksStay DEF Save
  <2> QED
    BY <2>1 DEF NoReminder, NoNewSend, Settled
<1> QED
  BY <1>1, <1>2, <1>3, <1>4, <1>5

\* The steps of a cycle that send nothing.
LEMMA QuietReminds ==
  ASSUME RInv, OneCycle, NEW c \in Cycle,
         Drop(c) \/ SendFails(c) \/ FindExpired(c) \/ Close(c) \/ Report(c)
  PROVE  NoReminder /\ NoNewSend
<1>0. /\ TypeOK /\ Job = {} /\ ThreadOf(c) = "loop"
      /\ cycle \in [Cycle -> Progress] /\ cycle[c] \in Progress
      /\ \A d \in Cycle : cycle[d].phone # NoPhone <=> cycle[d].step \in {"send", "sent"}
  BY OnlyLoop DEF RInv, TypeOK, OneCycle, OneThread
<1>1. NoReminder
  <2>1. CASE Drop(c) \/ Close(c)
    <3>1. PICK p \in Phone : Remove("loop", p)
      BY <1>0, <2>1 DEF Drop, Close, Progress
    <3>2. hand["loop"] = NoDoc /\ UNCHANGED pending /\ chat' = chat
      BY <1>0, <2>1 DEF Drop, Close, At
    <3> QED
      BY <1>0, <3>1, <3>2, MarksStay DEF NoReminder
  <2>2. CASE SendFails(c) \/ FindExpired(c)
    <3>1. Current' = Current /\ chat' = chat
      BY <1>0, <2>2, MarksStay DEF SendFails, FindExpired
    <3> QED
      BY <3>1 DEF NoReminder, Settled
  <2>3. CASE Report(c)
    <3>0. hand \in [Thread -> Doc \cup {NoDoc}] /\ pending \in Doc /\ "loop" \in Thread
      BY <1>0 DEF TypeOK, Thread
    <3>1. Current = pending /\ Current' = pending /\ chat' = chat
      BY <1>0, <2>3, <3>0, DocAssumption DEF Report, At, Put, Current
    <3> QED
      BY <3>1 DEF NoReminder, Settled
  <2> QED
    BY <2>1, <2>2, <2>3
<1>2. NoNewSend
  <2>1. CASE SendFails(c)
    <3>1. cycle[c].step = "send" /\ cycle' = Running(c)
      BY <2>1 DEF SendFails, OneCycle
    <3>2. /\ cycle'[c].remind = cycle[c].remind
          /\ cycle'[c].step = "run" /\ cycle'[c].phone = NoPhone
          /\ \A d \in Cycle : d # c => cycle'[d] = cycle[d]
      BY <1>0, <3>1 DEF Running, Progress
    <3> QED
      BY <3>1, <3>2 DEF NoNewSend
  <2>2. CASE Drop(c) \/ Close(c)
    <3>1. /\ cycle'[c].remind = cycle[c].remind
          /\ cycle'[c].step = cycle[c].step /\ cycle'[c].phone = cycle[c].phone
          /\ \A d \in Cycle : d # c => cycle'[d] = cycle[d]
      BY <1>0, <2>2 DEF Drop, Close, Progress
    <3> QED
      BY <3>1 DEF NoNewSend
  <2>3. CASE FindExpired(c)
    <3>1. /\ cycle[c].step = "run" /\ cycle'[c].step = "close"
          /\ cycle'[c].remind = cycle[c].remind /\ cycle'[c].phone = cycle[c].phone
          /\ \A d \in Cycle : d # c => cycle'[d] = cycle[d]
      BY <1>0, <2>3 DEF FindExpired, At, Progress
    <3>2. cycle[c].phone = NoPhone
      BY <1>0, <3>1
    <3> QED
      BY <3>1, <3>2 DEF NoNewSend
  <2>4. CASE Report(c)
    <3>1. /\ cycle[c].step = "close" /\ cycle'[c] = Idle
          /\ \A d \in Cycle : d # c => cycle'[d] = cycle[d]
      BY <1>0, <2>4 DEF Report, At
    <3> QED
      BY <3>1 DEF NoNewSend, Idle
  <2> QED
    BY <2>1, <2>2, <2>3, <2>4
<1> QED
  BY <1>1, <1>2

\* The steps that make the list, send and mark.
LEMMA SendReminds ==
  ASSUME RInv, OneCycle, NEW c \in Cycle,
         Begin(c) \/ StartSend(c) \/ Deliver(c) \/ MarkSent(c)
  PROVE  ReminderIsKnown' /\ ListIsFresh'
<1>0. /\ TypeOK /\ Job = {} /\ ThreadOf(c) = "loop" /\ "loop" \in Thread
      /\ cycle \in [Cycle -> Progress] /\ cycle[c] \in Progress
      /\ chat \in [Phone -> Chat] /\ pending \in Doc
      /\ hand \in [Thread -> Doc \cup {NoDoc}]
      /\ (cycle[c].phone # NoPhone <=> cycle[c].step \in {"send", "sent"})
      /\ \A p \in Phone : p # NoPhone
  BY OnlyLoop, CycleAssumption DEF RInv, TypeOK, OneCycle, OneThread, Thread
<1>a. \A d \in Cycle : d = c
  BY DEF OneCycle
<1>b. \A p \in Phone : SendingTo(p) <=> cycle[c].step = "sent" /\ cycle[c].phone = p
  BY <1>a DEF SendingTo
<1>c. \A p \in Phone : SendingTo(p)' <=> cycle'[c].step = "sent" /\ cycle'[c].phone = p
  BY <1>a DEF SendingTo
<1>1. CASE Begin(c)
  <2>1. hand["loop"] = NoDoc /\ Current = pending /\ Current' = pending /\ chat' = chat
    BY <1>0, <1>1 DEF Begin, Free, Current
  <2>2. /\ cycle[c].step = "idle" /\ cycle'[c].step = "run"
        /\ cycle'[c].phone = cycle[c].phone
        /\ cycle'[c].remind = {p \in Entries : Remindable(pending[p])}
    BY <1>0, <1>1 DEF Begin, Progress
  <2>3. cycle[c].phone = NoPhone
    BY <1>0, <2>2
  <2>4. ASSUME NEW p \in cycle'[c].remind
        PROVE  p \in Phone /\ chat[p].reminders = 0
    <3>1. p \in Phone /\ pending[p] # NoEntry /\ ~pending[p].reminded
      BY <2>2, <2>4 DEF Entries, Remindable
    <3>2. ~Settled(p) /\ ~SendingTo(p)
      BY <1>b, <2>1, <2>2, <3>1 DEF Settled
    <3> QED
      BY <3>1, <3>2 DEF RInv, ReminderIsKnown
  <2>5. ListIsFresh'
    BY <1>a, <1>0, <2>1, <2>2, <2>3, <2>4 DEF ListIsFresh
  <2>6. ReminderIsKnown'
    BY <1>b, <2>1, <2>2 DEF RInv, ReminderIsKnown, Settled
  <2> QED
    BY <2>5, <2>6
<1>2. CASE StartSend(c)
  <2>1. PICK p \in cycle[c].remind :
          cycle' = [cycle EXCEPT ![c].step = "send", ![c].remind = @ \ {p}, ![c].phone = p]
    BY <1>2 DEF StartSend
  <2>2. /\ cycle[c].step = "run" /\ cycle'[c].step = "send" /\ cycle'[c].phone = p
        /\ cycle'[c].remind = cycle[c].remind \ {p}
        /\ chat' = chat /\ Current' = Current
    BY <1>0, <1>2, <2>1 DEF StartSend, At, Progress, Current
  <2>3. ListIsFresh'
    BY <1>a, <2>2 DEF RInv, ListIsFresh
  <2>4. ReminderIsKnown'
    BY <1>b, <2>2 DEF RInv, ReminderIsKnown, Settled
  <2> QED
    BY <2>3, <2>4
<1>3. CASE Deliver(c)
  <2>1. /\ cycle[c].step = "send" /\ cycle'[c].step = "sent"
        /\ cycle'[c].phone = cycle[c].phone /\ cycle'[c].remind = cycle[c].remind
        /\ Current' = Current
    BY <1>0, <1>3 DEF Deliver, Progress, Current
  <2>2. cycle[c].phone \in Phone /\ chat[cycle[c].phone].reminders = 0
    BY <1>0, <2>1 DEF RInv, ListIsFresh, Progress
  <2>3. /\ chat'[cycle[c].phone].reminders = 1
        /\ \A q \in Phone : q # cycle[c].phone => chat'[q] = chat[q]
    BY <1>0, <1>3, <2>2 DEF Deliver, Chat
  <2>4. cycle[c].remind \subseteq Phone
    BY <1>0 DEF Progress
  <2>5. ListIsFresh'
    BY <1>a, <2>1, <2>3, <2>4 DEF RInv, ListIsFresh
  <2>6. ReminderIsKnown'
    BY <1>b, <1>c, <2>1, <2>3 DEF RInv, ReminderIsKnown, Settled
  <2> QED
    BY <2>5, <2>6
<1>4. CASE MarkSent(c)
  <2>0. PICK p \in Phone : p = cycle[c].phone
    BY <1>0, <1>4 DEF MarkSent, Progress
  <2> DEFINE doc == [pending EXCEPT ![p].reminded = TRUE]
  <2>1. /\ cycle[c].step = "sent" /\ chat' = chat
        /\ hand["loop"] = NoDoc /\ Current = pending
    BY <1>0, <1>4 DEF MarkSent, Free, Current
  <2>2. /\ cycle'[c].step = "run" /\ cycle'[c].phone = NoPhone
        /\ cycle'[c].remind = cycle[c].remind
    BY <1>0, <1>4 DEF MarkSent, Running, Progress
  <2>3. Settled(p)' /\ \A q \in Phone : Settled(q) => Settled(q)'
    <3>1. CASE pending[p] = NoEntry
      <4>1. Current' = pending
        BY <1>0, <1>4, <2>0, <2>1, <3>1 DEF MarkSent, Current
      <4> QED
        BY <2>1, <3>1, <4>1 DEF Settled
    <3>2. CASE pending[p] # NoEntry
      <4>1. pending[p] \in Entry
        BY <1>0, <2>1, <3>2 DEF Doc
      <4>2. doc \in Doc /\ doc[p].reminded /\ \A q \in Phone : q # p => doc[q] = pending[q]
        BY <1>0, <2>1, <4>1 DEF Doc, Entry
      <4>3. Put("loop", doc)
        BY <1>0, <1>4, <2>0, <3>2 DEF MarkSent
      <4> HIDE DEF doc
      <4>4. Current' = doc
        BY <1>0, <4>2, <4>3, DocAssumption DEF Put, Current
      <4> QED
        BY <2>1, <4>2, <4>4 DEF Settled
    <3> QED
      BY <3>1, <3>2
  <2>4. ListIsFresh'
    <3>1. cycle[c].remind \subseteq Phone
      BY <1>0 DEF Progress
    <3> QED
      BY <1>a, <1>0, <2>1, <2>2, <3>1 DEF RInv, ListIsFresh
  <2>5. ReminderIsKnown'
    BY <1>b, <2>0, <2>1, <2>3 DEF RInv, ReminderIsKnown
  <2> QED
    BY <2>4, <2>5
<1> QED
  BY <1>1, <1>2, <1>3, <1>4

\* The invariant is inductive.
LEMMA NextReminds == OneCycle /\ RInv /\ [Next]_vars => RInv'
<1> SUFFICES ASSUME OneCycle, RInv, [Next]_vars PROVE RInv'
  OBVIOUS
<1>1. TypeOK'
  BY NextType DEF RInv
<1>2. ReminderIsKnown' /\ ListIsFresh'
  <2>1. ASSUME NEW c \in Cycle, Work(c) PROVE ReminderIsKnown' /\ ListIsFresh'
    BY <2>1, QuietReminds, SendReminds, RemindsKept DEF Work
  <2>2. CASE UNCHANGED vars
    <3>1. NoReminder /\ NoNewSend
      BY <2>2 DEF vars, NoReminder, NoNewSend, Settled, Current
    <3> QED
      BY <3>1, RemindsKept
  <2> QED
    BY <2>1, <2>2, LoopReminds, OutsideReminds, RemindsKept DEF Next
<1> QED
  BY <1>1, <1>2 DEF RInv

\* With one cycle at a time on the event loop, no lost answer and no restart,
\* an answered chat gets no second reminder, although messages, replies and
\* purges come between the list, the sending and the marking.
THEOREM OneReminderEach ==
  ASSUME OneCycle
  PROVE  Spec => []RemindsOnce
<1>1. RInv => RemindsOnce
  BY DEF RInv, ReminderIsKnown, RemindsOnce
<1>2. Init => RInv
  BY InitReminds
<1>3. RInv /\ [Next]_vars => RInv'
  BY NextReminds
<1> QED
  BY <1>1, <1>2, <1>3, PTL DEF Spec

-----------------------------------------------------------------------------
(* What a cycle drops, without the job thread                              *)

Busy(c) == cycle[c].step \in {"run", "close"}

LateOrGone(p) == Current[p] = NoEntry \/ Current[p].age > RemindAfter + Grace

\* A cycle that is not waiting for WhatsApp has the event loop to itself.
OneAtWork == \A c, d \in Cycle : Busy(c) /\ Busy(d) => c = d

\* The entries it has found late stay so until it has dropped them.
DropIsLate ==
  \A c \in Cycle : cycle[c].drop # {} =>
    cycle[c].step = "run" /\ \A p \in cycle[c].drop : LateOrGone(p)

\* The document that is about to be saved misses only such entries, and those
\* of chats that are closed, forgotten or asked again.
UnsavedIsLate ==
  hand["loop"] # NoDoc =>
    \A p \in Phone : pending[p] # NoEntry /\ hand["loop"][p] = NoEntry =>
      \/ chat[p].state # "answered" \/ p \in timers
      \/ pending[p].age > RemindAfter + Grace

DInv == TypeOK /\ OneAtWork /\ DropIsLate /\ UnsavedIsLate

\* What DInv says of the variables' types, for the event loop.
LEMMA LoopTypes ==
  ASSUME DInv, Job = {}
  PROVE  /\ TypeOK /\ Thread = {"loop"} /\ \A c \in Cycle : ThreadOf(c) = "loop"
         /\ hand \in [Thread -> Doc \cup {NoDoc}] /\ pending \in Doc
         /\ pending \in [Phone -> Entry \cup {NoEntry}]
         /\ cycle \in [Cycle -> Progress] /\ chat \in [Phone -> Chat]
         /\ \A c \in Cycle : cycle[c].drop \subseteq Phone
BY DEF DInv, TypeOK, Doc, Thread, Cycle, ThreadOf, Progress

\* The initial states satisfy the invariant.
LEMMA InitDrops == Init => DInv
<1> SUFFICES ASSUME Init PROVE DInv
  OBVIOUS
<1>1. OneAtWork /\ DropIsLate /\ UnsavedIsLate
  BY DEF Init, OneAtWork, Busy, DropIsLate, UnsavedIsLate, Idle, Thread
<1> QED
  BY <1>1, InitType DEF DInv

\* A document without one entry.
LEMMA RemovedDoc ==
  ASSUME DInv, Job = {}, NEW p \in Phone, hand["loop"] = NoDoc, Remove("loop", p)
  PROVE  \/ hand'["loop"] = NoDoc
         \/ hand'["loop"] # NoDoc
            /\ \A q \in Phone : hand'["loop"][q] = IF q = p THEN NoEntry ELSE pending[q]
<1>0. hand \in [Thread -> Doc \cup {NoDoc}] /\ "loop" \in Thread /\ pending \in Doc
      /\ pending \in [Phone -> Entry \cup {NoEntry}]
  BY LoopTypes
<1>1. CASE pending[p] # NoEntry
  <2>1. hand'["loop"] = Without(p)
    BY <1>0, <1>1 DEF Remove, Put
  <2>2. Without(p) \in Doc
    BY <1>0 DEF Without, Doc
  <2> QED
    BY <1>0, <2>1, <2>2, DocAssumption DEF Without
<1> QED
  BY <1>1 DEF Remove

\* Messages and what the admin does: no cycle is at work.
LEMMA LoopDrops ==
  ASSUME DInv, Job = {},
         ClearAll \/ \E p \in Phone : Message(p) \/ Reply(p) \/ Purge(p)
  PROVE  OneAtWork' /\ DropIsLate' /\ UnsavedIsLate'
<1>0. /\ Thread = {"loop"} /\ \A c \in Cycle : ThreadOf(c) = "loop"
      /\ hand \in [Thread -> Doc \cup {NoDoc}] /\ pending \in Doc
      /\ pending \in [Phone -> Entry \cup {NoEntry}] /\ chat \in [Phone -> Chat]
  BY LoopTypes
<1>1. Free("loop") /\ cycle' = cycle /\ pending' = pending /\ timers' = timers
  BY DEF ClearAll, Message, Reply, Purge
<1>2. hand["loop"] = NoDoc /\ \A c \in Cycle : ~Busy(c)
  BY <1>0, <1>1 DEF Free, Busy
<1>3. OneAtWork' /\ DropIsLate'
  BY <1>1, <1>2 DEF OneAtWork, DropIsLate, Busy, DInv
<1>4. ASSUME NEW q \in Phone, hand'["loop"] # NoDoc,
             pending[q] # NoEntry, hand'["loop"][q] = NoEntry
      PROVE  chat'[q].state # "answered"
  <2>1. CASE ClearAll
    BY <1>0, <2>1 DEF ClearAll, Forgotten, Chat
  <2>2. ASSUME NEW p \in Phone, Message(p) \/ Purge(p) PROVE chat'[q].state # "answered"
    <3>1. q = p
      BY <1>2, <1>4, <2>2, RemovedDoc DEF Message, Purge
    <3> QED
      BY <1>0, <2>2, <3>1 DEF Message, Purge, Forgotten, Chat
  <2>3. ASSUME NEW p \in Phone, Reply(p) PROVE FALSE
    <3>1. hand'["loop"] = [pending EXCEPT ![p] = [age |-> 0, reminded |-> FALSE]]
      BY <1>0, <2>3 DEF Reply, Put
    <3>2. [age |-> 0, reminded |-> FALSE] \in Entry
      BY Ages DEF Entry
    <3>3. q = p
      BY <1>0, <1>4, <3>1
    <3> QED
      BY <1>0, <1>4, <3>1, <3>2, <3>3, DocAssumption
  <2> QED
    BY <2>1, <2>2, <2>3
<1> QED
  BY <1>1, <1>3, <1>4 DEF UnsavedIsLate

\* Time, restarts, saves and the timer threads.
LEMMA OutsideDrops ==
  ASSUME DInv, Job = {},
         \/ Switch \/ Tick \/ Restart \/ (\E t \in Thread : Save(t))
         \/ (\E p \in Phone : CleanUp(p)) \/ UNCHANGED vars
  PROVE  OneAtWork' /\ DropIsLate' /\ UnsavedIsLate'
<1>0. /\ Thread = {"loop"} /\ "loop" \in Thread
      /\ hand \in [Thread -> Doc \cup {NoDoc}] /\ pending \in Doc
      /\ pending \in [Phone -> Entry \cup {NoEntry}] /\ chat \in [Phone -> Chat]
      /\ \A c \in Cycle : cycle[c].drop \subseteq Phone
      /\ OneAtWork /\ DropIsLate /\ UnsavedIsLate
  BY LoopTypes DEF DInv
<1>1. CASE Switch \/ UNCHANGED vars
  BY <1>0, <1>1 DEF Switch, vars, OneAtWork, Busy, DropIsLate, LateOrGone, Current, UnsavedIsLate
<1>2. CASE Restart
  BY <1>0, <1>2 DEF Restart, OneAtWork, Busy, DropIsLate, UnsavedIsLate, Idle
<1>3. ASSUME NEW t \in Thread, Save(t)
      PROVE  OneAtWork' /\ DropIsLate' /\ UnsavedIsLate'
  <2>1. t = "loop" /\ hand'["loop"] = NoDoc /\ cycle' = cycle /\ Current' = Current
    BY <1>0, <1>3 DEF Save, Current
  <2> QED
    BY <1>0, <2>1 DEF OneAtWork, Busy, DropIsLate, LateOrGone, UnsavedIsLate
<1>4. ASSUME NEW p \in Phone, CleanUp(p)
      PROVE  OneAtWork' /\ DropIsLate' /\ UnsavedIsLate'
  <2>1. cycle' = cycle /\ hand' = hand /\ pending' = pending /\ Current' = Current
    BY <1>4 DEF CleanUp, Current
  <2>2. \A q \in Phone :
          /\ q # p => chat'[q] = chat[q] /\ (q \in timers' <=> q \in timers)
          /\ chat'[p].state # "answered"
    BY <1>0, <1>4 DEF CleanUp, Forgotten, Chat
  <2> QED
    BY <1>0, <2>1, <2>2 DEF OneAtWork, Busy, DropIsLate, LateOrGone, UnsavedIsLate
<1>5. CASE Tick
  <2> DEFINE limit == RemindAfter + Grace
  <2>1. ASSUME NEW doc \in Doc, NEW q \in Phone
        PROVE  /\ Aged(doc)[q] = NoEntry <=> doc[q] = NoEntry
               /\ doc[q] # NoEntry /\ doc[q].age > limit => Aged(doc)[q].age > limit
    <3>1. CASE doc[q] = NoEntry
      BY <3>1 DEF Aged
    <3>2. CASE doc[q] # NoEntry
      <4>1. doc[q] \in Entry /\ doc[q].age \in Age /\ doc[q].reminded \in BOOLEAN
        BY <3>2 DEF Doc, Entry
      <4>2. Older(doc[q].age) \in Age /\ doc[q].age <= Older(doc[q].age)
        BY <4>1, OlderOK
      <4>3. Aged(doc)[q] = [age |-> Older(doc[q].age), reminded |-> doc[q].reminded]
        BY <3>2 DEF Aged
      <4>4. Aged(doc)[q] \in Entry
        BY <4>1, <4>2, <4>3 DEF Entry
      <4>5. limit \in Nat /\ doc[q].age \in Nat /\ Older(doc[q].age) \in Nat
        BY <4>1, <4>2, TimeAssumption DEF Age
      <4>6. doc[q].age > limit => Older(doc[q].age) > limit
        BY <4>2, <4>5
      <4> HIDE DEF limit
      <4> QED
        BY <3>2, <4>3, <4>4, <4>6, DocAssumption
    <3> QED
      BY <3>1, <3>2
  <2> HIDE DEF limit
  <2>2. \/ hand["loop"] = NoDoc /\ hand'["loop"] = NoDoc
        \/ /\ hand["loop"] \in Doc /\ hand["loop"] # NoDoc
           /\ hand'["loop"] = Aged(hand["loop"])
    BY <1>0, <1>5 DEF Tick
  <2>3. pending' = Aged(pending) /\ cycle' = cycle /\ timers' = timers
        /\ \A q \in Phone : chat'[q].state = chat[q].state
    BY <1>0, <1>5 DEF Tick, Chat
  <2>4. Current \in Doc /\ Current' = Aged(Current)
    <3>1. CASE hand["loop"] = NoDoc
      BY <1>0, <2>2, <2>3, <3>1 DEF Current
    <3>2. CASE hand["loop"] # NoDoc
      <4>1. Aged(hand["loop"]) \in Doc
        BY <2>2, <3>2, AgedOK
      <4> QED
        BY <2>2, <3>2, <4>1, DocAssumption DEF Current
    <3> QED
      BY <3>1, <3>2
  <2>5. \A q \in Phone : LateOrGone(q) => LateOrGone(q)'
    BY <2>1, <2>4 DEF LateOrGone, limit
  <2>6. DropIsLate'
    <3>1. ASSUME NEW c \in Cycle, cycle[c].drop # {}
          PROVE  cycle[c].step = "run" /\ \A q \in cycle[c].drop : LateOrGone(q)'
      BY <1>0, <2>5, <3>1 DEF DropIsLate
    <3> QED
      BY <2>3, <3>1 DEF DropIsLate
  <2>7. ASSUME NEW q \in Phone, hand'["loop"] # NoDoc,
               pending'[q] # NoEntry, hand'["loop"][q] = NoEntry
        PROVE  \/ chat'[q].state # "answered" \/ q \in timers'
               \/ pending'[q].age > limit
    <3>1. hand["loop"] # NoDoc /\ pending[q] # NoEntry /\ hand["loop"][q] = NoEntry
      BY <1>0, <2>1, <2>2, <2>3, <2>7
    <3>2. \/ chat[q].state # "answered" \/ q \in timers \/ pending[q].age > limit
      BY <1>0, <3>1 DEF UnsavedIsLate, limit
    <3> QED
      BY <1>0, <2>1, <2>3, <3>1, <3>2
  <2>8. UnsavedIsLate'
    BY <2>7 DEF UnsavedIsLate, limit
  <2>9. OneAtWork'
    BY <1>0, <2>3 DEF OneAtWork, Busy
  <2> QED
    BY <2>6, <2>8, <2>9
<1> QED
  BY <1>1, <1>2, <1>3, <1>4, <1>5

\* The steps of a cycle.
LEMMA CycleDrops ==
  ASSUME DInv, Job = {}, NEW c \in Cycle, Work(c)
  PROVE  OneAtWork' /\ DropIsLate' /\ UnsavedIsLate'
<1>0. /\ Thread = {"loop"} /\ "loop" \in Thread /\ ThreadOf(c) = "loop"
      /\ \A d \in Cycle : ThreadOf(d) = "loop" /\ cycle[d].drop \subseteq Phone
      /\ hand \in [Thread -> Doc \cup {NoDoc}] /\ pending \in Doc
      /\ pending \in [Phone -> Entry \cup {NoEntry}] /\ chat \in [Phone -> Chat]
      /\ cycle \in [Cycle -> Progress] /\ cycle[c] \in Progress
      /\ OneAtWork /\ DropIsLate /\ UnsavedIsLate
  BY LoopTypes DEF DInv
\* A cycle that begins, or goes on after an await, finds the loop free.
<1>a. ASSUME Free("loop"), cycle'[c].drop = {},
             \A d \in Cycle : d # c => cycle'[d] = cycle[d]
      PROVE  OneAtWork' /\ DropIsLate'
  <2>1. \A d \in Cycle : ~Busy(d) /\ cycle[d].drop = {}
    BY <1>0, <1>a DEF Free, Busy, DropIsLate
  <2> QED
    BY <1>a, <2>1 DEF OneAtWork, Busy, DropIsLate
\* One that is at work, or becomes idle, leaves the others waiting.
<1>b. ASSUME Busy(c)' => Busy(c),
             \A d \in Cycle : d # c => cycle'[d] = cycle[d]
      PROVE  OneAtWork'
  BY <1>0, <1>b DEF OneAtWork, Busy
<1>1. CASE Begin(c)
  <2>1. /\ hand["loop"] = NoDoc /\ Current = pending /\ Current' = pending
        /\ hand' = hand /\ \A d \in Cycle : ~Busy(d)
    BY <1>0, <1>1 DEF Begin, Free, Busy, Current
  <2>2. /\ cycle'[c].step = "run"
        /\ cycle'[c].drop = {p \in Entries : Late(pending[p])}
        /\ \A d \in Cycle : d # c => cycle'[d] = cycle[d]
    BY <1>0, <1>1 DEF Begin, Progress
  <2>3. \A p \in cycle'[c].drop : LateOrGone(p)'
    BY <2>1, <2>2 DEF Late, LateOrGone
  <2>4. \A d \in Cycle : d # c => cycle'[d].drop = {} /\ ~Busy(d)'
    BY <1>0, <2>1, <2>2 DEF Busy, DropIsLate
  <2> QED
    BY <2>1, <2>2, <2>3, <2>4 DEF OneAtWork, DropIsLate, UnsavedIsLate
<1>2. CASE Drop(c)
  <2>1. PICK p \in cycle[c].drop :
          Remove("loop", p) /\ cycle' = [cycle EXCEPT ![c].drop = @ \ {p}]
    BY <1>0, <1>2 DEF Drop
  <2>2. /\ p \in Phone /\ cycle[c].step = "run" /\ hand["loop"] = NoDoc
        /\ pending' = pending /\ LateOrGone(p)
    BY <1>0, <1>2, <2>1 DEF Drop, At, DropIsLate
  <2>3. /\ cycle'[c].step = "run" /\ cycle'[c].drop = cycle[c].drop \ {p}
        /\ \A d \in Cycle : d # c => cycle'[d] = cycle[d]
    BY <1>0, <2>1, <2>2 DEF Progress
  <2>4. /\ Current = pending /\ Current'[p] = NoEntry
        /\ \A q \in Phone : q # p => Current'[q] = pending[q]
    BY <2>1, <2>2, CurrentRemove DEF DInv
  <2>5. \A q \in Phone : LateOrGone(q) => LateOrGone(q)'
    BY <2>4 DEF LateOrGone
  <2>6. OneAtWork'
    BY <1>b, <2>2, <2>3 DEF Busy
  <2>7. DropIsLate'
    BY <1>0, <2>3, <2>5 DEF DropIsLate
  <2>8. UnsavedIsLate'
    <3>1. ASSUME NEW q \in Phone, hand'["loop"] # NoDoc,
                 pending[q] # NoEntry, hand'["loop"][q] = NoEntry
          PROVE  pending[q].age > RemindAfter + Grace
      <4>1. q = p
        BY <2>1, <2>2, <3>1, RemovedDoc
      <4> QED
        BY <2>2, <2>4, <3>1, <4>1 DEF LateOrGone
    <3> QED
      BY <2>2, <3>1 DEF UnsavedIsLate
  <2> QED
    BY <2>6, <2>7, <2>8
<1>3. CASE StartSend(c)
  <2>1. PICK p \in cycle[c].remind :
          cycle' = [cycle EXCEPT ![c].step = "send", ![c].remind = @ \ {p}, ![c].phone = p]
    BY <1>3 DEF StartSend
  <2>2. /\ cycle'[c].step = "send" /\ cycle'[c].drop = {} /\ hand' = hand
        /\ hand["loop"] = NoDoc /\ Current' = Current
        /\ \A d \in Cycle : d # c => cycle'[d] = cycle[d]
    BY <1>0, <1>3, <2>1 DEF StartSend, At, Progress, Current
  <2>3. OneAtWork'
    BY <1>b, <2>2 DEF Busy
  <2> QED
    BY <1>0, <2>2, <2>3 DEF DropIsLate, UnsavedIsLate, LateOrGone
<1>4. CASE Deliver(c)
  <2>1. /\ cycle'[c].step = "sent" /\ cycle'[c].drop = {}
        /\ \A d \in Cycle : d # c => cycle'[d] = cycle[d]
        /\ \A q \in Phone : chat'[q].state = chat[q].state
        /\ hand' = hand /\ pending' = pending /\ timers' = timers /\ Current' = Current
    BY <1>0, <1>4 DEF Deliver, Progress, Chat, Current, DropIsLate
  <2>2. OneAtWork'
    BY <1>b, <2>1 DEF Busy
  <2> QED
    BY <1>0, <2>1, <2>2 DEF DropIsLate, UnsavedIsLate, LateOrGone
<1>5. CASE SendFails(c) \/ MarkSent(c)
  <2>1. /\ Free("loop") /\ cycle' = Running(c) /\ cycle[c].step \in {"send", "sent"}
        /\ pending' = pending
    BY <1>0, <1>5 DEF SendFails, MarkSent
  <2>2. hand["loop"] = NoDoc /\ cycle[c].drop = {}
    BY <1>0, <2>1 DEF Free, DropIsLate
  <2>3. cycle'[c].drop = {} /\ \A d \in Cycle : d # c => cycle'[d] = cycle[d]
    BY <1>0, <2>1, <2>2 DEF Running, Progress
  <2>4. UnsavedIsLate'
    <3>1. CASE UNCHANGED hand
      BY <2>2, <3>1 DEF UnsavedIsLate
    <3>2. CASE ~UNCHANGED hand
      <4>1. PICK p \in Phone : p = cycle[c].phone
        BY <1>0, <2>1 DEF Progress, DInv, TypeOK
      <4>2. pending[p] # NoEntry
            /\ Put("loop", [pending EXCEPT ![p].reminded = TRUE])
        BY <1>0, <1>5, <3>2, <4>1 DEF SendFails, MarkSent
      <4>3. hand'["loop"] = [pending EXCEPT ![p].reminded = TRUE]
        BY <1>0, <4>2 DEF Put
      <4>4. pending[p] \in Entry
        BY <1>0, <4>2
      <4>5. [pending[p] EXCEPT !.reminded = TRUE] \in Entry
        BY <4>4 DEF Entry
      <4>6. \A q \in Phone : pending[q] # NoEntry => hand'["loop"][q] # NoEntry
        BY <1>0, <4>3, <4>5, DocAssumption
      <4> QED
        BY <2>1, <4>6 DEF UnsavedIsLate
    <3> QED
      BY <3>1, <3>2
  <2> QED
    BY <1>a, <2>1, <2>3, <2>4
<1>6. CASE FindExpired(c)
  <2>1. /\ cycle[c].step = "run" /\ cycle'[c].drop = {} /\ hand["loop"] = NoDoc
        /\ hand' = hand /\ Current' = Current
        /\ \A d \in Cycle : d # c => cycle'[d] = cycle[d]
    BY <1>0, <1>6 DEF FindExpired, At, Progress, Current
  <2>2. OneAtWork'
    BY <1>b, <2>1 DEF Busy
  <2> QED
    BY <1>0, <2>1, <2>2 DEF DropIsLate, UnsavedIsLate, LateOrGone
<1>7. CASE Close(c)
  <2>1. PICK p \in cycle[c].close :
          /\ timers' = timers \cup {p} /\ Remove("loop", p)
          /\ cycle' = [cycle EXCEPT ![c].close = @ \ {p}]
    BY <1>0, <1>7 DEF Close
  <2>2. /\ p \in Phone /\ cycle[c].step = "close" /\ hand["loop"] = NoDoc
        /\ pending' = pending /\ cycle[c].drop = {}
    BY <1>0, <1>7, <2>1 DEF Close, At, DropIsLate, Progress
  <2>3. /\ cycle'[c].step = "close" /\ cycle'[c].drop = {}
        /\ \A d \in Cycle : d # c => cycle'[d] = cycle[d]
    BY <1>0, <2>1, <2>2 DEF Progress
  <2>4. \A d \in Cycle : d # c => cycle[d].drop = {}
    BY <1>0, <2>2 DEF DropIsLate, OneAtWork, Busy
  <2>5. OneAtWork' /\ DropIsLate'
    BY <1>b, <2>2, <2>3, <2>4 DEF Busy, DropIsLate
  <2>6. \A q \in Phone : hand'["loop"] # NoDoc /\ pending[q] # NoEntry
            /\ hand'["loop"][q] = NoEntry => q = p
    BY <2>1, <2>2, RemovedDoc
  <2> QED
    BY <2>1, <2>2, <2>5, <2>6 DEF UnsavedIsLate
<1>8. CASE Report(c)
  <2>1. /\ cycle[c].step = "close" /\ cycle'[c] = Idle
        /\ \A d \in Cycle : d # c => cycle'[d] = cycle[d]
        /\ Current = pending /\ hand'["loop"] = pending /\ pending' = pending
    BY <1>0, <1>8 DEF Report, At, Put, Current
  <2>2. \A d \in Cycle : d # c => cycle[d].drop = {}
    BY <1>0, <2>1 DEF DropIsLate, OneAtWork, Busy
  <2>3. OneAtWork' /\ DropIsLate'
    BY <1>b, <2>1, <2>2 DEF Busy, DropIsLate, Idle
  <2> QED
    BY <2>1, <2>3 DEF UnsavedIsLate
<1> QED
  BY <1>1, <1>2, <1>3, <1>4, <1>5, <1>6, <1>7, <1>8 DEF Work

\* The invariant is inductive.
LEMMA NextDrops == Job = {} /\ DInv /\ [Next]_vars => DInv'
<1> SUFFICES ASSUME Job = {}, DInv, [Next]_vars PROVE DInv'
  OBVIOUS
<1>1. TypeOK'
  BY NextType DEF DInv
<1> QED
  BY <1>1, LoopDrops, OutsideDrops, CycleDrops DEF Next, DInv

\* Only a save takes an entry out of the file.
LEMMA DropStep ==
  Job = {} /\ DInv /\ [Next]_vars =>
    [\A p \in Phone :
       /\ pending[p] # NoEntry /\ pending'[p] = NoEntry /\ chat[p].state = "answered"
       => p \in timers \/ pending[p].age > RemindAfter + Grace]_vars
<1> SUFFICES ASSUME Job = {}, DInv, Next, NEW p \in Phone,
                    pending[p] # NoEntry, pending'[p] = NoEntry, chat[p].state = "answered"
             PROVE  p \in timers \/ pending[p].age > RemindAfter + Grace
  BY DEF vars
<1>0. Thread = {"loop"} /\ pending \in Doc /\ pending \in [Phone -> Entry \cup {NoEntry}]
  BY LoopTypes
<1>1. CASE \E t \in Thread : Save(t)
  <2>1. hand["loop"] # NoDoc /\ hand["loop"][p] = NoEntry
    BY <1>0, <1>1 DEF Save
  <2> QED
    BY <2>1 DEF DInv, UnsavedIsLate
<1>2. CASE Tick
  <2>1. pending[p] \in Entry
    BY <1>0
  <2>2. Aged(pending)[p] = [age |-> Older(pending[p].age), reminded |-> pending[p].reminded]
    BY DEF Aged
  <2>3. Aged(pending)[p] \in Entry
    BY <2>1, <2>2, OlderOK DEF Entry
  <2> QED
    BY <1>2, <2>3, DocAssumption DEF Tick
<1>3. CASE UNCHANGED pending
  BY <1>3
<1> QED
  BY <1>1, <1>2, <1>3
     DEF Next, Work, Message, Reply, Purge, CleanUp, ClearAll, Switch, Restart, Begin, Drop,
         StartSend, Deliver, SendFails, MarkSent, FindExpired, Close, Report

\* Without the job thread, with any number of requests and restarts and whatever
\* answers are lost, the entry of an answered chat stays until its reminder is
\* overdue, or the chat is closed.
THEOREM OnlyLateAreDropped ==
  ASSUME Job = {}
  PROVE  Spec => DropsOnlyLate
<1>1. Init => DInv
  BY InitDrops
<1>2. DInv /\ [Next]_vars => DInv'
  BY NextDrops
<1>3. DInv /\ [Next]_vars =>
        [\A p \in Phone :
           /\ pending[p] # NoEntry /\ pending'[p] = NoEntry /\ chat[p].state = "answered"
           => p \in timers \/ pending[p].age > RemindAfter + Grace]_vars
  BY DropStep
<1> QED
  BY <1>1, <1>2, <1>3, PTL DEF Spec, DropsOnlyLate
=============================================================================
