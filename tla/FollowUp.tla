------------------------------ MODULE FollowUp ------------------------------
(***************************************************************************)
(* Follow-ups (app/services/followup_service): a chat that was answered    *)
(* gets an entry in followups.json, a reminder some minutes later, and is  *)
(* closed when the customer stays silent.                                  *)
(*                                                                         *)
(* Two kinds of cycle work the entries off: POST /check-followups, a       *)
(* coroutine of the event loop, and the job of the scheduler, a thread of  *)
(* its own.  Every change of the file is a load, a change and a save; the  *)
(* save writes the whole document back.  Coroutines are interrupted at     *)
(* awaits only, the job thread and the loop interrupt each other anywhere. *)
(*                                                                         *)
(* Time passes in minutes.  An entry is known by its age, also in a        *)
(* document that is loaded and not yet saved: the code keeps timestamps.   *)
(***************************************************************************)
EXTENDS Naturals, FiniteSets

CONSTANTS
  Phone,
  Route,        \* concurrent requests to /check-followups: a bound
  Job,          \* the job thread, or nothing
  RemindAfter,  \* minutes to the reminder (DEFAULT_FOLLOWUP_MINUTES, 10)
  Grace,        \* minutes it may be late (FOLLOWUP_GRACE_SECONDS, 2)
  CloseAfter,   \* minutes to the end of the chat (30)
  Trouble,      \* what may go wrong besides interleaving
  MaxRestarts,  \* restarts of the process: a bound
  NoPhone, NoEntry, NoDoc

Troubles == {"switched off", "answer lost"}

Cycle  == Route \cup Job
Thread == {"loop"} \cup Job
ThreadOf(c) == IF c \in Job THEN c ELSE "loop"

\* The scheduler starts no second instance of a job.
ASSUME CycleAssumption ==
  /\ Route \cap Job = {} /\ "loop" \notin Job /\ NoPhone \notin Phone
  /\ \A j, k \in Job : j = k
ASSUME TimeAssumption ==
  /\ RemindAfter \in Nat \ {0} /\ Grace \in Nat /\ CloseAfter \in Nat \ {0}
  /\ Trouble \subseteq Troubles /\ MaxRestarts \in Nat

VARIABLES
  pending,  \* the entries in followups.json
  hand,     \* what a thread has loaded and changed and will save
  cycle,    \* how far every cycle has got
  enabled,  \* the switch of the admin panel
  timers,   \* chats whose cleanup thread is about to run
  chat,     \* what happened in every chat
  restarts

vars == <<pending, hand, cycle, enabled, timers, chat, restarts>>

-----------------------------------------------------------------------------
(* From CloseAfter on no condition of the code tells ages apart.           *)
Age == 0..CloseAfter

Entry == [age : Age, reminded : BOOLEAN]
Doc   == [Phone -> Entry \cup {NoEntry}]

ASSUME DocAssumption == NoEntry \notin Entry /\ NoDoc \notin Doc

(* drop, remind and close are what is left of the lists a cycle has made;  *)
(* phone is who it is sending to.                                          *)
Progress == [step : {"idle", "run", "send", "sent", "close"},
             drop : SUBSET Phone, remind : SUBSET Phone, close : SUBSET Phone,
             phone : Phone \cup {NoPhone}]

Idle == [step |-> "idle", drop |-> {}, remind |-> {}, close |-> {}, phone |-> NoPhone]

(* silence is the time since a message of the customer was last handled,   *)
(* reminders the number of reminders since the chat was last answered.     *)
Chat == [state : {"none", "asked", "answered"}, silence : Age, reminders : 0..2]

TypeOK ==
  /\ pending \in Doc
  /\ hand \in [Thread -> Doc \cup {NoDoc}]
  /\ cycle \in [Cycle -> Progress]
  /\ \A c \in Cycle : /\ cycle[c].drop \cap cycle[c].remind = {}
                      /\ cycle[c].phone # NoPhone <=> cycle[c].step \in {"send", "sent"}
  /\ enabled \in BOOLEAN
  /\ timers \subseteq Phone
  /\ chat \in [Phone -> Chat]
  /\ restarts \in 0..MaxRestarts

Init ==
  /\ pending = [p \in Phone |-> NoEntry]
  /\ hand = [t \in Thread |-> NoDoc]
  /\ cycle = [c \in Cycle |-> Idle]
  /\ enabled = TRUE
  /\ timers = {}
  /\ chat = [p \in Phone |-> [state |-> "none", silence |-> CloseAfter, reminders |-> 0]]
  /\ restarts = 0

-----------------------------------------------------------------------------
(* Threads and documents                                                   *)

(* A thread that saves, or is in a cycle and not waiting for WhatsApp,     *)
(* does nothing else.                                                      *)
Free(t) ==
  /\ hand[t] = NoDoc
  /\ \A c \in Cycle : ThreadOf(c) = t => cycle[c].step \notin {"run", "close"}

At(c, step) == cycle[c].step = step /\ hand[ThreadOf(c)] = NoDoc

Put(t, doc)    == hand' = [hand EXCEPT ![t] = doc]
Without(p)     == [pending EXCEPT ![p] = NoEntry]
Remove(t, p)   == IF pending[p] = NoEntry THEN UNCHANGED hand ELSE Put(t, Without(p))

Save(t) ==
  /\ hand[t] # NoDoc
  /\ pending' = hand[t]
  /\ hand' = [hand EXCEPT ![t] = NoDoc]
  /\ UNCHANGED <<cycle, enabled, timers, chat, restarts>>

-----------------------------------------------------------------------------
(* The chat and the admin, on the event loop                               *)

(* cancel_followup, called once a message has passed the prechecks.        *)
Message(p) ==
  /\ Free("loop")
  /\ Remove("loop", p)
  /\ chat' = [chat EXCEPT ![p].state = "asked", ![p].silence = 0]
  /\ UNCHANGED <<pending, cycle, enabled, timers, restarts>>

(* schedule_followup, called with most replies.                            *)
Reply(p) ==
  /\ Free("loop")
  /\ chat[p].state = "asked"
  /\ Put("loop", [pending EXCEPT ![p] = [age |-> 0, reminded |-> FALSE]])
  /\ chat' = [chat EXCEPT ![p].state = "answered", ![p].reminders = 0]
  /\ UNCHANGED <<pending, cycle, enabled, timers, restarts>>

Forgotten(c) == [c EXCEPT !.state = IF @ = "answered" THEN "none" ELSE @]

Purge(p) ==
  /\ Free("loop")
  /\ Remove("loop", p)
  /\ chat' = [chat EXCEPT ![p] = Forgotten(@)]
  /\ UNCHANGED <<pending, cycle, enabled, timers, restarts>>

ClearAll ==
  /\ Free("loop")
  /\ Put("loop", [p \in Phone |-> NoEntry])
  /\ chat' = [p \in Phone |-> Forgotten(chat[p])]
  /\ UNCHANGED <<pending, cycle, enabled, timers, restarts>>

Switch ==
  /\ "switched off" \in Trouble
  /\ enabled' = ~enabled
  /\ UNCHANGED <<pending, hand, cycle, timers, chat, restarts>>

-----------------------------------------------------------------------------
(* A cycle                                                                 *)

Entries == {p \in Phone : pending[p] # NoEntry}

\* Mutation: the last minute of the grace period taken for late.
LateEarly(e) == e.age >= RemindAfter + Grace /\ e.age < CloseAfter

Late(e) == e.age > RemindAfter + Grace /\ e.age < CloseAfter

\* Mutation: whether the reminder was sent is not asked.
RemindableAgain(e) ==
  e.age \in RemindAfter..(RemindAfter + Grace) /\ e.age < CloseAfter

Remindable(e) ==
  e.age \in RemindAfter..(RemindAfter + Grace) /\ e.age < CloseAfter /\ ~e.reminded

\* Mutation: the deadline of the reminder taken for the one of the chat.
ExpiredEarly(e) == e.age > RemindAfter + Grace

Expired(e) == e.age >= CloseAfter

(* get_pending_followups makes both lists from one load.                   *)
Begin(c) ==
  /\ enabled
  /\ cycle[c].step = "idle"
  /\ Free(ThreadOf(c))
  /\ cycle' = [cycle EXCEPT ![c].step = "run",
                            ![c].drop = {p \in Entries : Late(pending[p])},
                            ![c].remind = {p \in Entries : Remindable(pending[p])}]
  /\ UNCHANGED <<pending, hand, enabled, timers, chat, restarts>>

(* drop_expired_followup looks at nothing but the phone.                   *)
Drop(c) ==
  /\ At(c, "run")
  /\ \E p \in cycle[c].drop :
       /\ Remove(ThreadOf(c), p)
       /\ cycle' = [cycle EXCEPT ![c].drop = @ \ {p}]
  /\ UNCHANGED <<pending, enabled, timers, chat, restarts>>

StartSend(c) ==
  /\ At(c, "run")
  /\ cycle[c].drop = {}
  /\ \E p \in cycle[c].remind :
       cycle' = [cycle EXCEPT ![c].step = "send", ![c].remind = @ \ {p}, ![c].phone = p]
  /\ UNCHANGED <<pending, hand, enabled, timers, chat, restarts>>

Deliver(c) ==
  /\ cycle[c].step = "send"
  /\ cycle' = [cycle EXCEPT ![c].step = "sent"]
  /\ chat' = [chat EXCEPT ![cycle[c].phone].reminders = IF @ = 2 THEN 2 ELSE @ + 1]
  /\ UNCHANGED <<pending, hand, enabled, timers, restarts>>

Running(c) == [cycle EXCEPT ![c].step = "run", ![c].phone = NoPhone]

(* No status 200, or an exception; the message may have been delivered.    *)
SendFails(c) ==
  /\ \/ cycle[c].step = "send"
     \/ cycle[c].step = "sent" /\ "answer lost" \in Trouble
  /\ Free(ThreadOf(c))
  /\ cycle' = Running(c)
  /\ UNCHANGED <<pending, hand, enabled, timers, chat, restarts>>

\* Mutation: marking an entry starts it anew.
MarkSentAnew(c) ==
  /\ cycle[c].step = "sent"
  /\ Free(ThreadOf(c))
  /\ LET p == cycle[c].phone
     IN  IF pending[p] = NoEntry
         THEN UNCHANGED hand
         ELSE Put(ThreadOf(c), [pending EXCEPT ![p].age = 0])
  /\ cycle' = Running(c)
  /\ UNCHANGED <<pending, enabled, timers, chat, restarts>>

(* mark_followup_sent marks the entry the phone has now.                   *)
MarkSent(c) ==
  /\ cycle[c].step = "sent"
  /\ Free(ThreadOf(c))
  /\ LET p == cycle[c].phone
     IN  IF pending[p] = NoEntry
         THEN UNCHANGED hand
         ELSE Put(ThreadOf(c), [pending EXCEPT ![p].reminded = TRUE])
  /\ cycle' = Running(c)
  /\ UNCHANGED <<pending, enabled, timers, chat, restarts>>

(* get_expired_followups                                                   *)
FindExpired(c) ==
  /\ At(c, "run")
  /\ cycle[c].drop = {} /\ cycle[c].remind = {}
  /\ cycle' = [cycle EXCEPT ![c].step = "close",
                            ![c].close = {p \in Entries : Expired(pending[p])}]
  /\ UNCHANGED <<pending, hand, enabled, timers, chat, restarts>>

(* The cleanup timer is started, then mark_followup_closed.                *)
Close(c) ==
  /\ At(c, "close")
  /\ \E p \in cycle[c].close :
       /\ timers' = timers \cup {p}
       /\ Remove(ThreadOf(c), p)
       /\ cycle' = [cycle EXCEPT ![c].close = @ \ {p}]
  /\ UNCHANGED <<pending, enabled, chat, restarts>>

(* save_last_followup_cycle                                                *)
Report(c) ==
  /\ At(c, "close")
  /\ cycle[c].close = {}
  /\ Put(ThreadOf(c), pending)
  /\ cycle' = [cycle EXCEPT ![c] = Idle]
  /\ UNCHANGED <<pending, enabled, timers, chat, restarts>>

(* The timer thread: conversation and flows of the chat are cleared.       *)
CleanUp(p) ==
  /\ p \in timers
  /\ timers' = timers \ {p}
  /\ chat' = [chat EXCEPT ![p] = Forgotten(@)]
  /\ UNCHANGED <<pending, hand, cycle, enabled, restarts>>

-----------------------------------------------------------------------------
(* Time and restarts                                                       *)

Older(n) == IF n < CloseAfter THEN n + 1 ELSE n

Aged(doc) ==
  [p \in Phone |-> IF doc[p] = NoEntry THEN NoEntry
                   ELSE [age |-> Older(doc[p].age), reminded |-> doc[p].reminded]]

Tick ==
  /\ pending' = Aged(pending)
  /\ hand' = [t \in Thread |-> IF hand[t] = NoDoc THEN NoDoc ELSE Aged(hand[t])]
  /\ chat' = [p \in Phone |-> [chat[p] EXCEPT !.silence = Older(@)]]
  /\ UNCHANGED <<cycle, enabled, timers, restarts>>

Restart ==
  /\ restarts < MaxRestarts
  /\ restarts' = restarts + 1
  /\ hand' = [t \in Thread |-> NoDoc]
  /\ cycle' = [c \in Cycle |-> Idle]
  /\ timers' = {}
  /\ chat' = [p \in Phone |-> [chat[p] EXCEPT !.state = IF @ = "asked" THEN "none" ELSE @]]
  /\ UNCHANGED <<pending, enabled>>

-----------------------------------------------------------------------------
Work(c) ==
  \/ Begin(c) \/ Drop(c) \/ StartSend(c) \/ Deliver(c) \/ SendFails(c)
  \/ MarkSent(c) \/ FindExpired(c) \/ Close(c) \/ Report(c)

Next ==
  \/ \E t \in Thread : Save(t)
  \/ \E p \in Phone : Message(p) \/ Reply(p) \/ Purge(p) \/ CleanUp(p)
  \/ ClearAll
  \/ Switch
  \/ \E c \in Cycle : Work(c)
  \/ Tick
  \/ Restart

Spec == Init /\ [][Next]_vars

(* Time passes, a started save and a started timer come to an end, and the *)
(* scheduler goes on starting its job.  Nobody need call the route.        *)
FairSpec ==
  /\ Spec
  /\ WF_vars(Tick)
  /\ \A t \in Thread : WF_vars(Save(t))
  /\ \A p \in Phone : WF_vars(CleanUp(p))
  /\ \A j \in Job : WF_vars(Work(j))

-----------------------------------------------------------------------------
(* Properties                                                              *)

\* A chat is only given up for cleanup when no message of its customer has
\* been handled for CloseAfter minutes, whatever else the cycle awaited since
\* it started.
ClosesOnlySilent ==
  [][\A p \in timers' \ timers : chat[p].silence >= CloseAfter]_vars

\* Until its reminder is overdue, the entry of a chat that stays unanswered is
\* only removed because the chat is closed: what a cycle drops was late, and
\* still is when the document without it is saved.
DropsOnlyLate ==
  [][\A p \in Phone :
       /\ pending[p] # NoEntry /\ pending'[p] = NoEntry /\ chat[p].state = "answered"
       => p \in timers \/ pending[p].age > RemindAfter + Grace]_vars

\* One answered chat gets one reminder: a cycle that looks again within the
\* grace period finds the entry marked, even when messages, purges and the
\* switch come between the sending and the marking.
RemindsOnce ==
  \A p \in Phone : chat[p].reminders < 2

\* No entry stays for ever, although the loop and the job thread overwrite
\* each other's document and so can bring back what the other one removed.
EntriesLeave ==
  \A p \in Phone : pending[p] # NoEntry ~> pending[p] = NoEntry

\* The closing of a chat (followup_routes, the docstring of the job): the entry
\* of a chat that stays unanswered is only removed when the chat is closed.
UnansweredIsKept ==
  [][\A p \in Phone :
       pending[p] # NoEntry /\ pending'[p] = NoEntry /\ chat[p].state = "answered" =>
         p \in timers]_vars
=============================================================================
