----------------------------- MODULE ChatRoute ------------------------------
(***************************************************************************)
(* The way of one customer's messages through the program: the webhook,    *)
(* the /chat endpoint with its prechecks (routes/chat_routes, handlers/    *)
(* chat_precheck_handler), the stored conversation (services/conversation_ *)
(* store), the handover to staff (services/access_control_service) and the *)
(* transfer flow, which is the one dialogue that is modelled in full.      *)
(*                                                                         *)
(* The event loop runs the code between two awaits of a task without       *)
(* interruption; tasks of several messages take turns at the awaits.  The  *)
(* timers that close a conversation are threads and run at any time.       *)
(***************************************************************************)
EXTENDS TransferFlow

CONSTANTS
  Message,      \* message ids; an id no task has is used again: a bound
  Task,         \* messages that are handled at once: a bound
  MaxEpoch,     \* conversations that expire: a bound
  SweptEpoch,   \* the last conversation in which a sweep begins: a bound
  Happens,      \* what happens besides messages: a bound
  NoMessage

Happenings == {"restart", "purge", "staff", "close", "sweep"}

ASSUME HappensAssumption ==
  /\ Happens \subseteq Happenings /\ MaxEpoch \in Nat /\ SweptEpoch \in Nat
  /\ NoMessage \notin Message

VARIABLES
  task,         \* what the background task of a webhook call is doing
  ids,          \* message_ids.json
  answers,      \* replies sent for every message id
  chat,         \* the conversation file: none, in use, or past its expiry
  epoch,        \* how often a conversation has expired
  paused,       \* staff have the conversation (paused_conversations.json)
  sweep         \* the thread that rewrites the file of flows

messageVars == <<ids, answers>>
chatVars    == <<chat, epoch>>
vars == <<transferVars, task, messageVars, chatVars, paused, sweep>>

-----------------------------------------------------------------------------
Step == {"idle", "posted", "silenced", "checked", "calling staff", "booked",
         "announcing", "promised"}

(* late: the message arrived when staff had the conversation.  new: the    *)
(* prechecks found no history.  asked: the epoch they found.               *)
Job == [step : Step, msg : Message \cup {NoMessage}, late : BOOLEAN, new : BOOLEAN, asked : Nat]

NoSweep == [step |-> "none", copy |-> NoFlow]
Sweep   == [step : {"none", "closing", "clearing", "rewriting"}, copy : Flow \cup {NoFlow}]

Working == Step \ {"idle", "posted"}

TypeOK ==
  /\ flow \in Flow \cup {NoFlow}
  /\ flow # NoFlow => flow.state = Missing(flow.data) /\ flow.begun <= epoch
  /\ rows \in [Row -> Reservation \cup {NoRow}]
  /\ shown \in Full \cup {NoData} /\ undone \in BOOLEAN /\ relic \in BOOLEAN
  /\ task \in [Task -> Job]
  /\ ids \subseteq Message /\ answers \in [Message -> Nat]
  /\ chat \in {"none", "fresh", "old"} /\ epoch \in 0..MaxEpoch
  /\ paused \in BOOLEAN
  /\ sweep \in Sweep

Idle == [step |-> "idle", msg |-> NoMessage, late |-> FALSE,
         new |-> FALSE, asked |-> 0]

Init ==
  /\ TransferInit
  /\ task = [t \in Task |-> Idle]
  /\ ids = {} /\ answers = [m \in Message |-> 0]
  /\ chat = "none" /\ epoch = 0
  /\ paused = FALSE
  /\ sweep = NoSweep

At(t, step) == task[t].step = step

(* Between the row and the clearing of the flow there is no await.         *)
LoopFree == \A t \in Task : ~At(t, "booked")

(* What the prechecks found is not looked at again.                        *)
Becomes(t, step) ==
  task' = [task EXCEPT ![t].step = step, ![t].new = FALSE, ![t].asked = 0]
Ends(t)          == task' = [task EXCEPT ![t] = Idle]

-----------------------------------------------------------------------------
(* The conversation file                                                   *)

\* Mutation: the new row goes into the old conversation.
SaveMessageOnly ==
  /\ chat' = "fresh"
  /\ UNCHANGED <<transferVars, epoch>>

(* save_message: a conversation past its expiry starts afresh, and the     *)
(* flows of the old one are removed.                                       *)
SaveMessage ==
  /\ chat' = "fresh"
  /\ IF chat = "old" THEN Store(NoFlow) ELSE UNCHANGED transferVars
  /\ UNCHANGED epoch

(* The same when the handler has just stored f.                            *)
SaveAfter(f) ==
  /\ chat' = "fresh"
  /\ Store(IF chat = "old" THEN NoFlow ELSE f)
  /\ UNCHANGED epoch

(* get_conversation_history.                                               *)
LookBack ==
  /\ IF chat = "old" THEN Store(NoFlow) ELSE UNCHANGED transferVars
  /\ UNCHANGED chatVars

-----------------------------------------------------------------------------
(* A message arrives                                                       *)

(* WhatsApp delivers a message at least once; the webhook answers at once  *)
(* and leaves the message to a background task, which posts it to /chat.   *)
Deliver(t, m) ==
  /\ At(t, "idle")
  /\ task' = [task EXCEPT ![t] = [Idle EXCEPT !.step = "posted", !.msg = m, !.late = paused]]
  /\ UNCHANGED <<transferVars, messageVars, chatVars, paused, sweep>>

New(t) == At(t, "posted") /\ LoopFree /\ task[t].msg \notin ids

(* The id is marked before anything else is done with the message.         *)
Mark(t) == ids' = ids \cup {task[t].msg} /\ UNCHANGED answers

Duplicate(t) ==
  /\ At(t, "posted") /\ LoopFree /\ task[t].msg \in ids
  /\ Ends(t)
  /\ UNCHANGED <<transferVars, messageVars, chatVars, paused, sweep>>

(* Safe mode, or the automation is switched off: staff are told first.     *)
Silence(t) ==
  /\ New(t) /\ Mark(t)
  /\ Becomes(t, "silenced")
  /\ UNCHANGED <<transferVars, chatVars, paused, sweep>>

SaveSilenced(t) ==
  /\ At(t, "silenced") /\ LoopFree
  /\ SaveMessage
  /\ Ends(t)
  /\ UNCHANGED <<messageVars, paused, sweep>>

(* The rate limit, the blacklist, or staff have the conversation.          *)
Refuse(t) ==
  /\ New(t) /\ Mark(t)
  /\ SaveMessage
  /\ Ends(t)
  /\ UNCHANGED <<paused, sweep>>

\* Mutation: the id is marked when the answer is known.
PassUnmarked(t) ==
  /\ New(t) /\ UNCHANGED <<ids, answers>>
  /\ ~paused
  /\ LookBack
  /\ task' = [task EXCEPT ![t].step = "checked", ![t].new = (chat # "fresh"),
                          ![t].asked = epoch]
  /\ UNCHANGED <<paused, sweep>>

\* Mutation: staff's pause is not looked at.
PassPaused(t) ==
  /\ New(t) /\ Mark(t)
  /\ LookBack
  /\ task' = [task EXCEPT ![t].step = "checked", ![t].new = (chat # "fresh"),
                          ![t].asked = epoch]
  /\ UNCHANGED <<paused, sweep>>

(* Nothing stops the message: its follow-up is cancelled and the history   *)
(* is looked up.  From here on the task awaits.                            *)
Pass(t) ==
  /\ New(t) /\ Mark(t)
  /\ ~paused
  /\ LookBack
  /\ task' = [task EXCEPT ![t].step = "checked", ![t].new = (chat # "fresh"),
                          ![t].asked = epoch]
  /\ UNCHANGED <<paused, sweep>>

-----------------------------------------------------------------------------
(* The answer                                                              *)

Ready(t) == At(t, "checked") /\ LoopFree

(* The webhook task sends the reply, if it still waits for it.             *)
Reply(t) ==
  /\ answers' = [m \in Message |-> IF m = task[t].msg THEN answers[m] + 1 ELSE answers[m]]
  /\ UNCHANGED ids
  /\ Ends(t)

Answers(t) ==
  /\ SaveMessage
  /\ Reply(t)
  /\ UNCHANGED <<paused, sweep>>

(* The prechecks answer themselves: an operational rule, a suspicious      *)
(* message, an emergency.  A smaller worry is only written down.           *)
AnswerEarly(t) == Ready(t) /\ Answers(t)

Note(t) ==
  /\ Ready(t)
  /\ SaveMessage
  /\ UNCHANGED <<task, messageVars, paused, sweep>>

(* The dialogue that cancels a reservation does not save its replies.      *)
AnswerCancel(t) ==
  /\ Ready(t)
  /\ Reply(t)
  /\ UNCHANGED <<transferVars, chatVars, paused, sweep>>

(* Without a history every message is answered by the welcome.             *)
Welcome(t) == Ready(t) /\ task[t].new /\ Answers(t)

(* Another language, the policies, the season: whatever dialogue is open.  *)
AnswerAside(t) == Ready(t) /\ ~task[t].new /\ Answers(t)

(* The menu, the other dialogues, the closing words, OpenAI: not while the *)
(* transfer flow has the customer.                                         *)
AnswerOther(t) == Ready(t) /\ ~task[t].new /\ flow = NoFlow /\ Answers(t)

(* The answer of OpenAI says that staff will take over.                    *)
PromiseStaff(t) ==
  /\ Ready(t) /\ ~task[t].new /\ flow = NoFlow
  /\ SaveMessage
  /\ Becomes(t, "promised")
  /\ UNCHANGED <<messageVars, paused, sweep>>

(* activate_human_takeover.                                                *)
TakeOver == paused' = TRUE

KeepPromise(t) ==
  /\ At(t, "promised") /\ LoopFree
  /\ TakeOver
  /\ Reply(t)
  /\ UNCHANGED <<transferVars, chatVars, sweep>>

(* An operational rule or the unknown guard calls staff and then takes     *)
(* over; a request for staff takes over and then calls them.               *)
CallStaff(t) ==
  /\ Ready(t)
  /\ \/ UNCHANGED paused
     \/ ~task[t].new /\ flow = NoFlow /\ TakeOver
  /\ Becomes(t, "calling staff")
  /\ UNCHANGED <<transferVars, messageVars, chatVars, sweep>>

HandOver(t) ==
  /\ At(t, "calling staff") /\ LoopFree
  /\ TakeOver
  /\ SaveMessage
  /\ Reply(t)
  /\ UNCHANGED sweep

-----------------------------------------------------------------------------
(* The transfer flow                                                       *)

InTransfer(t) == Ready(t) /\ ~task[t].new

(* A turn stores the entry it leaves and answers.                          *)
TransferTurn(t) ==
  /\ InTransfer(t)
  /\ \E f \in Begun(epoch) \cup Told \cup CalledOff : SaveAfter(f)
  /\ Reply(t)
  /\ UNCHANGED <<paused, sweep>>

(* A turn that understands nothing puts its question again, without the    *)
(* summary.                                                                *)
AskAgain(t) == InTransfer(t) /\ flow # NoFlow /\ Answers(t)

Book(t) ==
  /\ InTransfer(t)
  /\ Create
  /\ Becomes(t, "booked")
  /\ UNCHANGED <<messageVars, chatVars, paused, sweep>>

(* The flow is cleared; then the admins are told.                          *)
ClearBooked(t) ==
  /\ At(t, "booked")
  /\ Store(NoFlow)
  /\ Becomes(t, "announcing")
  /\ UNCHANGED <<messageVars, chatVars, paused, sweep>>

AnswerBooked(t) == At(t, "announcing") /\ LoopFree /\ Answers(t)

-----------------------------------------------------------------------------
(* Threads that rewrite the file of flows                                  *)

(* The conversation is over: its file is removed, then every flow of it.   *)
CloseChat ==
  /\ "close" \in Happens
  /\ sweep = NoSweep
  /\ chat' = "none"
  /\ relic' = (flow # NoFlow)
  /\ sweep' = [sweep EXCEPT !.step = "closing"]
  /\ UNCHANGED <<flow, rows, shown, undone, task, messageVars, epoch, paused>>

CloseLoad ==
  /\ sweep.step = "closing"
  /\ sweep' = IF flow = NoFlow THEN NoSweep ELSE [sweep EXCEPT !.step = "clearing"]
  /\ UNCHANGED <<transferVars, task, messageVars, chatVars, paused>>

CloseSave ==
  /\ sweep.step = "clearing"
  /\ Store(NoFlow)
  /\ sweep' = NoSweep
  /\ UNCHANGED <<task, messageVars, chatVars, paused>>

(* The conversation of somebody else is over: the whole file is loaded and *)
(* saved without that flow.                                                *)
SweepLoad ==
  /\ "sweep" \in Happens /\ epoch <= SweptEpoch
  /\ sweep = NoSweep
  /\ sweep' = [step |-> "rewriting", copy |-> flow]
  /\ UNCHANGED <<transferVars, task, messageVars, chatVars, paused>>

SweepSave ==
  /\ sweep.step = "rewriting"
  /\ flow' = sweep.copy
  /\ undone' = (undone \/ flow # sweep.copy)
  /\ relic' = ((relic \/ flow # sweep.copy) /\ sweep.copy # NoFlow)
  /\ sweep' = NoSweep
  /\ UNCHANGED <<rows, shown, task, messageVars, chatVars, paused>>

-----------------------------------------------------------------------------
(* Staff                                                                   *)

Pause ==
  /\ "staff" \in Happens /\ LoopFree
  /\ TakeOver
  /\ UNCHANGED <<transferVars, task, messageVars, chatVars, sweep>>

(* The bot may answer again, also what has arrived before.                 *)
Resume ==
  /\ "staff" \in Happens /\ LoopFree
  /\ paused' = FALSE
  /\ task' = [t \in Task |-> [task[t] EXCEPT !.late = FALSE]]
  /\ UNCHANGED <<transferVars, messageVars, chatVars, sweep>>

(* The conversation file, the ids and the pause go; the transfer flow does *)
(* not.  A reply under way belongs to an id that is forgotten.             *)
Purge ==
  /\ "purge" \in Happens /\ LoopFree
  /\ paused' = FALSE
  /\ ids' = {} /\ answers' = [m \in Message |-> 0]
  /\ task' = [t \in Task |->
                IF task[t].step \in Working THEN [task[t] EXCEPT !.msg = NoMessage]
                ELSE [task[t] EXCEPT !.late = FALSE]]
  /\ chat' = "none"
  /\ relic' = (flow # NoFlow)
  /\ UNCHANGED <<flow, rows, shown, undone, epoch, sweep>>

Decide(r, status) ==
  /\ "staff" \in Happens /\ LoopFree
  /\ SetStatus(r, status)
  /\ UNCHANGED <<task, messageVars, chatVars, paused, sweep>>

-----------------------------------------------------------------------------
(* Time and restarts                                                       *)

Expire ==
  /\ chat = "fresh" /\ epoch < MaxEpoch
  /\ chat' = "old" /\ epoch' = epoch + 1
  /\ UNCHANGED <<transferVars, task, messageVars, paused, sweep>>

(* Two days without a message: the rows are not compared any more, and the *)
(* model takes their numbers again.                                        *)
TwoDaysPass ==
  /\ chat # "fresh" /\ sweep = NoSweep /\ \A t \in Task : At(t, "idle")
  /\ \E r \in Row : rows[r] # NoRow
  /\ rows' = [r \in Row |-> NoRow]
  /\ UNCHANGED <<flow, shown, marks, task, messageVars, chatVars, paused, sweep>>

(* What was in memory is gone; the files stay as they are.                 *)
Restart ==
  /\ "restart" \in Happens
  /\ task' = [t \in Task |-> Idle]
  /\ sweep' = NoSweep
  /\ UNCHANGED <<transferVars, messageVars, chatVars, paused>>

(* The name of a message that is done with stands for another one.         *)
Reuse(m) ==
  /\ m \in ids /\ \A t \in Task : ~At(t, "idle") => task[t].msg # m
  /\ ids' = ids \ {m} /\ answers' = [answers EXCEPT ![m] = 0]
  /\ UNCHANGED <<transferVars, task, chatVars, paused, sweep>>

-----------------------------------------------------------------------------
Turn(t) ==
  \/ Duplicate(t) \/ Silence(t) \/ SaveSilenced(t) \/ Refuse(t) \/ Pass(t)
  \/ AnswerEarly(t) \/ Note(t) \/ AnswerCancel(t)
  \/ Welcome(t) \/ AnswerAside(t) \/ AnswerOther(t)
  \/ PromiseStaff(t) \/ KeepPromise(t) \/ CallStaff(t) \/ HandOver(t)
  \/ TransferTurn(t) \/ AskAgain(t) \/ Book(t) \/ ClearBooked(t) \/ AnswerBooked(t)

Next ==
  \/ \E t \in Task, m \in Message : Deliver(t, m)
  \/ \E t \in Task : Turn(t)
  \/ CloseChat \/ CloseLoad \/ CloseSave \/ SweepLoad \/ SweepSave
  \/ Pause \/ Resume \/ Purge
  \/ \E r \in Row, status \in Decision : Decide(r, status)
  \/ Expire \/ TwoDaysPass \/ Restart
  \/ \E m \in Message : Reuse(m)

Spec == Init /\ [][Next]_vars
-----------------------------------------------------------------------------
(* Properties                                                              *)

\* A message id gets at most one reply, however often and however close to
\* each other WhatsApp delivers it, and although the process restarts between
\* any two steps: until the phone is purged or the id is pruned a day later.
AnsweredOnce == \A m \in Message : answers[m] <= 1

\* A message that arrives while staff have the conversation is not answered,
\* not even after a restart, until staff give the conversation back.
SilentForStaff ==
  \A t \in Task : task[t].late => task[t].step \in {"idle", "posted", "silenced"}

\* Two transfers that agree in the key are not made within 48 hours: not when
\* the process dies between the row and the clearing of the flow, and not when
\* a thread puts the booked flow back.
BookedOnce ==
  \A r, s \in Row :
    /\ rows[r] # NoRow /\ rows[s] # NoRow /\ r # s
    => Key(rows[r].made) # Key(rows[s].made)

\* What is booked is what the last summary showed, whatever was changed on the
\* way and whatever messages were handled at the same time, unless a thread
\* put an older flow into the file.
TransferIsAsShown ==
  [][\A r \in Row :
       rows[r] = NoRow /\ rows'[r] # NoRow => undone \/ rows'[r].made = shown]_vars

\* Nothing is booked from a flow of a conversation that had expired when the
\* message with the yes arrived, unless its file was removed before, or a
\* thread put the flow back.
ExpiredIsNotBooked ==
  [][\A t \in Task :
       ~At(t, "booked") /\ task'[t].step = "booked" =>
         relic \/ flow.begun >= task[t].asked]_vars
=============================================================================
