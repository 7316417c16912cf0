-------------------------- MODULE ChatRouteProofs ---------------------------
(***************************************************************************)
(* Proofs about the way of a message, for any messages, tasks, details of  *)
(* a transfer and conversations that expire.                               *)
(*                                                                         *)
(* The invariant has two halves.  MessageInv is about the tasks, the ids   *)
(* and the replies: a task that has passed its checks is the only one with *)
(* its id, and no reply was sent for it.  FlowInv is about the file of     *)
(* flows: what waits for a yes was shown, and belongs to the conversation  *)
(* that goes on unless it is marked as a relic.                            *)
(***************************************************************************)
EXTENDS ChatRoute, WellFoundedInduction, TLAPS

(* A stored flow asks for what is missing, and began not in the future.    *)
Sane(f) == f # NoFlow => f.state = Missing(f.data) /\ f.begun <= epoch

MessageType ==
  /\ task \in [Task -> Job] /\ paused \in BOOLEAN
  /\ ids \subseteq Message /\ answers \in [Message -> Nat]

FlowType ==
  /\ flow \in Flow \cup {NoFlow} /\ Sane(flow)
  /\ rows \in [Row -> Reservation \cup {NoRow}]
  /\ shown \in Full \cup {NoData} /\ undone \in BOOLEAN /\ relic \in BOOLEAN
  /\ chat \in {"none", "fresh", "old"} /\ epoch \in 0..MaxEpoch
  /\ sweep \in Sweep

IsWorking(t) == task[t].step \in Working /\ task[t].msg # NoMessage

(* A task at work is the only one with its id, which is marked and was not *)
(* answered.                                                               *)
OneTaskPerId ==
  /\ \A t \in Task : At(t, "posted") => task[t].msg # NoMessage
  /\ \A t \in Task : IsWorking(t) => task[t].msg \in ids /\ answers[task[t].msg] = 0
  /\ \A t, u \in Task :
       IsWorking(t) /\ IsWorking(u) /\ task[t].msg = task[u].msg => t = u
  /\ \A m \in Message : answers[m] > 0 => m \in ids

LateIsPaused == \A t \in Task : At(t, "posted") /\ task[t].late => paused

MessageInv ==
  MessageType /\ OneTaskPerId /\ AnsweredOnce /\ LateIsPaused /\ SilentForStaff

(* A flow that waits for the yes holds what was shown.                     *)
HoldsShown == flow # NoFlow /\ flow.state = "confirm" /\ ~undone => shown = flow.data

(* A flow of an earlier conversation is a relic, or about to be removed.   *)
OfThisChat == flow # NoFlow /\ ~relic /\ chat # "old" => flow.begun = epoch

NotBefore ==
  \A t \in Task : At(t, "checked") =>
    /\ task[t].asked <= epoch
    /\ flow # NoFlow /\ ~relic => flow.begun >= task[t].asked

FlowInv ==
  FlowType /\ Sane(sweep.copy) /\ HoldsShown /\ OfThisChat /\ BookedOnce

IInv == MessageInv /\ FlowInv /\ NotBefore

-----------------------------------------------------------------------------
(* The details of a transfer                                               *)

\* A set of numbers has a least one.
LEMMA LeastExists ==
  ASSUME NEW S \in SUBSET Nat, S # {}
  PROVE  \E i \in S : \A j \in S : i <= j
<1> DEFINE R == {ss \in Nat \X Nat : ss[1] < ss[2]}
<1>1. IsWellFoundedOn(R, Nat)
  BY NatLessThanWellFounded DEF OpToRel
<1>2. PICK x \in S : \A y \in S : ~(<<y, x>> \in R)
  <2> HIDE DEF R
  <2>. QED BY <1>1, WFMin
<1>3. ASSUME NEW j \in S PROVE x <= j
  <2>1. x \in Nat /\ j \in Nat /\ ~(<<j, x>> \in R)
    BY <1>2
  <2>2. <<j, x>> \in R <=> j < x
    BY <2>1
  <2>. QED BY <2>1, <2>2
<1>. QED BY <1>3

\* The question is for a missing detail; the yes is asked for when none is.
LEMMA MissingType ==
  ASSUME NEW x \in Data
  PROVE  /\ Missing(x) \in Field \cup {"confirm"}
         /\ Missing(x) = "confirm" => x \in Full
<1>1. CASE \E f \in Field : x[f] = NoValue
  <2> DEFINE S == {i \in DOMAIN Asked : x[Asked[i]] = NoValue}
             P(i) == /\ x[Asked[i]] = NoValue
                     /\ \A j \in DOMAIN Asked : x[Asked[j]] = NoValue => i <= j
  <2>1. S # {} /\ S \in SUBSET Nat
    BY <1>1, TransferAssumption DEF Field
  <2>2. \E i \in S : \A j \in S : i <= j
    BY <2>1, LeastExists
  <2>3. \E i \in DOMAIN Asked : P(i)
    BY <2>2
  <2>4. (CHOOSE i \in DOMAIN Asked : P(i)) \in DOMAIN Asked
    BY <2>3
  <2>5. Missing(x) = Asked[CHOOSE i \in DOMAIN Asked : P(i)]
    BY <1>1 DEF Missing
  <2> HIDE DEF P
  <2>. QED BY <2>4, <2>5, TransferAssumption DEF Field
<1>2. CASE ~ \E f \in Field : x[f] = NoValue
  BY <1>2 DEF Missing, Data, Full
<1>. QED BY <1>1, <1>2

LEMMA MergedType ==
  ASSUME NEW x \in Data, NEW h \in Data
  PROVE  Merged(x, h) \in Data
BY DEF Merged, Data

LEMMA BlankType == Blank \in Data
BY DEF Blank, Data

LEMMA EntryType ==
  ASSUME NEW x \in Data, NEW n \in Nat
  PROVE  /\ Entry(x, n) \in Flow
         /\ Entry(x, n).state = Missing(Entry(x, n).data)
         /\ Entry(x, n).begun = n
BY MissingType DEF Entry, Flow

LEMMA Names == /\ NoFlow \notin Flow /\ NoRow \notin Reservation /\ NoData \notin Full
               /\ NoMessage \notin Message /\ NoValue \notin Value
BY TransferAssumption, HappensAssumption DEF Full, Data

\* What a turn of the handler may leave in the file.
Left == Begun(epoch) \cup Told \cup CalledOff

LEMMA LeftType ==
  ASSUME FlowType, NEW f \in Left
  PROVE  \/ f = NoFlow
         \/ /\ f \in Flow /\ Sane(f)
            /\ f.begun = epoch \/ (flow # NoFlow /\ f.begun = flow.begun)
<1>1. epoch \in Nat
  BY HappensAssumption DEF FlowType
<1>2. CASE f \in Begun(epoch)
  BY <1>1, <1>2, BlankType, EntryType DEF Begun, Sane
<1>3. CASE f \in Told
  <2>1. flow \in Flow /\ flow.data \in Data /\ flow.begun \in Nat /\ flow # NoFlow
    BY <1>3 DEF Told, FlowType, Flow
  <2>2. CASE f = flow
    BY <2>1, <2>2 DEF FlowType
  <2>3. CASE f # flow
    <3>1. PICK h \in Said : f = Entry(Merged(flow.data, h), flow.begun)
      BY <1>3, <2>1, <2>3 DEF Told
    <3>2. Merged(flow.data, h) \in Data
      BY <2>1, MergedType, TransferAssumption
    <3>3. flow.begun <= epoch
      BY <2>1 DEF FlowType, Sane
    <3>. QED BY <2>1, <3>1, <3>2, <3>3, EntryType DEF Sane
  <2>. QED BY <2>2, <2>3
<1>4. CASE f \in CalledOff
  BY <1>4 DEF CalledOff
<1>. QED BY <1>2, <1>3, <1>4 DEF Left

-----------------------------------------------------------------------------
(* The tasks, the ids and the replies                                      *)

(* What a turn does to its task.                                           *)
Turns(t, j) == task' = [task EXCEPT ![t] = j]

Drops(t) == Turns(t, Idle) /\ UNCHANGED messageVars

(* The id is marked, and the message goes no further or to be checked.     *)
Takes(t, j) ==
  /\ At(t, "posted") /\ task[t].msg \notin ids /\ Mark(t)
  /\ Turns(t, j) /\ j \in Job
  /\ \/ j = Idle
     \/ /\ j.step \in {"silenced", "checked"}
        /\ j.msg = task[t].msg /\ j.late = task[t].late
        /\ j.step = "checked" => ~paused

Answering == Working \ {"silenced"}

(* The answer is awaited for one more step.                                *)
GoesOn(t, j) ==
  /\ task[t].step \in Answering
  /\ Turns(t, j) /\ j \in Job
  /\ j.step \in Working /\ j.msg = task[t].msg /\ j.late = task[t].late
  /\ UNCHANGED messageVars

Replies(t) == task[t].step \in Answering /\ Reply(t)

Pausing == paused' \in BOOLEAN /\ (paused => paused')

MessageMoves(t) ==
  /\ Pausing
  /\ Drops(t) \/ Replies(t) \/ \E j \in Job : Takes(t, j) \/ GoesOn(t, j)

LEMMA IdleType == Idle \in Job /\ Idle.step = "idle" /\ Idle.msg = NoMessage /\ ~Idle.late
BY DEF Idle, Job, Step

LEMMA JobType ==
  ASSUME MessageType, NEW t \in Task
  PROVE  task[t] \in Job
BY DEF MessageType

\* A task that is dropped forgets its message.
LEMMA DropsKeep ==
  ASSUME MessageInv, NEW t \in Task, Drops(t), Pausing
  PROVE  MessageInv'
<1>1. /\ task' = [task EXCEPT ![t] = Idle] /\ UNCHANGED <<ids, answers>>
      /\ task \in [Task -> Job]
  BY DEF Drops, Turns, messageVars, MessageInv, MessageType
<1>2. \A u \in Task : task'[u] = task[u] \/ task'[u] = Idle
  BY <1>1
<1>3. MessageType'
  BY <1>1, IdleType DEF MessageInv, MessageType, Pausing
<1>4. OneTaskPerId'
  BY <1>1, <1>2, IdleType DEF MessageInv, OneTaskPerId, At, IsWorking, Working
<1>5. AnsweredOnce' /\ LateIsPaused' /\ SilentForStaff'
  BY <1>1, <1>2, IdleType DEF MessageInv, AnsweredOnce, LateIsPaused, SilentForStaff, At, Pausing
<1>. QED BY <1>3, <1>4, <1>5 DEF MessageInv

\* A marked message was marked by nobody else.
LEMMA TakesKeep ==
  ASSUME MessageInv, NEW t \in Task, NEW j \in Job, Takes(t, j), Pausing
  PROVE  MessageInv'
<1>1. /\ task \in [Task -> Job] /\ task' = [task EXCEPT ![t] = j]
      /\ ids' = ids \cup {task[t].msg} /\ answers' = answers
      /\ At(t, "posted") /\ task[t].msg \notin ids
  BY DEF Takes, Turns, Mark, MessageInv, MessageType
<1>2. task[t].msg # NoMessage /\ task[t].msg \in Message
  BY <1>1 DEF MessageInv, OneTaskPerId, MessageType, Job
<1>3. answers[task[t].msg] = 0
  BY <1>1, <1>2 DEF MessageInv, OneTaskPerId, MessageType
<1>4. task'[t] = j /\ \A u \in Task \ {t} : task'[u] = task[u]
  BY <1>1
<1>5. \/ j = Idle
      \/ /\ j.step \in {"silenced", "checked"}
         /\ j.msg = task[t].msg /\ j.late = task[t].late
         /\ j.step = "checked" => ~paused
  BY DEF Takes
<1>6. MessageType'
  BY <1>1, <1>2 DEF MessageInv, MessageType, Pausing
<1>7. OneTaskPerId'
  BY <1>1, <1>2, <1>3, <1>4, <1>5, IdleType DEF MessageInv, OneTaskPerId, At, IsWorking, Working
<1>8. AnsweredOnce' /\ LateIsPaused' /\ SilentForStaff'
  BY <1>1, <1>4, <1>5, IdleType DEF MessageInv, AnsweredOnce, LateIsPaused, SilentForStaff, At, Pausing
<1>. QED BY <1>6, <1>7, <1>8 DEF MessageInv

LEMMA GoesOnKeeps ==
  ASSUME MessageInv, NEW t \in Task, NEW j \in Job, GoesOn(t, j), Pausing
  PROVE  MessageInv'
<1>1. /\ task \in [Task -> Job] /\ task' = [task EXCEPT ![t] = j]
      /\ UNCHANGED <<ids, answers>>
      /\ task[t].step \in Answering /\ j.step \in Working
      /\ j.msg = task[t].msg /\ j.late = task[t].late
  BY DEF GoesOn, Turns, messageVars, MessageInv, MessageType
<1>2. task'[t] = j /\ \A u \in Task \ {t} : task'[u] = task[u]
  BY <1>1
<1>3. MessageType'
  BY <1>1 DEF MessageInv, MessageType, Pausing
<1>4. OneTaskPerId'
  BY <1>1, <1>2 DEF MessageInv, OneTaskPerId, At, IsWorking, Working, Answering
<1>5. ~task[t].late
  BY <1>1 DEF MessageInv, SilentForStaff, Answering, Working, Step
<1>6. AnsweredOnce' /\ LateIsPaused' /\ SilentForStaff'
  BY <1>1, <1>2, <1>5 DEF MessageInv, AnsweredOnce, LateIsPaused, SilentForStaff, At, Pausing, Working
<1>. QED BY <1>3, <1>4, <1>6 DEF MessageInv

\* The one task of an id replies, and forgets the message.
LEMMA RepliesKeep ==
  ASSUME MessageInv, NEW t \in Task, Replies(t), Pausing
  PROVE  MessageInv'
<1> DEFINE m == task[t].msg
<1>1. /\ task \in [Task -> Job] /\ answers \in [Message -> Nat]
      /\ task' = [task EXCEPT ![t] = Idle] /\ ids' = ids
      /\ answers' = [k \in Message |-> IF k = m THEN answers[k] + 1 ELSE answers[k]]
      /\ task[t].step \in Working
  BY DEF Replies, Reply, Ends, MessageInv, MessageType, Answering
<1>2. task'[t] = Idle /\ \A u \in Task \ {t} : task'[u] = task[u]
  BY <1>1
<1>3. m \in Message => /\ IsWorking(t) /\ m \in ids /\ answers[m] = 0
                       /\ \A u \in Task \ {t} : IsWorking(u) => task[u].msg # m
  BY <1>1, Names DEF MessageInv, OneTaskPerId, IsWorking
<1> HIDE DEF m
<1>4. MessageType'
  BY <1>1, IdleType DEF MessageInv, MessageType, Pausing
<1>5. \A k \in Message \ {m} : answers'[k] = answers[k]
  BY <1>1
<1>6. m \in Message => answers'[m] = 1
  BY <1>1, <1>3
<1>7. \A u \in Task : IsWorking(u)' => u # t /\ IsWorking(u)
  BY <1>2, IdleType DEF IsWorking
<1>8. OneTaskPerId'
  <2>1. \A u \in Task : At(u, "posted")' => task'[u].msg # NoMessage
    BY <1>2, IdleType DEF MessageInv, OneTaskPerId, At
  <2>2. \A u \in Task : IsWorking(u)' => task'[u].msg \in ids' /\ answers'[task'[u].msg] = 0
    <3> SUFFICES ASSUME NEW u \in Task, IsWorking(u)'
                 PROVE  task'[u].msg \in ids' /\ answers'[task'[u].msg] = 0
      OBVIOUS
    <3>1. IsWorking(u) /\ u # t /\ task'[u] = task[u]
      BY <1>2, <1>7
    <3>2. task[u].msg \in Message /\ task[u].msg # m
      BY <1>1, <1>3, <3>1 DEF IsWorking, Job
    <3>. QED BY <1>1, <1>5, <3>1, <3>2 DEF MessageInv, OneTaskPerId
  <2>3. \A u, v \in Task : IsWorking(u)' /\ IsWorking(v)' /\ task'[u].msg = task'[v].msg => u = v
    BY <1>2, <1>7 DEF MessageInv, OneTaskPerId
  <2>4. \A k \in Message : answers'[k] > 0 => k \in ids'
    BY <1>1, <1>3, <1>5 DEF MessageInv, OneTaskPerId
  <2>. QED BY <2>1, <2>2, <2>3, <2>4 DEF OneTaskPerId
<1>9. AnsweredOnce'
  BY <1>5, <1>6 DEF MessageInv, AnsweredOnce
<1>10. LateIsPaused' /\ SilentForStaff'
  BY <1>2, IdleType DEF MessageInv, LateIsPaused, SilentForStaff, At, Pausing
<1>. QED BY <1>4, <1>8, <1>9, <1>10 DEF MessageInv

LEMMA MessageMovesKeep == \A t \in Task : MessageInv /\ MessageMoves(t) => MessageInv'
BY DropsKeep, TakesKeep, GoesOnKeeps, RepliesKeep DEF MessageMoves

-----------------------------------------------------------------------------
(* Every turn moves its task in one of these ways.                         *)

LEMMA BecomesType ==
  ASSUME MessageType, NEW t \in Task, NEW s \in Step, Becomes(t, s)
  PROVE  \E j \in Job : Turns(t, j) /\ j.step = s /\ j.msg = task[t].msg /\ j.late = task[t].late
<1> DEFINE j == [task[t] EXCEPT !.step = s, !.new = FALSE, !.asked = 0]
<1>1. task[t] \in Job
  BY JobType
<1>2. j \in Job /\ j.step = s /\ j.msg = task[t].msg /\ j.late = task[t].late
  BY <1>1 DEF Job
<1>3. Turns(t, j)
  BY <1>1 DEF Becomes, Turns, MessageType
<1>. QED BY <1>2, <1>3

LEMMA PausingHere ==
  MessageType => /\ UNCHANGED paused => Pausing
                 /\ TakeOver => Pausing
BY DEF MessageType, Pausing, TakeOver

LEMMA TurnMoves == \A t \in Task : MessageInv /\ FlowType /\ Turn(t) => MessageMoves(t)
<1> SUFFICES ASSUME NEW t \in Task, MessageInv, FlowType, Turn(t) PROVE MessageMoves(t)
  OBVIOUS
<1>0. MessageType
  BY DEF MessageInv
<1>1. CASE Duplicate(t) \/ SaveSilenced(t)
  BY <1>0, <1>1, PausingHere DEF Duplicate, SaveSilenced, Ends, MessageMoves, Drops, Turns
<1>2. CASE Silence(t)
  <2>1. Becomes(t, "silenced") /\ "silenced" \in Step /\ New(t) /\ Mark(t) /\ UNCHANGED paused
    BY <1>2 DEF Silence, Step
  <2>. QED BY <1>0, <2>1, BecomesType, PausingHere DEF New, MessageMoves, Takes
<1>3. CASE Refuse(t)
  BY <1>0, <1>3, PausingHere, IdleType DEF Refuse, New, Ends, MessageMoves, Takes, Turns
<1>4. CASE Pass(t)
  <2> DEFINE j == [task[t] EXCEPT !.step = "checked", !.new = (chat # "fresh"), !.asked = epoch]
  <2>1. New(t) /\ Mark(t) /\ ~paused /\ UNCHANGED paused
    BY <1>4 DEF Pass
  <2>2. Turns(t, j)
    BY <1>0, <1>4 DEF Pass, Turns, MessageType
  <2>3. j.step = "checked" /\ j.msg = task[t].msg /\ j.late = task[t].late
    BY <1>0, JobType DEF Job
  <2>4. j \in Job
    <3>1. epoch \in Nat /\ task[t] \in Job
      BY <1>0, JobType, HappensAssumption DEF FlowType
    <3>. QED BY <3>1 DEF Job, Step
  <2> HIDE DEF j
  <2>5. Takes(t, j)
    BY <2>1, <2>2, <2>3, <2>4 DEF New, Takes
  <2>. QED BY <1>0, <2>1, <2>4, <2>5, PausingHere DEF MessageMoves
<1>5. CASE AnswerEarly(t) \/ AnswerCancel(t) \/ Welcome(t) \/ AnswerAside(t) \/ AnswerOther(t)
           \/ TransferTurn(t) \/ AskAgain(t) \/ AnswerBooked(t) \/ KeepPromise(t) \/ HandOver(t)
  <2>1. Reply(t) /\ Pausing
    BY <1>0, <1>5, PausingHere
    DEF AnswerEarly, AnswerCancel, Welcome, AnswerAside, AnswerOther, TransferTurn, AskAgain,
        AnswerBooked, KeepPromise, HandOver, Answers
  <2>2. task[t].step \in {"checked", "announcing", "promised", "calling staff"}
    BY <1>5
    DEF AnswerEarly, AnswerCancel, Welcome, AnswerAside, AnswerOther, TransferTurn, AskAgain,
        AnswerBooked, KeepPromise, HandOver, InTransfer, Ready, At
  <2>. QED BY <2>1, <2>2 DEF MessageMoves, Replies, Answering, Working, Step
<1>6. CASE Note(t)
  <2>1. UNCHANGED <<task, messageVars, paused>> /\ At(t, "checked")
    BY <1>6 DEF Note, Ready
  <2>2. Turns(t, task[t]) /\ task[t] \in Job
    BY <1>0, <2>1, JobType DEF Turns, MessageType
  <2>3. GoesOn(t, task[t])
    BY <2>1, <2>2 DEF GoesOn, At, Answering, Working, Step
  <2>. QED BY <1>0, <2>1, <2>2, <2>3, PausingHere DEF MessageMoves
<1>7. ASSUME NEW k \in {"promised", "calling staff", "booked", "announcing"},
             Becomes(t, k), Pausing, UNCHANGED messageVars, task[t].step \in {"checked", "booked"}
      PROVE  MessageMoves(t)
  <2>1. k \in Step /\ k \in Working /\ task[t].step \in Answering
    BY <1>7 DEF Step, Working, Answering
  <2>2. PICK j \in Job : Turns(t, j) /\ j.step = k /\ j.msg = task[t].msg /\ j.late = task[t].late
    BY <1>0, <1>7, <2>1, BecomesType
  <2>3. GoesOn(t, j)
    BY <1>7, <2>1, <2>2 DEF GoesOn
  <2>. QED BY <1>7, <2>3 DEF MessageMoves
<1>8. CASE PromiseStaff(t) \/ CallStaff(t) \/ Book(t) \/ ClearBooked(t)
  <2>1. UNCHANGED messageVars /\ Pausing /\ task[t].step \in {"checked", "booked"}
    BY <1>0, <1>8, PausingHere
    DEF PromiseStaff, CallStaff, Book, ClearBooked, InTransfer, Ready, At
  <2>2. \/ Becomes(t, "promised") \/ Becomes(t, "calling staff")
        \/ Becomes(t, "booked") \/ Becomes(t, "announcing")
    BY <1>8 DEF PromiseStaff, CallStaff, Book, ClearBooked
  <2>. QED BY <1>7, <2>1, <2>2
<1>. QED BY <1>1, <1>2, <1>3, <1>4, <1>5, <1>6, <1>8 DEF Turn

-----------------------------------------------------------------------------
(* What happens besides.                                                   *)

LEMMA DeliverKeeps == \A t \in Task, m \in Message : MessageInv /\ Deliver(t, m) => MessageInv'
<1> SUFFICES ASSUME NEW t \in Task, NEW m \in Message, MessageInv, Deliver(t, m) PROVE MessageInv'
  OBVIOUS
<1> DEFINE j == [Idle EXCEPT !.step = "posted", !.msg = m, !.late = paused]
<1>1. /\ task \in [Task -> Job] /\ task' = [task EXCEPT ![t] = j]
      /\ UNCHANGED <<ids, answers, paused>>
  BY DEF Deliver, MessageInv, MessageType, messageVars
<1>2. j \in Job /\ j.step = "posted" /\ j.msg = m /\ j.late = paused
  BY DEF MessageInv, MessageType, Idle, Job, Step
<1> HIDE DEF j
<1>3. task'[t] = j /\ \A u \in Task \ {t} : task'[u] = task[u]
  BY <1>1
<1>4. MessageType'
  BY <1>1, <1>2 DEF MessageInv, MessageType
<1>5. OneTaskPerId'
  BY <1>1, <1>2, <1>3, Names DEF MessageInv, OneTaskPerId, At, IsWorking, Working
<1>6. AnsweredOnce' /\ LateIsPaused' /\ SilentForStaff'
  BY <1>1, <1>2, <1>3 DEF MessageInv, AnsweredOnce, LateIsPaused, SilentForStaff, At
<1>. QED BY <1>4, <1>5, <1>6 DEF MessageInv

\* A restart drops every task.
LEMMA RestartKeepsMessages == MessageInv /\ Restart => MessageInv'
<1> SUFFICES ASSUME MessageInv, Restart PROVE MessageInv'
  OBVIOUS
<1>1. task' = [t \in Task |-> Idle] /\ UNCHANGED <<ids, answers, paused>>
  BY DEF Restart, messageVars
<1>2. \A t \in Task : task'[t] = Idle
  BY <1>1
<1>3. MessageType'
  BY <1>1, IdleType DEF MessageInv, MessageType
<1>4. OneTaskPerId'
  BY <1>1, <1>2, IdleType DEF MessageInv, OneTaskPerId, IsWorking, At
<1>5. AnsweredOnce' /\ LateIsPaused' /\ SilentForStaff'
  BY <1>1, <1>2, IdleType DEF MessageInv, AnsweredOnce, LateIsPaused, SilentForStaff, At
<1>. QED BY <1>3, <1>4, <1>5 DEF MessageInv

LEMMA ResumeKeeps == MessageInv /\ Resume => MessageInv'
<1> SUFFICES ASSUME MessageInv, Resume PROVE MessageInv'
  OBVIOUS
<1>1. /\ UNCHANGED <<ids, answers>> /\ paused' = FALSE
      /\ task' = [t \in Task |-> [task[t] EXCEPT !.late = FALSE]]
  BY DEF Resume, messageVars
<1>2. \A t \in Task : /\ task'[t] \in Job /\ task'[t].step = task[t].step
                      /\ task'[t].msg = task[t].msg /\ ~task'[t].late
  BY <1>1, JobType DEF MessageInv, Job
<1>3. MessageType'
  BY <1>1, <1>2 DEF MessageInv, MessageType
<1>4. OneTaskPerId'
  <2>1. \A t \in Task : /\ IsWorking(t)' <=> IsWorking(t)
                        /\ At(t, "posted")' <=> At(t, "posted")
    BY <1>2 DEF IsWorking, At
  <2>. QED BY <1>1, <1>2, <2>1 DEF MessageInv, OneTaskPerId
<1>. QED BY <1>1, <1>2, <1>3, <1>4 DEF MessageInv, AnsweredOnce, LateIsPaused, SilentForStaff

\* The purge forgets the ids; what is at work has none any more.
LEMMA PurgeKeepsMessages == MessageInv /\ Purge => MessageInv'
<1> SUFFICES ASSUME MessageInv, Purge PROVE MessageInv'
  OBVIOUS
<1>1. /\ ids' = {} /\ answers' = [m \in Message |-> 0] /\ paused' = FALSE
      /\ task' = [t \in Task |->
                    IF task[t].step \in Working THEN [task[t] EXCEPT !.msg = NoMessage]
                    ELSE [task[t] EXCEPT !.late = FALSE]]
  BY DEF Purge
<1>2. \A t \in Task : task'[t] = IF task[t].step \in Working THEN [task[t] EXCEPT !.msg = NoMessage]
                                 ELSE [task[t] EXCEPT !.late = FALSE]
  BY <1>1
<1>3. ASSUME NEW t \in Task
      PROVE  /\ task'[t] \in Job /\ task'[t].step = task[t].step
             /\ task[t].step \in Working => task'[t].msg = NoMessage /\ task'[t].late = task[t].late
             /\ task[t].step \notin Working => task'[t].msg = task[t].msg /\ ~task'[t].late
  <2>1. task[t] \in Job
    BY JobType DEF MessageInv
  <2>. QED BY <1>2, <2>1 DEF Job
<1>4. MessageType'
  BY <1>1, <1>3 DEF MessageInv, MessageType
<1>5. OneTaskPerId'
  BY <1>1, <1>3 DEF MessageInv, OneTaskPerId, IsWorking, At, Working
<1>6. AnsweredOnce' /\ LateIsPaused' /\ SilentForStaff'
  BY <1>1, <1>3 DEF MessageInv, AnsweredOnce, LateIsPaused, SilentForStaff, At, Working
<1>. QED BY <1>4, <1>5, <1>6 DEF MessageInv

LEMMA ReuseKeeps == \A m \in Message : MessageInv /\ Reuse(m) => MessageInv'
<1> SUFFICES ASSUME NEW m \in Message, MessageInv, Reuse(m) PROVE MessageInv'
  OBVIOUS
<1>1. /\ \A t \in Task : ~At(t, "idle") => task[t].msg # m
      /\ ids' = ids \ {m} /\ answers' = [answers EXCEPT ![m] = 0]
      /\ UNCHANGED <<task, paused>>
  BY DEF Reuse
<1>2. MessageType'
  BY <1>1 DEF MessageInv, MessageType
<1>3. /\ answers \in [Message -> Nat] /\ answers'[m] = 0
      /\ \A k \in Message \ {m} : answers'[k] = answers[k]
  BY <1>1 DEF MessageInv, MessageType
<1>4. \A t \in Task : IsWorking(t) => task[t].msg \in Message \ {m}
  BY <1>1, JobType DEF MessageInv, IsWorking, Working, At, Job
<1>5. OneTaskPerId'
  <2>1. \A t \in Task : IsWorking(t) => task[t].msg \in ids' /\ answers'[task[t].msg] = 0
    BY <1>1, <1>3, <1>4 DEF MessageInv, OneTaskPerId
  <2>2. \A k \in Message : answers'[k] > 0 => k \in ids'
    BY <1>1, <1>3 DEF MessageInv, OneTaskPerId
  <2>. QED BY <1>1, <2>1, <2>2 DEF MessageInv, OneTaskPerId, IsWorking, At
<1>6. AnsweredOnce'
  BY <1>3 DEF MessageInv, AnsweredOnce
<1>7. LateIsPaused' /\ SilentForStaff'
  BY <1>1 DEF MessageInv, LateIsPaused, SilentForStaff, At
<1>. QED BY <1>2, <1>5, <1>6, <1>7 DEF MessageInv

\* The other steps leave the tasks alone, and staff may pause.
LEMMA PausingKeeps ==
  MessageInv /\ UNCHANGED <<task, messageVars>> /\ Pausing => MessageInv'
<1> SUFFICES ASSUME MessageInv, UNCHANGED <<task, messageVars>>, Pausing PROVE MessageInv'
  OBVIOUS
<1>1. UNCHANGED <<task, ids, answers>>
  BY DEF messageVars
<1>2. MessageType'
  BY <1>1 DEF MessageInv, MessageType, Pausing
<1>3. OneTaskPerId'
  BY <1>1 DEF MessageInv, OneTaskPerId, IsWorking, At
<1>4. AnsweredOnce' /\ LateIsPaused' /\ SilentForStaff'
  BY <1>1 DEF MessageInv, AnsweredOnce, LateIsPaused, SilentForStaff, At, Pausing
<1>. QED BY <1>2, <1>3, <1>4 DEF MessageInv

LEMMA NextKeepsMessages == MessageInv /\ FlowType /\ [Next]_vars => MessageInv'
<1> SUFFICES ASSUME MessageInv, FlowType, [Next]_vars PROVE MessageInv'
  OBVIOUS
<1>0. MessageType
  BY DEF MessageInv
<1>1. CASE \E t \in Task, m \in Message : Deliver(t, m)
  BY <1>1, DeliverKeeps
<1>2. CASE \E t \in Task : Turn(t)
  BY <1>2, TurnMoves, MessageMovesKeep
<1>3. CASE CloseChat \/ CloseLoad \/ CloseSave \/ SweepLoad \/ SweepSave \/ Pause
           \/ (\E r \in Row, status \in Decision : Decide(r, status)) \/ Expire \/ TwoDaysPass
           \/ UNCHANGED vars
  <2>1. UNCHANGED <<task, messageVars>>
    BY <1>3 DEF CloseChat, CloseLoad, CloseSave, SweepLoad, SweepSave, Pause, Decide, Expire,
                TwoDaysPass, vars
  <2>2. UNCHANGED paused \/ TakeOver
    BY <1>3 DEF CloseChat, CloseLoad, CloseSave, SweepLoad, SweepSave, Pause, Decide, Expire,
                TwoDaysPass, vars
  <2>. QED BY <1>0, <2>1, <2>2, PausingHere, PausingKeeps
<1>4. CASE Resume \/ Purge \/ Restart \/ \E m \in Message : Reuse(m)
  BY <1>4, ResumeKeeps, PurgeKeepsMessages, RestartKeepsMessages, ReuseKeeps
<1>. QED BY <1>1, <1>2, <1>3, <1>4 DEF Next

-----------------------------------------------------------------------------
(* The file of flows                                                       *)

(* What was stored by the message, or kept, or removed.                    *)
StoresOne ==
  \E f \in Left \cup {NoFlow} : Store(f) /\ (f # NoFlow => chat # "old")

Leaves == UNCHANGED <<flow, shown, undone, relic>>

(* Rows may change their status, or be too old to be compared.             *)
RowsLast ==
  /\ rows' \in [Row -> Reservation \cup {NoRow}]
  /\ \A r \in Row : rows'[r] # NoRow => rows[r] # NoRow /\ rows'[r].made = rows[r].made

(* The file of a conversation that goes on, or is begun afresh.            *)
ChatGoesOn ==
  /\ epoch' = epoch /\ chat' \in {chat, "fresh"}
  /\ chat = "old" /\ chat' = "fresh" => flow' = NoFlow

SweepGoesOn == sweep' \in Sweep /\ sweep'.copy \in {sweep.copy, flow, NoFlow}

FlowMoves == (StoresOne \/ Leaves) /\ RowsLast /\ ChatGoesOn /\ SweepGoesOn

\* What is in the file after a message, and what was shown of it.
LEMMA StoresOneType ==
  ASSUME FlowInv, StoresOne
  PROVE  /\ flow' \in Flow \cup {NoFlow} /\ (flow' # NoFlow => flow'.state = Missing(flow'.data) /\ flow'.begun <= epoch)
         /\ flow' # NoFlow =>
              /\ chat # "old"
              /\ flow'.begun = epoch \/ (flow # NoFlow /\ flow'.begun = flow.begun)
         /\ shown' \in Full \cup {NoData} /\ undone' = FALSE
         /\ relic' = (relic /\ flow' # NoFlow)
         /\ flow' # NoFlow /\ flow'.state = "confirm" => shown' = flow'.data
         /\ rows' = rows
<1>1. PICK f \in Left \cup {NoFlow} : Store(f) /\ (f # NoFlow => chat # "old")
  BY DEF StoresOne
<1>2. /\ flow' = f /\ undone' = FALSE /\ relic' = (relic /\ f # NoFlow) /\ rows' = rows
      /\ shown' = IF f = NoFlow THEN NoData
                  ELSE IF f.state = "confirm" THEN f.data ELSE NoData
  BY <1>1 DEF Store
<1>3. f # NoFlow => /\ f \in Flow /\ Sane(f)
                    /\ f.begun = epoch \/ (flow # NoFlow /\ f.begun = flow.begun)
  BY LeftType DEF FlowInv
<1>4. f # NoFlow /\ f.state = "confirm" => f.data \in Full
  BY <1>3, MissingType DEF Sane, Flow
<1>. QED BY <1>1, <1>2, <1>3, <1>4 DEF Sane

\* The rows that last are as different from each other as they were.
LEMMA RowsLastKeeps == BookedOnce /\ RowsLast => BookedOnce'
BY DEF BookedOnce, RowsLast, Key

LEMMA FlowMovesKeep == FlowInv /\ FlowMoves => FlowInv'
<1> SUFFICES ASSUME FlowInv, FlowMoves PROVE FlowInv'
  OBVIOUS
<1>1. RowsLast /\ ChatGoesOn /\ SweepGoesOn /\ FlowType /\ epoch' = epoch
  BY DEF FlowInv, FlowMoves, ChatGoesOn
<1>2. BookedOnce'
  BY <1>1, RowsLastKeeps DEF FlowInv
<1>3. Sane(sweep.copy)' /\ sweep' \in Sweep
  BY <1>1 DEF SweepGoesOn, FlowInv, FlowType, Sane
<1>4. CASE Leaves
  BY <1>1, <1>2, <1>3, <1>4
  DEF Leaves, FlowInv, FlowType, Sane, HoldsShown, OfThisChat, ChatGoesOn, RowsLast
<1>5. CASE StoresOne
  <2>1. FlowType'
    BY <1>1, <1>3, <1>5, StoresOneType DEF FlowType, Sane, ChatGoesOn, RowsLast
  <2>2. HoldsShown'
    BY <1>5, StoresOneType DEF HoldsShown
  <2>3. OfThisChat'
    BY <1>1, <1>5, StoresOneType DEF FlowInv, OfThisChat
  <2>. QED BY <1>2, <1>3, <2>1, <2>2, <2>3 DEF FlowInv
<1>. QED BY <1>4, <1>5 DEF FlowMoves

\* A conversation that has ended leaves its flow behind as a relic.
LEMMA OutlivesKeeps ==
  ASSUME FlowInv, chat' = "none", relic' = (flow # NoFlow), sweep' \in Sweep,
         sweep'.copy = sweep.copy, UNCHANGED <<flow, rows, shown, undone, epoch>>
  PROVE  FlowInv'
<1>1. FlowType'
  BY DEF FlowInv, FlowType, Sane
<1>2. Sane(sweep.copy)' /\ HoldsShown' /\ OfThisChat' /\ BookedOnce'
  BY DEF FlowInv, Sane, HoldsShown, OfThisChat, BookedOnce
<1>. QED BY <1>1, <1>2 DEF FlowInv

LEMMA ExpireKeepsFlow == FlowInv /\ Expire => FlowInv'
<1> SUFFICES ASSUME FlowInv, Expire PROVE FlowInv'
  OBVIOUS
<1>1. /\ chat' = "old" /\ epoch' = epoch + 1 /\ epoch < MaxEpoch
      /\ UNCHANGED <<flow, rows, shown, undone, relic, sweep>>
  BY DEF Expire, transferVars, marks
<1>2. epoch \in Nat /\ epoch' \in 0..MaxEpoch
  BY <1>1, HappensAssumption DEF FlowInv, FlowType
<1>3. ASSUME NEW f \in Flow \cup {NoFlow}, Sane(f)
      PROVE  f # NoFlow => f.state = Missing(f.data) /\ f.begun <= epoch'
  BY <1>1, <1>2, <1>3 DEF Sane, Flow
<1>4. FlowType'
  BY <1>1, <1>2, <1>3 DEF FlowInv, FlowType, Sane
<1>5. Sane(sweep.copy)'
  BY <1>1, <1>3 DEF FlowInv, FlowType, Sane, Sweep
<1>. QED BY <1>1, <1>4, <1>5 DEF FlowInv, HoldsShown, OfThisChat, BookedOnce

\* A thread puts its copy back, and what it overwrites is noted.
LEMMA SweepSaveKeepsFlow == FlowInv /\ SweepSave => FlowInv'
<1> SUFFICES ASSUME FlowInv, SweepSave PROVE FlowInv'
  OBVIOUS
<1>1. /\ flow' = sweep.copy /\ sweep' = NoSweep
      /\ undone' = (undone \/ flow # sweep.copy)
      /\ relic' = ((relic \/ flow # sweep.copy) /\ sweep.copy # NoFlow)
      /\ UNCHANGED <<rows, shown, chat, epoch>>
  BY DEF SweepSave, chatVars
<1>2. sweep.copy \in Flow \cup {NoFlow} /\ Sane(sweep.copy) /\ NoSweep \in Sweep /\ NoSweep.copy = NoFlow
  BY DEF FlowInv, FlowType, Sweep, NoSweep
<1>3. FlowType'
  BY <1>1, <1>2 DEF FlowInv, FlowType, Sane
<1>4. Sane(sweep.copy)'
  BY <1>1, <1>2 DEF Sane
<1>. QED BY <1>1, <1>3, <1>4 DEF FlowInv, HoldsShown, OfThisChat, BookedOnce

\* A row is made with details that no other row has.
LEMMA BookKeepsFlow == \A t \in Task : FlowInv /\ Book(t) => FlowInv'
<1> SUFFICES ASSUME NEW t \in Task, FlowInv, Book(t) PROVE FlowInv'
  OBVIOUS
<1>1. /\ Create /\ UNCHANGED <<flow, shown, undone, relic, chat, epoch, sweep>>
  BY DEF Book, Create, marks, chatVars
<1>2. /\ flow \in Flow /\ flow.data \in Full
  <2>1. flow \in Flow /\ flow.data \in Data /\ flow.state = "confirm" /\ flow.state = Missing(flow.data)
    BY <1>1 DEF Create, FlowInv, FlowType, Sane, Flow
  <2>. QED BY <2>1, MissingType
<1>3. CASE UNCHANGED rows
  <2>1. RowsLast
    BY <1>3 DEF FlowInv, FlowType, RowsLast
  <2>2. ChatGoesOn /\ SweepGoesOn /\ Leaves
    BY <1>1 DEF ChatGoesOn, SweepGoesOn, Leaves, FlowInv, FlowType
  <2>. QED BY <2>1, <2>2, FlowMovesKeep DEF FlowMoves
<1>4. CASE ~UNCHANGED rows
  <2> DEFINE new == [made |-> flow.data, status |-> "pending"]
  <2>1. PICK r \in Row : Duplicates(flow.data) = {} /\ rows[r] = NoRow /\ rows' = [rows EXCEPT ![r] = new]
    BY <1>1, <1>4 DEF Create
  <2>2. new \in Reservation /\ new.made = flow.data
    BY <1>2 DEF Reservation, TransferStatus
  <2> HIDE DEF new
  <2>3. rows \in [Row -> Reservation \cup {NoRow}] /\ rows'[r] = new /\ \A q \in Row \ {r} : rows'[q] = rows[q]
    BY <2>1 DEF FlowInv, FlowType
  <2>4. \A q \in Row \ {r} : rows'[q] # NoRow => Key(rows'[q].made) # Key(new.made)
    BY <2>1, <2>2, <2>3 DEF Duplicates
  <2>5. BookedOnce'
    BY <2>3, <2>4 DEF FlowInv, BookedOnce
  <2>6. FlowType'
    BY <1>1, <2>1, <2>2, <2>3 DEF FlowInv, FlowType, Sane
  <2>7. Sane(sweep.copy)' /\ HoldsShown' /\ OfThisChat'
    BY <1>1 DEF FlowInv, Sane, HoldsShown, OfThisChat
  <2>. QED BY <2>5, <2>6, <2>7 DEF FlowInv
<1>. QED BY <1>3, <1>4

-----------------------------------------------------------------------------
(* Every other step keeps the file as FlowMoves says.                      *)

LEMMA RowsStay ==
  ASSUME FlowType
  PROVE  /\ UNCHANGED rows => RowsLast
         /\ \A r \in Row, st \in Decision : SetStatus(r, st) => RowsLast
         /\ rows' = [r \in Row |-> NoRow] => RowsLast
<1>1. rows \in [Row -> Reservation \cup {NoRow}]
  BY DEF FlowType
<1>2. ASSUME UNCHANGED rows PROVE RowsLast
  BY <1>1, <1>2 DEF RowsLast
<1>3. ASSUME NEW r \in Row, NEW st \in Decision, SetStatus(r, st) PROVE RowsLast
  <2> DEFINE new == [rows[r] EXCEPT !.status = st]
  <2>1. rows[r] \in Reservation /\ rows[r] # NoRow /\ rows' = [rows EXCEPT ![r] = new]
    BY <1>1, <1>3 DEF SetStatus
  <2>2. new \in Reservation /\ new.made = rows[r].made
    BY <2>1, TransferAssumption DEF Reservation
  <2>. QED BY <1>1, <2>1, <2>2 DEF RowsLast
<1>4. ASSUME rows' = [r \in Row |-> NoRow] PROVE RowsLast
  BY <1>4 DEF RowsLast
<1>. QED BY <1>2, <1>3, <1>4

LEMMA ChatStays == FlowType /\ UNCHANGED chatVars => ChatGoesOn
BY DEF FlowType, chatVars, ChatGoesOn

LEMMA SweepStays == FlowType /\ UNCHANGED sweep => SweepGoesOn
BY DEF FlowType, SweepGoesOn

LEMMA TransferStays == FlowType /\ UNCHANGED transferVars => Leaves /\ RowsLast
BY RowsStay DEF transferVars, marks, Leaves

\* Storing something, also after an old conversation was forgotten.
LEMMA StoreMoves ==
  ASSUME FlowType, NEW f \in Left \cup {NoFlow}, Store(f), f # NoFlow => chat # "old"
  PROVE  StoresOne /\ RowsLast /\ flow' = f
<1>1. StoresOne
  BY DEF StoresOne
<1>2. UNCHANGED rows /\ flow' = f
  BY DEF Store
<1>. QED BY <1>1, <1>2, RowsStay

LEMMA SaveMoves ==
  FlowType /\ SaveMessage => (StoresOne \/ Leaves) /\ RowsLast /\ ChatGoesOn
<1> SUFFICES ASSUME FlowType, SaveMessage PROVE (StoresOne \/ Leaves) /\ RowsLast /\ ChatGoesOn
  OBVIOUS
<1>1. chat' = "fresh" /\ epoch' = epoch
  BY DEF SaveMessage
<1>2. CASE chat = "old"
  <2>1. Store(NoFlow)
    BY <1>2 DEF SaveMessage
  <2>. QED BY <1>1, <2>1, StoreMoves DEF ChatGoesOn
<1>3. CASE chat # "old"
  <2>1. UNCHANGED transferVars
    BY <1>3 DEF SaveMessage
  <2>. QED BY <1>1, <1>3, <2>1, TransferStays DEF ChatGoesOn
<1>. QED BY <1>2, <1>3

LEMMA SaveAfterMoves ==
  ASSUME FlowType, NEW f \in Left, SaveAfter(f)
  PROVE  (StoresOne \/ Leaves) /\ RowsLast /\ ChatGoesOn
<1> DEFINE g == IF chat = "old" THEN NoFlow ELSE f
<1>1. Store(g) /\ chat' = "fresh" /\ epoch' = epoch
  BY DEF SaveAfter
<1>2. g \in Left \cup {NoFlow} /\ (g # NoFlow => chat # "old") /\ (chat = "old" => g = NoFlow)
  OBVIOUS
<1> HIDE DEF g
<1>3. StoresOne /\ RowsLast /\ flow' = g
  BY <1>1, <1>2, StoreMoves
<1>. QED BY <1>1, <1>2, <1>3 DEF ChatGoesOn

LEMMA LookBackMoves ==
  FlowType /\ LookBack => (StoresOne \/ Leaves) /\ RowsLast /\ ChatGoesOn
<1> SUFFICES ASSUME FlowType, LookBack PROVE (StoresOne \/ Leaves) /\ RowsLast /\ ChatGoesOn
  OBVIOUS
<1>1. ChatGoesOn
  BY ChatStays DEF LookBack
<1>2. IF chat = "old" THEN Store(NoFlow) ELSE UNCHANGED transferVars
  BY DEF LookBack
<1>. QED BY <1>1, <1>2, StoreMoves, TransferStays

LEMMA TurnMovesFlow == \A t \in Task : FlowType /\ Turn(t) => Book(t) \/ FlowMoves
<1> SUFFICES ASSUME NEW t \in Task, FlowType, Turn(t), ~Book(t) PROVE FlowMoves
  OBVIOUS
<1>1. CASE SaveMessage /\ UNCHANGED sweep
  BY <1>1, SaveMoves, SweepStays DEF FlowMoves
<1>2. CASE UNCHANGED transferVars /\ UNCHANGED chatVars /\ UNCHANGED sweep
  BY <1>2, TransferStays, ChatStays, SweepStays DEF FlowMoves
<1>3. CASE Duplicate(t) \/ Silence(t) \/ AnswerCancel(t) \/ KeepPromise(t) \/ CallStaff(t)
  <2>1. UNCHANGED transferVars /\ UNCHANGED chatVars /\ UNCHANGED sweep
    BY <1>3 DEF Duplicate, Silence, AnswerCancel, KeepPromise, CallStaff
  <2>. QED BY <1>2, <2>1
<1>4. CASE SaveSilenced(t) \/ Refuse(t) \/ AnswerEarly(t) \/ Note(t) \/ Welcome(t)
           \/ AnswerAside(t) \/ AnswerOther(t) \/ PromiseStaff(t) \/ HandOver(t)
           \/ AskAgain(t) \/ AnswerBooked(t)
  <2>1. SaveMessage /\ UNCHANGED sweep
    BY <1>4 DEF SaveSilenced, Refuse, AnswerEarly, Note, Welcome, AnswerAside, AnswerOther,
                PromiseStaff, HandOver, AskAgain, AnswerBooked, Answers
  <2>. QED BY <1>1, <2>1
<1>5. CASE Pass(t)
  <2>1. LookBack /\ UNCHANGED sweep
    BY <1>5 DEF Pass
  <2>. QED BY <2>1, LookBackMoves, SweepStays DEF FlowMoves
<1>6. CASE TransferTurn(t)
  <2>1. PICK f \in Left : SaveAfter(f)
    BY <1>6 DEF TransferTurn, Left
  <2>2. UNCHANGED sweep
    BY <1>6 DEF TransferTurn
  <2>. QED BY <2>1, <2>2, SaveAfterMoves, SweepStays DEF FlowMoves
<1>7. CASE ClearBooked(t)
  <2>1. Store(NoFlow) /\ UNCHANGED chatVars /\ UNCHANGED sweep
    BY <1>7 DEF ClearBooked
  <2>. QED BY <2>1, StoreMoves, ChatStays, SweepStays DEF FlowMoves
<1>. QED BY <1>3, <1>4, <1>5, <1>6, <1>7 DEF Turn

LEMMA OtherMovesFlow ==
  ASSUME FlowType,
         \/ \E t \in Task, m \in Message : Deliver(t, m)
         \/ CloseLoad \/ CloseSave \/ SweepLoad \/ Pause \/ Resume
         \/ \E r \in Row, status \in Decision : Decide(r, status)
         \/ TwoDaysPass \/ Restart \/ (\E m \in Message : Reuse(m)) \/ UNCHANGED vars
  PROVE  FlowMoves
<1>1. NoSweep \in Sweep /\ NoSweep.copy = NoFlow
  BY DEF Sweep, NoSweep
<1>2. CASE \/ \E t \in Task, m \in Message : Deliver(t, m)
           \/ Pause \/ Resume \/ (\E m \in Message : Reuse(m)) \/ UNCHANGED vars
  <2>1. UNCHANGED transferVars /\ UNCHANGED chatVars /\ UNCHANGED sweep
    BY <1>2 DEF Deliver, Pause, Resume, Reuse, vars
  <2>. QED BY <2>1, TransferStays, ChatStays, SweepStays DEF FlowMoves
<1>3. CASE Restart \/ SweepLoad \/ CloseLoad
  <2>1. UNCHANGED transferVars /\ UNCHANGED chatVars
    BY <1>3 DEF Restart, SweepLoad, CloseLoad
  <2>2. SweepGoesOn
    BY <1>1, <1>3 DEF Restart, SweepLoad, CloseLoad, SweepGoesOn, FlowType, Sweep
  <2>. QED BY <2>1, <2>2, TransferStays, ChatStays DEF FlowMoves
<1>4. CASE CloseSave
  <2>1. Store(NoFlow) /\ UNCHANGED chatVars /\ sweep' = NoSweep
    BY <1>4 DEF CloseSave
  <2>. QED BY <1>1, <2>1, StoreMoves, ChatStays DEF FlowMoves, SweepGoesOn
<1>5. CASE \E r \in Row, status \in Decision : Decide(r, status)
  <2>1. PICK r \in Row, status \in Decision : SetStatus(r, status)
    BY <1>5 DEF Decide
  <2>2. UNCHANGED chatVars /\ UNCHANGED sweep
    BY <1>5 DEF Decide
  <2>3. Leaves
    BY <2>1 DEF SetStatus, marks, Leaves
  <2>. QED BY <2>1, <2>2, <2>3, RowsStay, ChatStays, SweepStays DEF FlowMoves
<1>6. CASE TwoDaysPass
  <2>1. rows' = [r \in Row |-> NoRow] /\ UNCHANGED chatVars /\ UNCHANGED sweep /\ Leaves
    BY <1>6 DEF TwoDaysPass, marks, Leaves
  <2>. QED BY <2>1, RowsStay, ChatStays, SweepStays DEF FlowMoves
<1>. QED BY <1>2, <1>3, <1>4, <1>5, <1>6

LEMMA CloseKeepsFlow == FlowInv /\ (CloseChat \/ Purge) => FlowInv'
<1> SUFFICES ASSUME FlowInv, CloseChat \/ Purge PROVE FlowInv'
  OBVIOUS
<1>1. /\ chat' = "none" /\ relic' = (flow # NoFlow)
      /\ UNCHANGED <<flow, rows, shown, undone, epoch>>
  BY DEF CloseChat, Purge
<1>2. sweep' \in Sweep /\ sweep'.copy = sweep.copy
  BY DEF CloseChat, Purge, FlowInv, FlowType, Sweep
<1>. QED BY <1>1, <1>2, OutlivesKeeps

LEMMA NextKeepsFlow == FlowInv /\ [Next]_vars => FlowInv'
<1> SUFFICES ASSUME FlowInv, [Next]_vars PROVE FlowInv'
  OBVIOUS
<1>0. FlowType
  BY DEF FlowInv
<1>1. CASE \E t \in Task : Turn(t)
  BY <1>0, <1>1, TurnMovesFlow, FlowMovesKeep, BookKeepsFlow
<1>2. CASE CloseChat \/ Purge
  BY <1>2, CloseKeepsFlow
<1>3. CASE SweepSave
  BY <1>3, SweepSaveKeepsFlow
<1>4. CASE Expire
  BY <1>4, ExpireKeepsFlow
<1>5. CASE ~((\E t \in Task : Turn(t)) \/ CloseChat \/ Purge \/ SweepSave \/ Expire)
  <2>1. FlowMoves
    BY <1>0, <1>5, OtherMovesFlow DEF Next
  <2>. QED BY <2>1, FlowMovesKeep
<1>. QED BY <1>1, <1>2, <1>3, <1>4, <1>5

-----------------------------------------------------------------------------
(* What the prechecks found                                                *)

\* A task waits for its answer since its prechecks, and books by a yes.
LEMMA TaskSteps ==
  ASSUME MessageInv, [Next]_vars, NEW u \in Task
  PROVE  /\ task'[u].step = "checked" =>
              (At(u, "checked") /\ task'[u].asked = task[u].asked) \/ Pass(u)
         /\ task'[u].step = "booked" => At(u, "booked") \/ Book(u)
<1> DEFINE Calm == /\ task'[u].step = "checked" =>
                        At(u, "checked") /\ task'[u].asked = task[u].asked
                   /\ task'[u].step = "booked" => At(u, "booked")
<1>0. /\ task \in [Task -> Job] /\ \A t \in Task : task[t] \in Job
  BY DEF MessageInv, MessageType
<1>1. ASSUME UNCHANGED task PROVE Calm
  BY <1>1 DEF At
<1>2. ASSUME NEW t \in Task, Ends(t) PROVE Calm
  BY <1>0, <1>2, IdleType DEF Ends, At
<1>3. ASSUME NEW t \in Task, Becomes(t, "silenced") \/ Becomes(t, "promised")
             \/ Becomes(t, "calling staff") \/ Becomes(t, "announcing")
      PROVE  Calm
  <2>1. MessageType
    BY DEF MessageInv
  <2>2. PICK k \in {"silenced", "promised", "calling staff", "announcing"} : Becomes(t, k)
    BY <1>3
  <2>3. k \in Step
    BY DEF Step
  <2>4. PICK j \in Job : Turns(t, j) /\ j.step = k
    BY <2>1, <2>2, <2>3, BecomesType
  <2>. QED BY <1>0, <2>4 DEF Turns, At
<1>4. ASSUME NEW t \in Task, Pass(t) PROVE Calm \/ u = t
  <2>1. task' = [task EXCEPT ![t] = task'[t]]
    BY <1>0, <1>4 DEF Pass
  <2>. QED BY <1>0, <2>1 DEF At
<1>5. ASSUME NEW t \in Task, Book(t) PROVE Calm \/ u = t
  <2>1. task' = [task EXCEPT ![t] = task'[t]]
    BY <1>0, <1>5 DEF Book, Becomes
  <2>. QED BY <1>0, <2>1 DEF At
<1>6. CASE \E t \in Task : Turn(t)
  <2>1. PICK t \in Task : Turn(t)
    BY <1>6
  <2>2. Pass(t) \/ Book(t) \/ Calm
    <3>1. \/ Pass(t) \/ Book(t) \/ UNCHANGED task \/ Ends(t)
          \/ Becomes(t, "silenced") \/ Becomes(t, "promised")
          \/ Becomes(t, "calling staff") \/ Becomes(t, "announcing")
      BY <2>1
      DEF Turn, Duplicate, Silence, SaveSilenced, Refuse, AnswerEarly, Note, AnswerCancel,
          Welcome, AnswerAside, AnswerOther, PromiseStaff, KeepPromise, CallStaff, HandOver,
          TransferTurn, AskAgain, ClearBooked, AnswerBooked, Answers, Reply
    <3> HIDE DEF Calm
    <3>. QED BY <1>1, <1>2, <1>3, <3>1
  <2>3. CASE Pass(t)
    <3>1. task'[t].step = "checked"
      BY <1>0, <2>3 DEF Pass, Job
    <3>2. Calm \/ u = t
      BY <1>4, <2>3
    <3>. QED BY <2>3, <3>1, <3>2
  <2>4. CASE Book(t)
    <3>1. Becomes(t, "booked") /\ MessageType /\ "booked" \in Step
      BY <2>4 DEF Book, MessageInv, Step
    <3>2. PICK j \in Job : Turns(t, j) /\ j.step = "booked"
      BY <3>1, BecomesType
    <3>3. task'[t].step = "booked"
      BY <1>0, <3>2 DEF Turns
    <3>4. Calm \/ u = t
      BY <1>5, <2>4
    <3>. QED BY <2>4, <3>3, <3>4
  <2>. QED BY <2>2, <2>3, <2>4
<1>7. CASE \E t \in Task, m \in Message : Deliver(t, m)
  <2>1. PICK t \in Task, m \in Message : Deliver(t, m)
    BY <1>7
  <2>2. task'[t].step = "posted" /\ \A v \in Task \ {t} : task'[v] = task[v]
    BY <1>0, <2>1, IdleType DEF Deliver, Idle
  <2>. QED BY <2>2 DEF At
<1>8. CASE Resume \/ Purge
  <2>1. task'[u] \in {[task[u] EXCEPT !.late = FALSE], [task[u] EXCEPT !.msg = NoMessage]}
    BY <1>8 DEF Resume, Purge
  <2>2. task'[u].step = task[u].step /\ task'[u].asked = task[u].asked
    BY <1>0, <2>1 DEF Job
  <2>. QED BY <2>2 DEF At
<1>9. CASE Restart
  BY <1>9, IdleType DEF Restart
<1>10. CASE CloseChat \/ CloseLoad \/ CloseSave \/ SweepLoad \/ SweepSave \/ Pause
            \/ (\E r \in Row, status \in Decision : Decide(r, status)) \/ Expire \/ TwoDaysPass
            \/ (\E m \in Message : Reuse(m)) \/ UNCHANGED vars
  <2>1. UNCHANGED task
    BY <1>10 DEF CloseChat, CloseLoad, CloseSave, SweepLoad, SweepSave, Pause, Decide, Expire,
                 TwoDaysPass, Reuse, vars
  <2>. QED BY <1>1, <2>1
<1>. QED BY <1>6, <1>7, <1>8, <1>9, <1>10 DEF Next

\* A step leaves the flow as old as it was, or begins one now.
LEMMA FlowAge ==
  ASSUME FlowInv, [Next]_vars
  PROVE  /\ epoch <= epoch'
         /\ flow' # NoFlow /\ ~relic' =>
              \/ flow'.begun = epoch
              \/ flow # NoFlow /\ ~relic /\ flow'.begun = flow.begun
<1>0. FlowType /\ epoch \in Nat
  BY HappensAssumption DEF FlowInv, FlowType
<1>1. CASE FlowMoves
  <2>1. epoch' = epoch
    BY <1>1 DEF FlowMoves, ChatGoesOn
  <2>2. CASE Leaves
    BY <1>0, <2>1, <2>2 DEF Leaves
  <2>3. CASE StoresOne
    <3>1. relic' = (relic /\ flow' # NoFlow)
      BY <2>3, StoresOneType
    <3>2. flow' # NoFlow => flow'.begun = epoch \/ (flow # NoFlow /\ flow'.begun = flow.begun)
      BY <2>3, StoresOneType
    <3>3. flow' # NoFlow /\ ~relic' => ~relic
      BY <3>1, Zenon
    <3>. QED BY <1>0, <2>1, <3>2, <3>3
  <2>. QED BY <1>1, <2>2, <2>3 DEF FlowMoves
<1>2. CASE \E t \in Task : Book(t)
  <2>1. UNCHANGED <<flow, relic, epoch>>
    BY <1>2 DEF Book, Create, marks, chatVars
  <2>. QED BY <1>0, <2>1
<1>3. CASE CloseChat \/ Purge
  <2>1. epoch' = epoch /\ flow' = flow /\ relic' = (flow # NoFlow)
    BY <1>3 DEF CloseChat, Purge
  <2>2. ~(flow' # NoFlow /\ ~relic')
    BY <2>1, Zenon
  <2>. QED BY <1>0, <2>1, <2>2
<1>4. CASE SweepSave
  <2>1. epoch' = epoch /\ flow' = sweep.copy
    BY <1>4 DEF SweepSave, chatVars
  <2>2. relic' = ((relic \/ flow # sweep.copy) /\ sweep.copy # NoFlow)
    BY <1>4 DEF SweepSave
  <2>3. flow' # NoFlow /\ ~relic' => ~relic /\ flow' = flow
    BY <2>1, <2>2, Zenon
  <2>. QED BY <1>0, <2>1, <2>3
<1>5. CASE Expire
  BY <1>0, <1>5 DEF Expire, transferVars, marks
<1>6. CASE ~((\E t \in Task : Turn(t)) \/ CloseChat \/ Purge \/ SweepSave \/ Expire)
  BY <1>0, <1>1, <1>6, OtherMovesFlow DEF Next
<1>. QED BY <1>0, <1>1, <1>2, <1>3, <1>4, <1>5, <1>6, TurnMovesFlow

\* A passing message finds a flow of its own conversation, or forgets it.
LEMMA PassFinds ==
  ASSUME IInv, NEW t \in Task, Pass(t)
  PROVE  /\ task'[t].asked = epoch /\ epoch' = epoch
         /\ flow' # NoFlow /\ ~relic' => flow'.begun = epoch
<1>1. task'[t].asked = epoch
  BY JobType DEF IInv, MessageInv, MessageType, Pass, Job
<1>2. LookBack
  BY DEF Pass
<1>3. CASE chat = "old"
  BY <1>1, <1>2, <1>3 DEF LookBack, Store, chatVars
<1>4. CASE chat # "old"
  BY <1>1, <1>2, <1>4 DEF LookBack, transferVars, marks, chatVars, IInv, FlowInv, OfThisChat
<1>. QED BY <1>3, <1>4

LEMMA NextKeepsNotBefore == IInv /\ [Next]_vars => NotBefore'
<1> SUFFICES ASSUME IInv, [Next]_vars, NEW t \in Task, task'[t].step = "checked"
             PROVE  /\ task'[t].asked <= epoch'
                    /\ flow' # NoFlow /\ ~relic' => flow'.begun >= task'[t].asked
  BY DEF NotBefore, At
<1>1. epoch \in Nat /\ epoch' \in Nat /\ MessageInv /\ FlowInv
  BY NextKeepsFlow, HappensAssumption DEF IInv, FlowInv, FlowType
<1>2. CASE Pass(t)
  BY <1>1, <1>2, PassFinds
<1>3. CASE At(t, "checked") /\ task'[t].asked = task[t].asked
  <2>1. /\ task[t].asked \in Nat /\ task[t].asked <= epoch
        /\ flow # NoFlow /\ ~relic => flow.begun >= task[t].asked
    BY <1>1, <1>3, JobType DEF IInv, MessageInv, NotBefore, Job
  <2>. QED BY <1>1, <1>3, <2>1, FlowAge
<1>. QED BY <1>1, <1>2, <1>3, TaskSteps

-----------------------------------------------------------------------------
(* The invariant                                                           *)

\* There are no messages, flows or reservations at the start.
LEMMA InitEstablishes == Init => IInv
<1> SUFFICES ASSUME Init PROVE IInv
  OBVIOUS
<1>1. /\ flow = NoFlow /\ rows = [r \in Row |-> NoRow] /\ shown = NoData
      /\ undone = FALSE /\ relic = FALSE
      /\ task = [t \in Task |-> Idle] /\ \A t \in Task : task[t] = Idle
      /\ ids = {} /\ answers = [m \in Message |-> 0]
      /\ chat = "none" /\ epoch = 0 /\ paused = FALSE /\ sweep = NoSweep
  BY DEF Init, TransferInit
<1>2. MessageType
  BY <1>1, IdleType DEF MessageType
<1>3. OneTaskPerId
  BY <1>1, IdleType DEF OneTaskPerId, At, IsWorking
<1>4. AnsweredOnce /\ LateIsPaused /\ SilentForStaff /\ NotBefore
  BY <1>1, IdleType DEF AnsweredOnce, LateIsPaused, SilentForStaff, NotBefore, At
<1>5. FlowType /\ Sane(sweep.copy)
  <2>1. NoSweep \in Sweep /\ NoSweep.copy = NoFlow /\ 0 \in 0..MaxEpoch
    BY HappensAssumption DEF NoSweep, Sweep
  <2>2. rows \in [Row -> Reservation \cup {NoRow}] /\ shown \in Full \cup {NoData}
    BY <1>1
  <2>3. undone \in BOOLEAN /\ relic \in BOOLEAN /\ chat \in {"none", "fresh", "old"}
    BY <1>1
  <2>4. Sane(flow) /\ Sane(sweep.copy)
    BY <1>1, <2>1 DEF Sane
  <2>. QED BY <1>1, <2>1, <2>2, <2>3, <2>4 DEF FlowType
<1>6. HoldsShown /\ OfThisChat /\ BookedOnce
  BY <1>1 DEF HoldsShown, OfThisChat, BookedOnce
<1>. QED BY <1>2, <1>3, <1>4, <1>5, <1>6 DEF IInv, MessageInv, FlowInv

\* Every step keeps the invariant.
LEMMA NextKeeps == IInv /\ [Next]_vars => IInv'
<1> SUFFICES ASSUME IInv, [Next]_vars PROVE IInv'
  OBVIOUS
<1>1. MessageInv /\ FlowInv /\ FlowType
  BY DEF IInv, FlowInv
<1>2. MessageInv' /\ FlowInv'
  BY <1>1, NextKeepsMessages, NextKeepsFlow
<1>3. NotBefore'
  BY NextKeepsNotBefore
<1>. QED BY <1>2, <1>3 DEF IInv

\* Every reachable state satisfies the invariant.
LEMMA Invariance == Spec => []IInv
BY InitEstablishes, NextKeeps, PTL DEF Spec

\* Only a yes makes a row, of what the flow holds.
LEMMA OnlyYesMakes ==
  ASSUME FlowInv, [Next]_vars, NEW r \in Row, rows[r] = NoRow, rows'[r] # NoRow
  PROVE  flow # NoFlow /\ flow.state = "confirm" /\ rows'[r].made = flow.data
<1>0. FlowType
  BY DEF FlowInv
<1>1. ~RowsLast
  BY DEF RowsLast
<1>2. ~ (CloseChat \/ Purge \/ SweepSave \/ Expire)
  BY DEF CloseChat, Purge, SweepSave, Expire, transferVars
<1>3. PICK t \in Task : Book(t)
  BY <1>0, <1>1, <1>2, TurnMovesFlow, OtherMovesFlow DEF Next, FlowMoves
<1>4. flow # NoFlow /\ flow.state = "confirm"
  BY <1>3 DEF Book, Create
<1>5. PICK q \in Row : rows' = [rows EXCEPT ![q] = [made |-> flow.data, status |-> "pending"]]
  BY <1>3 DEF Book, Create
<1>6. rows'[r] = [made |-> flow.data, status |-> "pending"]
  BY <1>0, <1>5 DEF FlowType
<1>. QED BY <1>4, <1>6

-----------------------------------------------------------------------------
(* The theorems                                                            *)

(* The files, the tasks and the ids have the shape the code gives them; a  *)
(* stored flow asks for the first detail that is missing.                  *)
THEOREM ChatTypeCorrect == Spec => []TypeOK
<1>1. IInv => TypeOK
  BY DEF IInv, MessageInv, MessageType, FlowInv, FlowType, Sane, TypeOK
<1>. QED BY <1>1, Invariance, PTL

(* No message id gets two replies, however many tasks handle it at once    *)
(* and wherever a restart cuts them.                                       *)
THEOREM OneAnswerPerMessage == Spec => []AnsweredOnce
BY Invariance, PTL DEF IInv, MessageInv

(* A message that arrives while staff have the conversation is not         *)
(* answered until they give it back.                                       *)
THEOREM StaffAreNotTalkedOver == Spec => []SilentForStaff
BY Invariance, PTL DEF IInv, MessageInv

(* No two rows of the last 48 hours agree in the key.                      *)
THEOREM OneTransferPerKey == Spec => []BookedOnce
BY Invariance, PTL DEF IInv, FlowInv

(* A transfer is booked as its last summary showed it, unless a thread put *)
(* an older flow back.                                                     *)
THEOREM TransferAsShown == Spec => TransferIsAsShown
<1>1. IInv /\ [Next]_vars =>
        [\A r \in Row : rows[r] = NoRow /\ rows'[r] # NoRow
                        => undone \/ rows'[r].made = shown]_vars
  <2> SUFFICES ASSUME IInv, [Next]_vars, NEW r \in Row, rows[r] = NoRow, rows'[r] # NoRow
               PROVE  undone \/ rows'[r].made = shown
    OBVIOUS
  <2>1. FlowInv
    BY DEF IInv
  <2>. QED BY <2>1, OnlyYesMakes DEF FlowInv, HoldsShown
<1>. QED BY <1>1, Invariance, PTL DEF Spec, TransferIsAsShown

(* A yes books nothing from a conversation that had expired when it came,  *)
(* unless its flow is a relic.                                             *)
THEOREM NoBookingAfterExpiry == Spec => ExpiredIsNotBooked
<1>1. IInv /\ [Next]_vars =>
        [\A t \in Task : ~At(t, "booked") /\ task'[t].step = "booked"
                         => relic \/ flow.begun >= task[t].asked]_vars
  <2> SUFFICES ASSUME IInv, [Next]_vars, NEW t \in Task, ~At(t, "booked"),
                      task'[t].step = "booked"
               PROVE  relic \/ flow.begun >= task[t].asked
    OBVIOUS
  <2>1. Book(t)
    BY TaskSteps DEF IInv
  <2>2. At(t, "checked") /\ flow # NoFlow
    BY <2>1 DEF Book, InTransfer, Ready, Create
  <2>. QED BY <2>2 DEF IInv, NotBefore
<1>. QED BY <1>1, Invariance, PTL DEF Spec, ExpiredIsNotBooked
=============================================================================
