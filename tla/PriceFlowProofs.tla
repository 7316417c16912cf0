--------------------------- MODULE PriceFlowProofs ---------------------------
(***************************************************************************)
(* Proofs about the price conversation, for any days, messages, requests   *)
(* at once and answers of Elektra.                                         *)
(***************************************************************************)
EXTENDS PriceFlow, WellFoundedInduction, TLAPS

(* The guests of all rooms have been said by a message that names adults.  *)
Sound(d) == d.groups = "all" => d.adults

(* The question put by a state belongs to the details.                     *)
Fits(state, d) ==
  /\ ~Complete(d)
  /\ state = "ask_dates" <=> DatesMissing(d)
  /\ state = "ask_child_ages" <=>
       ~DatesMissing(d) /\ ~GuestsMissing(d) /\ ~CountMissing(d)

(* What may be sent to Elektra.                                            *)
Ready(d) == Complete(d) /\ d.adults
Priceable(d) == ~DatesMissing(d) /\ ~GuestsMissing(d)

Result == [does : {"asks", "ends", "stay", "rooms"}, state : State, data : Data]

(* What a handler decides is right.                                        *)
Right(r) ==
  /\ r.does = "asks" => Fits(r.state, r.data) /\ Sound(r.data)
  /\ r.does = "stay" => Ready(r.data)
  /\ r.does = "rooms" => Priceable(r.data)

-----------------------------------------------------------------------------

LEMMA Questions ==
  /\ StateFor("dates") = "ask_dates"
  /\ StateFor("guests") = "ask_guests" /\ StateFor("child_count") = "ask_guests"
  /\ StateFor("child_ages") = "ask_child_ages"
BY DEF StateFor

LEMMA QuestionOf ==
  ASSUME NEW d
  PROVE  /\ DatesMissing(d) => Question(d) = "dates"
         /\ ~DatesMissing(d) /\ GuestsMissing(d) => Question(d) = "guests"
         /\ ~DatesMissing(d) /\ ~GuestsMissing(d) /\ CountMissing(d) => Question(d) = "child_count"
         /\ ~DatesMissing(d) /\ ~GuestsMissing(d) /\ ~CountMissing(d) => Question(d) = "child_ages"
BY DEF Question, DatesMissing, GuestsMissing, CountMissing

(* The question that is put belongs to what is missing.                    *)
LEMMA QuestionFits ==
  ASSUME NEW d, ~Complete(d)
  PROVE  StateFor(Question(d)) \in State /\ Fits(StateFor(Question(d)), d)
BY Questions, QuestionOf DEF Fits, State

(* The missing details decide the next step.                               *)
LEMMA ProceedIsRight ==
  ASSUME NEW d \in Data, Sound(d)
  PROVE  Proceed(d) \in Result /\ Right(Proceed(d))
<1> USE DEF Result, Proceed, QueryElektraweb, Asks, Ends, Prices, Right
<1>1. CASE Complete(d)
  <2>1. d.adults
    BY <1>1 DEF Data, Complete, GuestsMissing, Sound, Groups
  <2>2. d.refused \in BOOLEAN
    BY DEF Data
  <2>. QED BY <1>1, <2>1, <2>2 DEF State, Ready
<1>2. CASE ~Complete(d)
  <2>1. StateFor(Question(d)) \in State /\ Fits(StateFor(Question(d)), d)
    BY <1>2, QuestionFits
  <2>. QED BY <1>2, <2>1
<1>. QED BY <1>1, <1>2

-----------------------------------------------------------------------------
(* The answers to the three questions                                      *)

LEMMA NewOrOld ==
  ASSUME NEW S, NEW none \in S, NEW a \in S, NEW b \in S
  PROVE  Or(a, b, none) \in S
BY DEF Or

LEMMA WithGuestsType ==
  ASSUME NEW d \in Data, NEW m \in Mention
  PROVE  /\ WithCurrency(d, m) \in Data
         /\ WithGuests(d, m) \in Data
         /\ WithGuests(d, m).groups = d.groups
         /\ WithGuests(d, m).many = d.many
         /\ WithGuests(d, m).from = d.from
         /\ WithGuests(d, m).to = d.to
         /\ WithGuests(d, m).adults = (d.adults \/ m.adults)
         /\ WithGuests(d, m).child = (d.child \/ m.child)
         /\ WithGuests(d, m).count = (IF m.count = "unsaid" THEN d.count ELSE m.count = "some")
         /\ WithGuests(d, m).ages = (d.ages \/ m.ages)
<1> DEFINE c == WithCurrency(d, m)
           count == IF m.count = "unsaid" THEN d.count ELSE m.count = "some"
<1>1. /\ c \in Data /\ c.groups = d.groups /\ c.many = d.many
      /\ c.from = d.from /\ c.to = d.to /\ c.adults = d.adults
      /\ c.child = d.child /\ c.count = d.count /\ c.ages = d.ages
  BY DEF WithCurrency, Data, Mention
<1> HIDE DEF c
<1>2. count \in BOOLEAN
  BY DEF Data, Mention
<1>3. WithGuests(d, m) =
        [c EXCEPT !.adults = d.adults \/ m.adults, !.child = d.child \/ m.child,
                  !.count = count, !.ages = d.ages \/ m.ages]
  BY <1>1 DEF WithGuests, c
<1> HIDE DEF count
<1>4. WithGuests(d, m) \in Data
  BY <1>1, <1>2, <1>3 DEF Data, Mention
<1>. QED BY <1>1, <1>2, <1>3, <1>4 DEF Data, count, c

(* A stay that begins on a day ends on one.                                *)
LEMMA AfterIsADay ==
  ASSUME NEW from \in Day, NEW nights \in Nat
  PROVE  After(from, nights) \in Day
BY PriceAnswerAssumption DEF After, Day

LEMMA DatesAreRight ==
  ASSUME NEW d \in Data, Sound(d), NEW m \in Mention
  PROVE  AnswerDates(d, m) \in Result /\ Right(AnswerDates(d, m))
<1> DEFINE from == Or(m.from, d.from, NoDay)
           end  == IF from # NoDay /\ m.nights > 0 THEN After(from, m.nights) ELSE NoDay
           to   == Or(m.to, end, NoDay)
           g    == WithGuests(d, m)
           e    == [g EXCEPT !.from = from, !.to = Or(to, @, NoDay)]
<1>1. g \in Data /\ g.groups = d.groups /\ g.adults = (d.adults \/ m.adults)
  BY WithGuestsType
<1>2. from \in DayOrNone /\ to \in DayOrNone
  <2>1. from \in DayOrNone /\ m.to \in DayOrNone /\ m.nights \in Nat
    BY DEF Or, Data, Mention, DayOrNone
  <2> HIDE DEF from
  <2>2. end \in DayOrNone
    BY <2>1, AfterIsADay DEF DayOrNone
  <2> HIDE DEF end
  <2>. QED BY <2>1, <2>2 DEF Or
<1>3. Or(to, g.to, NoDay) \in DayOrNone
  BY <1>1, <1>2 DEF Or, Data, DayOrNone
<1> HIDE DEF g, from, to, end
<1>4. e \in Data /\ Sound(e)
  BY <1>1, <1>2, <1>3 DEF Data, Sound, Mention
<1>5. Proceed(e) \in Result /\ Right(Proceed(e))
  BY <1>4, ProceedIsRight
<1>6. Ends(e) \in Result /\ Right(Ends(e))
  BY <1>4 DEF Ends, Result, Right, State
<1>7. AnswerDates(d, m) \in {Proceed(e), Ends(e)}
  BY DEF AnswerDates, e, from, to, end, g
<1>. QED BY <1>5, <1>6, <1>7

LEMMA GuestsAreRight ==
  ASSUME NEW d \in Data, Sound(d), Fits("ask_guests", d),
         NEW m \in Mention, Consistent(m)
  PROVE  AnswerGuests(d, m) \in Result /\ Right(AnswerGuests(d, m))
<1> DEFINE c == WithCurrency(d, m)
           e == [c EXCEPT !.groups = IF d.many THEN Or(m.groups, @, "none") ELSE @]
           g == WithGuests(e, m)
           f == [g EXCEPT !.from = Or(m.from, @, NoDay), !.to = Or(m.to, @, NoDay)]
<1>1. ~DatesMissing(d)
  BY DEF Fits
<1>2. /\ c \in Data /\ c.groups = d.groups /\ c.many = d.many /\ c.adults = d.adults
      /\ c.from = d.from /\ c.to = d.to
  BY DEF WithCurrency, Data, Mention
<1> HIDE DEF c
<1>3. /\ e \in Data /\ e.many = d.many /\ e.adults = d.adults
      /\ e.from = d.from /\ e.to = d.to
      /\ e.groups = IF d.many THEN Or(m.groups, d.groups, "none") ELSE d.groups
  BY <1>2 DEF Data, Mention, Or, Groups
<1> HIDE DEF e
<1>4. /\ g \in Data /\ g.many = d.many /\ g.groups = e.groups
      /\ g.from = d.from /\ g.to = d.to /\ g.adults = (d.adults \/ m.adults)
  BY <1>3, WithGuestsType
<1> HIDE DEF g
<1>5. /\ f \in Data /\ f.many = d.many /\ f.groups = e.groups
      /\ f.adults = (d.adults \/ m.adults) /\ ~DatesMissing(f)
  BY <1>1, <1>4 DEF Data, Mention, Or, DayOrNone, DatesMissing
<1> HIDE DEF f
<1>6. f.groups = "all" => f.adults
  BY <1>3, <1>5 DEF Or, Sound, Consistent, Mention, Data
<1>7. CASE d.many /\ m.groups = "some"
  <2>1. e.groups = "some"
    BY <1>3, <1>7 DEF Or
  <2>2. Fits("ask_guests", e) /\ Sound(e)
    BY <1>1, <1>3, <1>7, <2>1 DEF Fits, Complete, DatesMissing, GuestsMissing, Sound
  <2>3. AnswerGuests(d, m) = Asks("ask_guests", e)
    BY <1>7 DEF AnswerGuests, e, c
  <2>. QED BY <1>3, <2>2, <2>3 DEF Asks, Result, Right, State
<1>8. CASE d.many /\ m.groups = "all"
  <2>1. e.groups = "all"
    BY <1>3, <1>8 DEF Or
  <2>2. OfRooms(e) \in Data /\ Priceable(OfRooms(e))
    BY <1>1, <1>3, <1>8, <2>1 DEF OfRooms, Data, Priceable, DatesMissing, GuestsMissing
  <2>3. AnswerGuests(d, m) = Prices("rooms", OfRooms(e))
    BY <1>1, <1>8 DEF AnswerGuests, e, c
  <2>. QED BY <2>2, <2>3 DEF Prices, Result, Right, State
<1>9. CASE ~(d.many /\ m.groups = "some") /\ ~(d.many /\ m.groups = "all")
  <2>1. CASE f.adults
    <3>1. AnswerGuests(d, m) = Proceed(f)
      BY <1>9, <2>1 DEF AnswerGuests, f, g, e, c
    <3>. QED BY <1>5, <2>1, <3>1, ProceedIsRight DEF Sound
  <2>2. CASE ~f.adults
    <3>1. AnswerGuests(d, m) = Asks("ask_guests", f)
      BY <1>9, <2>2 DEF AnswerGuests, f, g, e, c
    <3>2. GuestsMissing(f)
      BY <1>5, <1>6, <2>2 DEF GuestsMissing, Data
    <3>3. Fits("ask_guests", f) /\ Sound(f)
      BY <1>5, <1>6, <3>2 DEF Fits, Complete, Sound
    <3>. QED BY <1>5, <3>1, <3>3 DEF Asks, Result, Right, State
  <2>. QED BY <2>1, <2>2
<1>. QED BY <1>7, <1>8, <1>9

LEMMA AgesAreRight ==
  ASSUME NEW d \in Data, Sound(d), Fits("ask_child_ages", d),
         NEW m \in Mention, Consistent(m)
  PROVE  AnswerChildAges(d, m) \in Result /\ Right(AnswerChildAges(d, m))
<1> DEFINE given == m.ages \/ m.numbers
           c == WithCurrency(d, m)
           e == [c EXCEPT
                  !.ages  = @ \/ given,
                  !.count = IF m.count # "unsaid" THEN m.count = "some" ELSE @ \/ given]
           n == [e EXCEPT !.child = FALSE, !.count = FALSE]
<1>1. ~DatesMissing(d) /\ ~GuestsMissing(d) /\ ~CountMissing(d) /\ AgesMissing(d)
  BY DEF Fits, Complete
<1>2. /\ c \in Data /\ c.groups = d.groups /\ c.many = d.many /\ c.adults = d.adults
      /\ c.from = d.from /\ c.to = d.to /\ c.child = d.child /\ c.count = d.count
      /\ c.ages = d.ages
  BY DEF WithCurrency, Data, Mention
<1> HIDE DEF c
<1>3. /\ e \in Data /\ e.groups = d.groups /\ e.many = d.many /\ e.adults = d.adults
      /\ e.from = d.from /\ e.to = d.to /\ e.child = d.child
      /\ e.ages = (d.ages \/ given)
      /\ e.count = IF m.count # "unsaid" THEN m.count = "some" ELSE d.count \/ given
  BY <1>2 DEF Data, Mention
<1> HIDE DEF e
<1>4. Sound(e) /\ n \in Data /\ Sound(n)
  BY <1>3 DEF Sound, Data
<1>5. CASE e.ages
  <2>1. AnswerChildAges(d, m) = Proceed(e)
    BY <1>5 DEF AnswerChildAges, e, c
  <2>. QED BY <1>3, <1>4, <2>1, ProceedIsRight
<1>6. CASE ~e.ages /\ m.no
  <2>1. AnswerChildAges(d, m) = Proceed(n)
    BY <1>6 DEF AnswerChildAges, e, c
  <2>. QED BY <1>4, <2>1, ProceedIsRight
<1>7. CASE ~e.ages /\ ~m.no
  <2>1. AnswerChildAges(d, m) = Asks("ask_child_ages", e)
    BY <1>7 DEF AnswerChildAges, e, c
  <2>2. m.count # "zero"
    BY <1>7 DEF Consistent
  <2>3. Fits("ask_child_ages", e)
    BY <1>1, <1>3, <1>7, <2>2
       DEF Fits, Complete, DatesMissing, GuestsMissing, CountMissing, AgesMissing, Mention, Data
  <2>. QED BY <1>3, <1>4, <2>1, <2>3 DEF Asks, Result, Right, State
<1>. QED BY <1>5, <1>6, <1>7

(* Whatever the customer answers, the handlers decide rightly.             *)
LEMMA ReplyIsRight ==
  ASSUME NEW f \in Flow, Fits(f.state, f.data), Sound(f.data),
         NEW m \in Mention, Consistent(m)
  PROVE  Reply(f, m) \in Result /\ Right(Reply(f, m))
<1>1. f.data \in Data /\ f.state \in State
  BY DEF Flow
<1>2. CASE f.state = "ask_dates"
  BY <1>1, <1>2, DatesAreRight DEF Reply
<1>3. CASE f.state = "ask_guests"
  BY <1>1, <1>3, GuestsAreRight DEF Reply
<1>4. CASE f.state = "ask_child_ages"
  BY <1>1, <1>4, AgesAreRight DEF Reply
<1>. QED BY <1>1, <1>2, <1>3, <1>4 DEF State

-----------------------------------------------------------------------------
(* The details of a new dialogue                                           *)

LEMMA FirstDataIsSound ==
  ASSUME NEW m \in Mention, Consistent(m), last \in Data \cup {NoQuery}
  PROVE  FirstData(m) \in Data /\ Sound(FirstData(m))
<1>1. CASE last = NoQuery
  BY <1>1 DEF FirstData, Sound, Consistent, Data, Mention, Or, DayOrNone
<1>2. CASE last # NoQuery
  <2>1. last \in Data
    BY <1>2
  <2>2. Or(m.from, last.from, NoDay) \in DayOrNone /\ Or(m.to, last.to, NoDay) \in DayOrNone
    BY <2>1 DEF Or, Data, Mention, DayOrNone
  <2>3. m.groups = "all" => m.adults
    BY DEF Consistent
  <2>. QED BY <1>2, <2>1, <2>2, <2>3 DEF FirstData, Sound, Data, Mention
<1>. QED BY <1>1, <1>2

LEMMA FromBacklogIsSound ==
  ASSUME NEW d \in Data, Sound(d), NEW h \in Mention
  PROVE  FromBacklog(d, h) \in Data /\ Sound(FromBacklog(d, h))
<1> DEFINE lacks == ~d.adults \/ AgesMissing(d)
           ages  == d.ages \/ (lacks /\ h.ages)
           count == d.count \/ ages \/ (lacks /\ h.count = "some")
           from  == Or(d.from, h.from, NoDay)
           to    == Or(d.to, h.to, NoDay)
           e == [d EXCEPT !.from = from, !.to = to, !.adults = @ \/ h.adults,
                          !.ages = ages, !.child = @ \/ h.child \/ ages, !.count = count]
<1>1. /\ ages \in BOOLEAN /\ count \in BOOLEAN
      /\ from \in DayOrNone /\ to \in DayOrNone
  BY DEF Or, Data, Mention, DayOrNone
<1>2. FromBacklog(d, h) \in {d, e}
  BY DEF FromBacklog
<1> HIDE DEF ages, count, from, to
<1>3. e \in Data /\ Sound(e)
  BY <1>1 DEF Data, Mention, Sound
<1>. QED BY <1>2, <1>3

LEMMA FromNumbersIsSound ==
  ASSUME NEW d \in Data, Sound(d), NEW m \in Mention
  PROVE  FromNumbers(d, m) \in Data /\ Sound(FromNumbers(d, m))
BY DEF FromNumbers, Data, Sound

-----------------------------------------------------------------------------
(* The inductive invariant: what is kept, here, in the copy of a timer and *)
(* in the requests that are out, is right.  The last query has to be       *)
(* complete because a change of currency sends it once more.               *)

FlowIsRight(f)  == f # NoFlow => Fits(f.state, f.data) /\ Sound(f.data)
QueryIsReady(q) == q # NoQuery => Ready(q)
JobIsRight(j) ==
  j # NoJob => Priceable(j.data) /\ (j.kind = "stay" => Ready(j.data))

IInv ==
  /\ TypeOK
  /\ FlowIsRight(flow) /\ FlowIsRight(sweep.flow)
  /\ QueryIsReady(last) /\ QueryIsReady(sweep.last)
  /\ \A s \in Slot : JobIsRight(asked[s])

LEMMA MessagesAreConsistent ==
  ASSUME NEW m \in Message \cup Backlog
  PROVE  m \in Mention /\ Consistent(m)
BY PriceFlowAssumption

LEMMA LiveIsRight ==
  ASSUME IInv
  PROVE  Live \in Flow \cup {NoFlow} /\ FlowIsRight(Live)
BY DEF IInv, TypeOK, Live, FlowIsRight

LEMMA InitEstablishes == Init => IInv
BY DEF Init, IInv, TypeOK, NoSweep, FlowIsRight, QueryIsReady, JobIsRight

(* A request that is sent.                                                 *)
LEMMA SendKeeps ==
  ASSUME IInv, NEW kind \in {"stay", "rooms"}, NEW d \in Data, Send(kind, d),
         Priceable(d), kind = "stay" => Ready(d)
  PROVE  asked' \in [Slot -> Job \cup {NoJob}] /\ (\A s \in Slot : JobIsRight(asked'[s]))
<1>1. PICK s \in Slot : asked' = [asked EXCEPT ![s] = [kind |-> kind, data |-> d]]
  BY DEF Send
<1> DEFINE j == [kind |-> kind, data |-> d]
<1>2. j \in Job /\ JobIsRight(j)
  BY DEF Job, JobIsRight
<1> HIDE DEF j
<1>3. asked' = [asked EXCEPT ![s] = j] /\ asked \in [Slot -> Job \cup {NoJob}]
  BY <1>1 DEF j, IInv, TypeOK
<1>. QED BY <1>2, <1>3 DEF IInv

LEMMA DoKeeps ==
  ASSUME IInv, NEW r \in Result, Right(r), Do(r)
  PROVE  IInv'
<1>1. last' = last /\ sweep' = sweep
  BY DEF Do
<1>2. r.data \in Data /\ r.state \in State
  BY DEF Result
<1>3. CASE r.does = "asks" /\ Saved(r.state, r.data) /\ UNCHANGED asked
  <2>1. Live # NoFlow => Live.stale \in BOOLEAN
    BY LiveIsRight DEF Flow
  <2>2. flow' \in Flow /\ flow'.state = r.state /\ flow'.data = r.data
    BY <1>2, <1>3, <2>1 DEF Saved, Flow
  <2>3. FlowIsRight(flow')
    BY <1>3, <2>2 DEF FlowIsRight, Right
  <2>. QED BY <1>1, <1>3, <2>2, <2>3 DEF IInv, TypeOK
<1>4. CASE r.does = "ends" /\ Clear /\ UNCHANGED asked
  BY <1>1, <1>4 DEF IInv, TypeOK, Clear, FlowIsRight
<1>5. CASE r.does \in {"stay", "rooms"} /\ Send(r.does, r.data) /\ flow' = Live
  <2>1. Priceable(r.data) /\ (r.does = "stay" => Ready(r.data))
    BY <1>5 DEF Right, Ready, Complete, Priceable
  <2>2. asked' \in [Slot -> Job \cup {NoJob}] /\ (\A s \in Slot : JobIsRight(asked'[s]))
    BY <1>2, <1>5, <2>1, SendKeeps
  <2>. QED BY <1>1, <1>5, <2>2, LiveIsRight DEF IInv, TypeOK
<1>. QED BY <1>3, <1>4, <1>5 DEF Do

(* A query that is answered can be asked again.                            *)
LEMMA AnsweredIsReady ==
  ASSUME NEW d \in Data, Ready(d)
  PROVE  /\ [d EXCEPT !.many = FALSE, !.groups = "none"] \in Data
         /\ Ready([d EXCEPT !.many = FALSE, !.groups = "none"])
BY DEF Data, Groups, Ready, Complete, DatesMissing, GuestsMissing, CountMissing, AgesMissing

LEMMA NextKeeps == IInv /\ [Next]_vars => IInv'
<1> SUFFICES ASSUME IInv, [Next]_vars PROVE IInv'
  OBVIOUS
<1> USE DEF IInv
<1>1. ASSUME NEW m \in Message, AskCurrency(m) PROVE IInv'
  <2>1. last \in Data /\ Ready(last)
    BY <1>1 DEF AskCurrency, TypeOK, QueryIsReady, Query
  <2>2. asked' \in [Slot -> Job \cup {NoJob}] /\ (\A s \in Slot : JobIsRight(asked'[s]))
    BY <1>1, <2>1, SendKeeps DEF AskCurrency, Priceable, Ready, Complete
  <2>. QED BY <1>1, <2>2 DEF AskCurrency, TypeOK
<1>2. ASSUME NEW m \in Message, Continue(m) PROVE IInv'
  <2>1. Reply(Live, m) \in Result /\ Right(Reply(Live, m))
    BY <1>2, LiveIsRight, MessagesAreConsistent, ReplyIsRight DEF Continue, FlowIsRight
  <2>. QED BY <1>2, <2>1, DoKeeps DEF Continue
<1>3. ASSUME NEW m \in Message, Start(m) PROVE IInv'
  <2>1. PICK h \in Backlog :
          LET d == FromNumbers(FromBacklog(FirstData(m), h), m)
          IN  Do(IF d.refused THEN Ends(d) ELSE Proceed(d))
    BY <1>3 DEF Start
  <2> DEFINE d == FromNumbers(FromBacklog(FirstData(m), h), m)
  <2>2. m \in Mention /\ Consistent(m) /\ h \in Mention
    BY MessagesAreConsistent
  <2>3. FirstData(m) \in Data /\ Sound(FirstData(m))
    BY <2>2, FirstDataIsSound DEF TypeOK, Query
  <2>4. FromBacklog(FirstData(m), h) \in Data /\ Sound(FromBacklog(FirstData(m), h))
    BY <2>2, <2>3, FromBacklogIsSound
  <2>5. d \in Data /\ Sound(d)
    BY <2>2, <2>4, FromNumbersIsSound
  <2> HIDE DEF d
  <2>6. Ends(d) \in Result /\ Right(Ends(d))
    BY <2>5 DEF Ends, Result, Right, State
  <2>7. Proceed(d) \in Result /\ Right(Proceed(d))
    BY <2>5, ProceedIsRight
  <2>8. Do(IF d.refused THEN Ends(d) ELSE Proceed(d))
    BY <2>1 DEF d
  <2>. QED BY <2>6, <2>7, <2>8, DoKeeps
<1>4. CASE AskFeature
  <2> DEFINE d == [Live.data EXCEPT !.many = FALSE, !.groups = "none"]
  <2>1. d \in Data /\ Sound(d)
    BY <1>4, LiveIsRight DEF AskFeature, Flow, Data, Groups, Sound
  <2>2. Do(Proceed(d))
    BY <1>4 DEF AskFeature
  <2> HIDE DEF d
  <2>. QED BY <2>1, <2>2, ProceedIsRight, DoKeeps
<1>5. CASE Cancel \/ ConversationOver
  BY <1>5 DEF Cancel, ConversationOver, Clear, TypeOK, FlowIsRight
<1>6. CASE Aside
  BY <1>6, LiveIsRight DEF Aside, TypeOK
<1>7. ASSUME NEW s \in Slot, Answer(s) PROVE IInv'
  <2>1. asked[s] \in Job /\ JobIsRight(asked[s])
    BY <1>7 DEF Answer, TypeOK
  <2>2. asked' \in [Slot -> Job \cup {NoJob}] /\ (\A t \in Slot : JobIsRight(asked'[t]))
    BY <1>7 DEF Answer, TypeOK, JobIsRight
  <2>3. last' \in Query \cup {NoQuery} /\ QueryIsReady(last')
    <3>1. CASE last' = last
      BY <3>1 DEF TypeOK
    <3>2. CASE /\ asked[s].kind = "stay"
               /\ last' = [asked[s].data EXCEPT !.many = FALSE, !.groups = "none"]
      <4>1. asked[s].data \in Data /\ Ready(asked[s].data)
        BY <1>7, <2>1, <3>2 DEF Job, JobIsRight, Answer
      <4>. QED BY <3>2, <4>1, AnsweredIsReady DEF Query, QueryIsReady
    <3>. QED BY <1>7, <3>1, <3>2 DEF Answer
  <2>. QED BY <1>7, <2>2, <2>3 DEF Answer, Clear, TypeOK, FlowIsRight
<1>8. CASE QuarterPasses \/ HourPasses
  <2>1. ASSUME NEW f \in Flow \cup {NoFlow}, FlowIsRight(f)
        PROVE  Aged(f) \in Flow \cup {NoFlow} /\ FlowIsRight(Aged(f))
    BY <2>1 DEF Aged, Flow, FlowIsRight
  <2>2. sweep.flow \in Flow \cup {NoFlow} /\ flow \in Flow \cup {NoFlow}
    BY DEF TypeOK
  <2>3. flow' = Aged(flow) /\ sweep'.flow = Aged(sweep.flow)
    BY <1>8 DEF QuarterPasses, HourPasses, TypeOK
  <2>4. /\ last' \in {last, NoQuery} /\ sweep'.last \in {sweep.last, NoQuery}
        /\ asked' = asked
    BY <1>8 DEF QuarterPasses, HourPasses, TypeOK
  <2>5. sweep' \in [on : BOOLEAN, flow : Flow \cup {NoFlow}, last : Query \cup {NoQuery}]
    <3>1. Aged(sweep.flow) \in Flow \cup {NoFlow}
      BY <2>1, <2>2
    <3>. QED BY <1>8, <3>1 DEF QuarterPasses, HourPasses, TypeOK
  <2>. QED BY <2>1, <2>2, <2>3, <2>4, <2>5 DEF TypeOK, QueryIsReady
<1>9. CASE Purge
  BY <1>9 DEF Purge, Clear, TypeOK, FlowIsRight, QueryIsReady
<1>10. CASE SweepLoads
  BY <1>10 DEF SweepLoads, TypeOK, FlowIsRight
<1>11. CASE SweepSaves
  BY <1>11 DEF SweepSaves, NoSweep, TypeOK, FlowIsRight, QueryIsReady
<1>12. CASE Restart
  BY <1>12 DEF Restart, NoSweep, TypeOK, FlowIsRight, QueryIsReady, JobIsRight
<1>13. CASE UNCHANGED vars
  BY <1>13 DEF vars, TypeOK
<1>. QED BY <1>1, <1>2, <1>3, <1>4, <1>5, <1>6, <1>7, <1>8, <1>9, <1>10, <1>11, <1>12,
            <1>13 DEF Next

LEMMA Invariance == Spec => []IInv
BY InitEstablishes, NextKeeps, PTL DEF Spec

-----------------------------------------------------------------------------
(* The properties                                                          *)

(* Every dialogue, query, request and copy keeps its type.                 *)
THEOREM PriceTypeCorrect == Spec => []TypeOK
<1>1. IInv => TypeOK
  BY DEF IInv
<1>. QED BY <1>1, Invariance, PTL

(* The question that is put belongs to the details kept beside it.         *)
THEOREM QuestionsFit == Spec => []AsksWhatIsMissing
<1>1. IInv => AsksWhatIsMissing
  BY DEF IInv, FlowIsRight, Fits, AsksWhatIsMissing
<1>. QED BY <1>1, Invariance, PTL

(* Nothing incomplete is sent to Elektra.                                  *)
THEOREM RequestsAreComplete == Spec => []AskedIsComplete
<1>1. IInv => AskedIsComplete
  BY DEF IInv, JobIsRight, Priceable, Ready, AskedIsComplete
<1>. QED BY <1>1, Invariance, PTL

LEMMA RankOf ==
  ASSUME NEW d
  PROVE  /\ Rank(Question(d)) \in 1..4
         /\ ~DatesMissing(d) => Rank(Question(d)) > 1
         /\ ~DatesMissing(d) /\ ~GuestsMissing(d) => Rank(Question(d)) > 2
         /\ ~DatesMissing(d) /\ ~GuestsMissing(d) /\ ~CountMissing(d) => Rank(Question(d)) > 3
BY QuestionOf DEF Rank

(* A question is put only while something is missing.                      *)
LEMMA ProceedAsksOn ==
  ASSUME NEW d, Proceed(d).does = "asks"
  PROVE  Proceed(d).data = d /\ ~Complete(d)
BY DEF Proceed, QueryElektraweb, Asks, Ends, Prices

LEMMA DatesAdvance ==
  ASSUME NEW d \in Data, NEW m \in Mention,
         Or(m.from, d.from, NoDay) # NoDay, m.to # NoDay \/ m.nights > 0,
         AnswerDates(d, m).does = "asks"
  PROVE  ~DatesMissing(AnswerDates(d, m).data)
<1> DEFINE from == Or(m.from, d.from, NoDay)
           end  == IF from # NoDay /\ m.nights > 0 THEN After(from, m.nights) ELSE NoDay
           to   == Or(m.to, end, NoDay)
           g    == WithGuests(d, m)
           e    == [g EXCEPT !.from = from, !.to = Or(to, @, NoDay)]
<1>1. g \in Data
  BY WithGuestsType
<1>2. from # NoDay /\ to # NoDay
  <2>1. from # NoDay /\ from \in DayOrNone /\ m.nights \in Nat
    BY DEF Or, Data, Mention, DayOrNone
  <2> HIDE DEF from
  <2>2. m.nights > 0 => end # NoDay
    BY <2>1, AfterIsADay, PriceFlowAssumption DEF DayOrNone
  <2> HIDE DEF end
  <2>. QED BY <2>1, <2>2 DEF Or
<1> HIDE DEF g, from, to, end
<1>3. ~DatesMissing(e)
  BY <1>1, <1>2 DEF Or, Data, DatesMissing
<1>4. AnswerDates(d, m) \in {Proceed(e), Ends(e)}
  BY DEF AnswerDates, e, from, to, end, g
<1>5. Ends(e).does # "asks"
  BY DEF Ends
<1>. QED BY <1>3, <1>4, <1>5, ProceedAsksOn

(* An answer to the questions about the guests.                            *)
LEMMA GuestsAdvance ==
  ASSUME NEW d \in Data, Sound(d), Fits("ask_guests", d),
         NEW m \in Mention, Consistent(m),
         AnswerGuests(d, m).does = "asks"
  PROVE  LET r == AnswerGuests(d, m)
         IN  \/ Rank(Question(r.data)) > Rank(Question(d))
             \/ Question(r.data) = Question(d) /\ ~Tells(m, d)
             \/ Question(r.data) = "guests" /\ m.groups = "some"
<1> DEFINE r == AnswerGuests(d, m)
           c == WithCurrency(d, m)
           e == [c EXCEPT !.groups = IF d.many THEN Or(m.groups, @, "none") ELSE @]
           g == WithGuests(e, m)
           f == [g EXCEPT !.from = Or(m.from, @, NoDay), !.to = Or(m.to, @, NoDay)]
<1>1. ~DatesMissing(d) /\ (GuestsMissing(d) \/ CountMissing(d))
  BY DEF Fits
<1>2. /\ c \in Data /\ c.groups = d.groups /\ c.many = d.many /\ c.adults = d.adults
      /\ c.from = d.from /\ c.to = d.to /\ c.count = d.count
  BY DEF WithCurrency, Data, Mention
<1> HIDE DEF c
<1>3. /\ e \in Data /\ e.many = d.many /\ e.adults = d.adults
      /\ e.from = d.from /\ e.to = d.to /\ e.count = d.count
      /\ e.groups = IF d.many THEN Or(m.groups, d.groups, "none") ELSE d.groups
  BY <1>2 DEF Data, Mention, Or, Groups
<1> HIDE DEF e
<1>4. /\ g \in Data /\ g.many = d.many /\ g.groups = e.groups
      /\ g.from = d.from /\ g.to = d.to /\ g.adults = (d.adults \/ m.adults)
      /\ g.count = IF m.count = "unsaid" THEN d.count ELSE m.count = "some"
  BY <1>3, WithGuestsType
<1> HIDE DEF g
<1>5. /\ f \in Data /\ f.many = d.many /\ f.groups = e.groups
      /\ f.adults = (d.adults \/ m.adults) /\ ~DatesMissing(f) /\ f.count = g.count
  BY <1>1, <1>4 DEF Data, Mention, Or, DayOrNone, DatesMissing
<1>6. CASE d.many /\ m.groups = "some"
  <2>1. e.groups = "some" /\ e.many /\ ~DatesMissing(e)
    BY <1>1, <1>3, <1>6 DEF Or, DatesMissing
  <2>2. Question(e) = "guests"
    BY <2>1, QuestionOf DEF GuestsMissing
  <2>3. r.data = e
    BY <1>6 DEF AnswerGuests, e, c, Asks
  <2>. QED BY <1>6, <2>2, <2>3
<1>7. CASE d.many /\ m.groups = "all"
  <2>1. r.does = "rooms"
    BY <1>1, <1>7 DEF AnswerGuests, Prices
  <2>. QED BY <2>1
<1>8. CASE ~(d.many /\ m.groups = "some") /\ ~(d.many /\ m.groups = "all")
  <2>1. r = IF f.adults THEN Proceed(f) ELSE Asks("ask_guests", f)
    BY <1>8 DEF AnswerGuests, f, g, e, c
  <2> HIDE DEF f
  <2>2. r.data = f
    BY <2>1, ProceedAsksOn DEF Asks
  <2>3. f.groups = d.groups
    BY <1>3, <1>5, <1>8 DEF Or, Mention, Groups, Data, GuestsMissing
  <2>4. ~GuestsMissing(d) => ~GuestsMissing(f)
    BY <1>5, <2>3 DEF GuestsMissing
  <2>5. CASE GuestsMissing(d)
    <3>1. Question(d) = "guests" /\ Rank(Question(d)) = 2
      BY <1>1, <2>5, QuestionOf DEF Rank
    <3>2. CASE GuestsMissing(f)
      <4>1. Question(f) = "guests"
        BY <1>5, <3>2, QuestionOf
      <4>2. ~Tells(m, d)
        BY <1>5, <1>8, <3>1, <3>2 DEF Tells, GuestsMissing
      <4>. QED BY <2>2, <3>1, <4>1, <4>2
    <3>3. CASE ~GuestsMissing(f)
      BY <1>5, <2>2, <3>1, <3>3, RankOf
    <3>. QED BY <3>2, <3>3
  <2>6. CASE ~GuestsMissing(d)
    <3>1. Question(d) = "child_count" /\ Rank(Question(d)) = 3
      BY <1>1, <2>6, QuestionOf DEF Rank
    <3>2. CASE CountMissing(f)
      <4>1. Question(f) = "child_count"
        BY <1>5, <2>4, <2>6, <3>2, QuestionOf
      <4>2. m.count # "some"
        BY <1>4, <1>5, <3>2 DEF CountMissing
      <4>. QED BY <2>2, <3>1, <4>1, <4>2 DEF Tells
    <3>3. CASE ~CountMissing(f)
      BY <1>5, <2>2, <2>4, <2>6, <3>1, <3>3, RankOf
    <3>. QED BY <3>2, <3>3
  <2>. QED BY <2>5, <2>6
<1>. QED BY <1>6, <1>7, <1>8 DEF Mention, Groups

(* The ages are the last question: it is put again, or none is.            *)
LEMMA AgesEnd ==
  ASSUME NEW d \in Data, Fits("ask_child_ages", d),
         NEW m \in Mention, Consistent(m),
         AnswerChildAges(d, m).does = "asks"
  PROVE  Question(AnswerChildAges(d, m).data) = Question(d) /\ ~Tells(m, d)
<1> DEFINE given == m.ages \/ m.numbers
           c == WithCurrency(d, m)
           e == [c EXCEPT
                  !.ages  = @ \/ given,
                  !.count = IF m.count # "unsaid" THEN m.count = "some" ELSE @ \/ given]
           n == [e EXCEPT !.child = FALSE, !.count = FALSE]
<1>1. ~DatesMissing(d) /\ ~GuestsMissing(d) /\ ~CountMissing(d) /\ AgesMissing(d)
  BY DEF Fits, Complete
<1>2. /\ c \in Data /\ c.groups = d.groups /\ c.many = d.many /\ c.adults = d.adults
      /\ c.from = d.from /\ c.to = d.to /\ c.child = d.child /\ c.count = d.count
      /\ c.ages = d.ages
  BY DEF WithCurrency, Data, Mention
<1> HIDE DEF c
<1>3. /\ e \in Data /\ e.groups = d.groups /\ e.many = d.many /\ e.adults = d.adults
      /\ e.from = d.from /\ e.to = d.to /\ e.child = d.child
      /\ e.ages = (d.ages \/ given)
      /\ e.count = IF m.count # "unsaid" THEN m.count = "some" ELSE d.count \/ given
  BY <1>2 DEF Data, Mention
<1> HIDE DEF e
<1>4. e.ages => given /\ Complete(e)
  BY <1>1, <1>3
     DEF Complete, DatesMissing, GuestsMissing, CountMissing, AgesMissing, Consistent, Mention
<1>5. Complete(n)
  BY <1>1, <1>3 DEF Complete, DatesMissing, GuestsMissing, CountMissing, AgesMissing, Data
<1>6. AnswerChildAges(d, m) = IF e.ages THEN Proceed(e)
                              ELSE IF m.no THEN Proceed(n) ELSE Asks("ask_child_ages", e)
  BY DEF AnswerChildAges, e, c
<1>7. ~e.ages /\ ~m.no
  BY <1>4, <1>5, <1>6, ProceedAsksOn
<1>8. AnswerChildAges(d, m).data = e
  BY <1>6, <1>7 DEF Asks
<1>9. Question(d) = "child_ages"
  BY <1>1, QuestionOf
<1>10. m.count # "zero"
  BY <1>7 DEF Consistent
<1>11. Question(e) = "child_ages"
  <2>1. ~DatesMissing(e) /\ ~GuestsMissing(e) /\ ~CountMissing(e)
    BY <1>1, <1>3, <1>10
       DEF DatesMissing, GuestsMissing, CountMissing, AgesMissing, Mention
  <2>. QED BY <2>1, QuestionOf
<1>12. ~Tells(m, d)
  BY <1>3, <1>7, <1>9 DEF Tells
<1>. QED BY <1>8, <1>9, <1>11, <1>12

(* No message leads back to an earlier question, whatever it says, except  *)
(* that it may open the guests of the rooms; and what it tells is taken.   *)
THEOREM QuestionsGoOn == Spec => []NeverAskedBack
<1>1. ASSUME IInv PROVE NeverAskedBack
  <2> SUFFICES ASSUME flow # NoFlow, NEW m \in Message, Reply(flow, m).does = "asks"
               PROVE  LET new == Question(Reply(flow, m).data)
                          old == Question(flow.data)
                      IN  \/ Rank(new) > Rank(old)
                          \/ new = old /\ ~Tells(m, flow.data)
                          \/ new = "guests" /\ m.groups = "some"
    BY DEF NeverAskedBack
  <2>1. /\ flow \in Flow /\ Fits(flow.state, flow.data) /\ Sound(flow.data)
        /\ flow.data \in Data /\ flow.state \in State
    BY <1>1 DEF IInv, TypeOK, FlowIsRight, Flow
  <2>2. m \in Mention /\ Consistent(m)
    BY MessagesAreConsistent
  <2>3. CASE flow.state = "ask_dates"
    <3> DEFINE e == AnswerDates(flow.data, m).data
    <3>1. Reply(flow, m) = AnswerDates(flow.data, m)
      BY <2>3 DEF Reply
    <3>2. DatesMissing(flow.data)
      BY <2>1, <2>3 DEF Fits
    <3>3. Rank(Question(flow.data)) = 1 /\ Question(flow.data) = "dates"
      BY <3>2, QuestionOf DEF Rank
    <3>4. CASE DatesMissing(e)
      <4>1. Question(e) = "dates"
        BY <3>4, QuestionOf
      <4>2. ~Tells(m, flow.data)
        BY <2>1, <2>2, <3>1, <3>3, <3>4, DatesAdvance DEF Tells
      <4>. QED BY <3>1, <3>3, <4>1, <4>2
    <3>5. CASE ~DatesMissing(e)
      BY <3>1, <3>3, <3>5, RankOf
    <3>. QED BY <3>4, <3>5
  <2>4. CASE flow.state = "ask_guests"
    BY <2>1, <2>2, <2>4, GuestsAdvance DEF Reply
  <2>5. CASE flow.state = "ask_child_ages"
    BY <2>1, <2>2, <2>5, AgesEnd DEF Reply
  <2>. QED BY <2>1, <2>3, <2>4, <2>5 DEF State
<1>. QED BY <1>1, Invariance, PTL

(* An old dialogue is not carried on.                                      *)
THEOREM OldFlowsAreLeft == Spec => OldFlowIsLeft
<1> DEFINE A == flow # NoFlow /\ flow.stale /\ flow' # NoFlow /\ flow'.data # flow.data
                  => ~flow'.stale \/ flow' = sweep.flow
<1>1. ASSUME IInv, [Next]_vars PROVE A
  <2> SUFFICES ASSUME flow # NoFlow, flow.stale, flow' # NoFlow, flow'.data # flow.data
               PROVE  ~flow'.stale \/ flow' = sweep.flow
    OBVIOUS
  <2>1. Live = NoFlow
    BY DEF Live
  <2>2. ASSUME NEW r, Do(r) PROVE ~flow'.stale
    <3>1. flow' # Live
      BY <2>1
    <3>2. Saved(r.state, r.data)
      BY <2>2, <3>1 DEF Do, Clear
    <3>3. flow'.stale = (Live # NoFlow /\ Live.stale)
      BY <3>2 DEF Saved
    <3>. QED BY <2>1, <3>3
  <2>3. ASSUME NEW m \in Message, AskCurrency(m) \/ Continue(m) PROVE FALSE
    BY <2>1, <2>3 DEF AskCurrency, Continue
  <2>4. ASSUME NEW m \in Message, Start(m) PROVE ~flow'.stale
    BY <2>2, <2>4 DEF Start
  <2>5. CASE AskFeature \/ Cancel \/ Aside
    BY <2>1, <2>5 DEF AskFeature, Cancel, Aside
  <2>6. ASSUME NEW s \in Slot, Answer(s) PROVE FALSE
    BY <2>6 DEF Answer, Clear
  <2>7. CASE QuarterPasses \/ HourPasses
    <3>1. flow' = Aged(flow) /\ flow \in Flow
      BY <1>1, <2>7 DEF QuarterPasses, HourPasses, IInv, TypeOK
    <3>. QED BY <3>1 DEF Aged, Flow
  <2>8. CASE ConversationOver \/ Purge
    BY <2>8 DEF ConversationOver, Purge, Clear
  <2>9. CASE SweepLoads \/ Restart \/ UNCHANGED vars
    BY <2>9 DEF SweepLoads, Restart, vars
  <2>10. CASE SweepSaves
    BY <2>10 DEF SweepSaves
  <2>. QED BY <1>1, <2>3, <2>4, <2>5, <2>6, <2>7, <2>8, <2>9, <2>10 DEF Next
<1>2. IInv /\ [Next]_vars => [A]_vars
  BY <1>1
<1>3. Spec => [][A]_vars
  BY <1>2, Invariance, PTL DEF Spec
<1>. QED BY <1>3 DEF OldFlowIsLeft
-----------------------------------------------------------------------------
(* The two readings of an availability answer                              *)

(* A set of naturals has a smallest element, a bounded one a largest.      *)
LEMMA SmallestOfNat ==
  ASSUME NEW S \in SUBSET Nat, S # {}
  PROVE  Min(S) \in S /\ \A y \in S : Min(S) <= y
<1> DEFINE R == {ss \in Nat \X Nat : ss[1] < ss[2]}
<1>1. IsWellFoundedOn(R, Nat)
  BY NatLessThanWellFounded DEF OpToRel
<1>2. PICK x \in S : \A y \in S : ~ (<<y, x>> \in R)
  <2> HIDE DEF R
  <2>. QED BY <1>1, WFMin
<1>3. ASSUME NEW y \in S PROVE x <= y
  <2>1. ~ (<<y, x>> \in R)
    BY <1>2
  <2>2. ~ (y < x)
    BY <2>1
  <2>. QED BY <2>2
<1>4. \E z \in S : \A y \in S : z <= y
  BY <1>3
<1>. QED BY <1>4, Zenon DEF Min

LEMMA LargestOfBounded ==
  ASSUME NEW n \in Nat, NEW S \in SUBSET (0..n), S # {}
  PROVE  Max(S) \in S /\ \A y \in S : Max(S) >= y
<1> DEFINE T == {n - x : x \in S}
<1>1. \A x \in S : x \in 0..n /\ n - x \in Nat
  OBVIOUS
<1>2. T \in SUBSET Nat /\ T # {}
  BY <1>1
<1>3. Min(T) \in T /\ \A y \in T : Min(T) <= y
  <2> HIDE DEF T
  <2>. QED BY <1>2, SmallestOfNat
<1>4. PICK x \in S : Min(T) = n - x
  BY <1>3
<1>5. ASSUME NEW y \in S PROVE x >= y
  <2>1. n - x <= n - y
    BY <1>3, <1>4
  <2>. QED BY <1>1, <2>1
<1>6. \E z \in S : \A y \in S : z >= y
  BY <1>5
<1>. QED BY <1>6, Zenon DEF Max

LEMMA SmallestPositive ==
  ASSUME NEW S \in SUBSET Nat, S # {}
  PROVE  Min(S) > 0 <=> \A y \in S : y > 0
<1>1. PICK m \in S : m = Min(S) /\ \A y \in S : m <= y
  BY SmallestOfNat
<1>. QED BY <1>1

LEMMA LargestPositive ==
  ASSUME NEW n \in Nat, NEW S \in SUBSET (0..n), S # {}
  PROVE  Max(S) \in Nat /\ (Max(S) > 0 <=> \E y \in S : y > 0)
<1>1. PICK m \in S : m = Max(S) /\ \A y \in S : m >= y
  BY LargestOfBounded
<1>. QED BY <1>1

(* A row counts as free in one reading if it adds to the count in the      *)
(* other.                                                                  *)
LEMMA FreeIsForSale ==
  ASSUME NEW r \in Row
  PROVE  /\ ForSale(r) \in 0..Most
         /\ (r.left # NoNumber /\ r.left > 0 /\ ~r.stop) <=> ForSale(r) > 0
BY PriceAnswerAssumption DEF Row, Left, ForSale

(* For any nights, rooms, keys and rows with numbers: a room that is had   *)
(* on every night makes its key count one on each of them, and the room of *)
(* a key of its own is the only one that can.                              *)
LEMMA ReadingsDoAgree ==
  ASSUME NEW nights \in SUBSET Int
  PROVE  ReadingsAgree(nights)
<1> SUFFICES ASSUME NEW rows \in SUBSET {r \in Listed : r.said}, NEW room \in Named
             PROVE  LET stock == RoomStock(rows, nights)
                        key   == KeyOf[room]
                        Counted == key \in DOMAIN stock /\ stock[key] > 0
                        Alone == \A x \in Named : KeyOf[x] = KeyOf[room] => x = room
                    IN  /\ room \in EligibleRooms(rows, nights) => Counted
                        /\ Counted /\ Alone => room \in EligibleRooms(rows, nights)
  BY DEF ReadingsAgree
<1> DEFINE key == KeyOf[room]
           Kin(r)   == r.room \in Named /\ KeyOf[r.room] = key
           Sold(n)  == {ForSale(r) : r \in RowsOfKey(rows, key, {n})}
           Bests    == {Max(Sold(n)) : n \in nights}
           Had      == \A n \in nights : \E r \in rows : r.date = n /\ r.room = room /\ ForSale(r) > 0
           KinHad   == \A n \in nights : \E r \in rows : r.date = n /\ Kin(r) /\ ForSale(r) > 0
           Listing  == \A n \in nights : \E r \in rows : r.date = n /\ Kin(r)
<1>1. \A r \in rows : r \in Row /\ r.said
  BY ListedAssumption
<1>2. key \in Key /\ room \in Room
  BY PriceAnswerAssumption
<1>3. room \in EligibleRooms(rows, nights) <=> nights # {} /\ Had
  <2> DEFINE Good == {r \in RowsOf(rows, room, nights) :
                        r.said => r.left # NoNumber /\ r.left > 0 /\ ~r.stop}
  <2>1. Good = {r \in rows : r.date \in nights /\ r.room = room /\ ForSale(r) > 0}
    BY <1>1, FreeIsForSale DEF RowsOf
  <2>2. nights = Dates(Good) <=> Had
    BY <2>1 DEF Dates
  <2>. QED BY <1>2, <2>2 DEF EligibleRooms
<1>4. key \in DOMAIN RoomStock(rows, nights) <=> nights # {} /\ Listing
  <2>1. Dates(RowsOfKey(rows, key, nights)) = nights <=> Listing
    BY DEF Dates, RowsOfKey
  <2>. QED BY <1>2, <2>1 DEF RoomStock
<1>5. ASSUME NEW n \in nights, Listing
      PROVE  /\ Max(Sold(n)) \in Nat
             /\ Max(Sold(n)) > 0 <=> \E r \in rows : r.date = n /\ Kin(r) /\ ForSale(r) > 0
  <2>1. Sold(n) = {ForSale(r) : r \in {q \in rows : Kin(q) /\ q.date = n}}
    BY DEF RowsOfKey
  <2>2. Sold(n) \in SUBSET (0..Most) /\ Sold(n) # {} /\ Most \in Nat
    <3>1. \A q \in rows : ForSale(q) \in 0..Most
      BY <1>1, FreeIsForSale
    <3>2. \E q \in rows : Kin(q) /\ q.date = n
      BY <1>5
    <3> HIDE DEF Kin
    <3>. QED BY <2>1, <3>1, <3>2, PriceAnswerAssumption
  <2>3. (\E y \in Sold(n) : y > 0)
          <=> \E r \in rows : r.date = n /\ Kin(r) /\ ForSale(r) > 0
    BY <2>1
  <2> HIDE DEF Sold
  <2>4. Max(Sold(n)) \in Nat /\ (Max(Sold(n)) > 0 <=> \E y \in Sold(n) : y > 0)
    BY <2>2, LargestPositive
  <2>. QED BY <2>3, <2>4
<1>6. ASSUME nights # {}, Listing
      PROVE  RoomStock(rows, nights)[key] > 0 <=> KinHad
  <2>1. RoomStock(rows, nights)[key] = Min(Bests)
    BY <1>4, <1>6 DEF RoomStock
  <2>2. Bests \in SUBSET Nat /\ Bests # {}
    BY <1>5, <1>6
  <2>3. (\A y \in Bests : y > 0) <=> \A n \in nights : Max(Sold(n)) > 0
    OBVIOUS
  <2>4. Min(Bests) > 0 <=> \A y \in Bests : y > 0
    <3> HIDE DEF Bests
    <3>. QED BY <2>2, SmallestPositive
  <2>. QED BY <1>5, <1>6, <2>1, <2>3, <2>4
<1>7. Had => KinHad
  OBVIOUS
<1>8. KinHad => Listing
  OBVIOUS
<1>9. KinHad /\ (\A x \in Named : KeyOf[x] = key => x = room) => Had
  OBVIOUS
<1>. QED BY <1>3, <1>4, <1>6, <1>7, <1>8, <1>9

(* A request that is out is for a stay with a first and a last day, and of *)
(* its nights the two readings agree.                                      *)
THEOREM PricesFollowStock == Spec => []PricedIsInStock
<1>1. ASSUME IInv PROVE PricedIsInStock
  <2> SUFFICES ASSUME NEW s \in Slot, asked[s] # NoJob
               PROVE  /\ {asked[s].data.from, asked[s].data.to} \subseteq Day
                      /\ Agreement[asked[s].data.from][asked[s].data.to]
    BY DEF PricedIsInStock
  <2>1. PICK from \in Day, to \in Day : from = asked[s].data.from /\ to = asked[s].data.to
    BY <1>1 DEF IInv, TypeOK, Job, Data, DayOrNone, JobIsRight, Priceable, DatesMissing
  <2>2. Nights(from, to) \in SUBSET Int
    BY DEF Nights, Day
  <2>3. Agreement[from][to]
    <3>1. ReadingsAgree(Nights(from, to))
      BY <2>2, ReadingsDoAgree
    <3>. QED BY <3>1 DEF Agreement
  <2>. QED BY <2>1, <2>3
<1>. QED BY <1>1, Invariance, PTL
=============================================================================
