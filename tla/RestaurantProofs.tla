-------------------------- MODULE RestaurantProofs --------------------------
(***************************************************************************)
(* Proofs about the restaurant dialogue, for any sizes of party, threads,  *)
(* dialogues and reservations.                                             *)
(*                                                                         *)
(* Whatever a message does, the dialogue moves in one of four ways (Moves):*)
(* it stays or ends, it asks for something, it shows a summary of what it  *)
(* holds, or a new one begins.  None of them breaks the link between a     *)
(* flow that waits for its yes and the summary; a sweep does, and is noted *)
(* in undone.                                                              *)
(***************************************************************************)
EXTENDS Restaurant, TLAPS

Entry == Flow \cup {NoFlow}

(* A flow that waits for the yes holds what was shown.                     *)
HoldsShown ==
  flow # NoFlow /\ flow.state = "confirm" /\ flow.id \notin undone
    => flow.data = shown[flow.id]

(* Reservations belong to dialogues that have begun, and not to the one    *)
(* that goes on.                                                           *)
BookedIsOver ==
  \A r \in Row : rows[r] # NoRow =>
    /\ rows[r].id \in used
    /\ flow # NoFlow /\ flow.id = rows[r].id => flow.id \in undone \cup cut

(* A noted meal is that of the noted hour, or of one the hour replaced.    *)
Fit == {x \in Data : x.meal => x.time = "served" \/ x.kept}

HoursFit ==
  \A f \in {flow} \cup {copy[s] : s \in Sweeper} : f \in Flow => f.data \in Fit

IInv == TypeOK /\ HoursFit /\ HoldsShown /\ BookedIsOver /\ OneRowPerDialogue /\ Acceptable

-----------------------------------------------------------------------------
(* Details                                                                 *)

LEMMA NothingIsHeard == Nothing \in Heard
BY LimitAssumption DEF Nothing, Heard, Dates, Times

\* What the flow listens to is something it may hear.
LEMMA ListenedType ==
  ASSUME NEW s, NEW h \in Heard
  PROVE  Listened(s, h) \in Heard
BY LimitAssumption DEF Listened, Heard, Dates, Times

LEMMA FitIsData == Fit \subseteq Data
BY DEF Fit

LEMMA ReplacedType ==
  ASSUME NEW x \in Data, NEW h \in Heard
  PROVE  Replaced(x, h) \in Data
BY LimitAssumption DEF Replaced, Data, Heard, Dates, Times

\* An hour that is told brings its meal; without one the meal is as it was.
LEMMA ToldType ==
  ASSUME NEW x \in Fit, NEW h \in Heard
  PROVE  /\ Told(x, h) \in Fit
         /\ h.time = "none" => Told(x, h).time = x.time /\ Told(x, h).meal = x.meal
                               /\ Told(x, h).kept = x.kept
         /\ h.time # "none" => Told(x, h).time = h.time
BY LimitAssumption DEF Told, Replaced, Fit, Data, Heard, Dates, Times

\* A missing detail is asked for; the summary is not among the questions.
LEMMA MissingType ==
  ASSUME NEW x \in Data
  PROVE  /\ Missing(x) \in ReservationState
         /\ Missing(x) # "confirm"
BY DEF Missing, ReservationState

\* With nothing missing and nothing refused, a reservation is acceptable.
LEMMA AcceptableData ==
  ASSUME NEW x \in Fit, Missing(x) = "ask_special", ~Refused(x)
  PROVE  /\ x.guests \in 1..AutoLimit /\ x.date = "season" /\ x.name
         /\ x.time = "served" \/ x.kept
<1>1. /\ x.guests \in Nat /\ x.guests # 0 /\ ~(x.guests > AutoLimit)
      /\ x.date \in Dates /\ x.date # "none" /\ x.date # "out"
      /\ x.meal /\ x.name /\ (x.meal => x.time = "served" \/ x.kept)
  BY LimitAssumption DEF Missing, Refused, Data, Fit
<1>. QED BY <1>1, LimitAssumption DEF Dates

-----------------------------------------------------------------------------
(* The ways a dialogue moves                                               *)

Stays == flow' \in {flow, NoFlow} /\ UNCHANGED <<shown, used>>

AsksOn ==
  /\ flow # NoFlow
  /\ flow' \in Flow /\ flow'.id = flow.id /\ flow'.state # "confirm"
  /\ flow'.data \in Fit
  /\ UNCHANGED <<shown, used>>

Shows ==
  /\ flow # NoFlow
  /\ flow' \in Flow /\ flow'.id = flow.id /\ flow'.data \in Fit
  /\ shown' = [shown EXCEPT ![flow.id] = flow'.data]
  /\ UNCHANGED used

Begins ==
  /\ flow = NoFlow
  /\ flow' \in Flow /\ flow'.id \notin used /\ flow'.state # "confirm"
  /\ flow'.data \in Fit
  /\ used' = used \cup {flow'.id}
  /\ UNCHANGED shown

Moves ==
  /\ Stays \/ AsksOn \/ Shows \/ Begins
  /\ file' \in Question /\ memory' \in Question
  /\ UNCHANGED <<rows, cut, sweepVars>>

LEMMA NoFlowIsNone == NoFlow \notin Flow
BY NamesAssumption

LEMMA PassesType == Passes => file' \in Question /\ memory' \in Question
BY DEF Passes, Ask, NoQuestion, Question

\* Saving a question or a summary leaves a flow with the same name.
LEMMA SaveMoves ==
  ASSUME TypeOK, flow # NoFlow,
         NEW s \in ReservationState, NEW x \in Data, Save(s, x)
  PROVE  /\ flow' \in Flow /\ flow'.id = flow.id
         /\ flow'.state = s /\ flow'.data = x
BY DEF TypeOK, Save, Flow

\* No way a dialogue moves disturbs the invariant.
LEMMA MovesKeep == IInv /\ Moves => IInv'
<1> SUFFICES ASSUME IInv, Moves PROVE IInv'
  OBVIOUS
<1> USE NoFlowIsNone
<1>1. /\ flow \in Entry /\ copy \in [Sweeper -> Flow \cup {NoFlow, NoCopy}]
      /\ rows \in [Row -> Reservation \cup {NoRow}]
      /\ shown \in [Dialogue -> Data \cup {NoData}] /\ used \subseteq Dialogue
      /\ undone \subseteq Dialogue /\ cut \subseteq Dialogue
      /\ \A f \in {flow} \cup {copy[s] : s \in Sweeper} :
           f \in Flow => f.id \in used /\ (f.state = "confirm" => shown[f.id] # NoData)
  BY DEF IInv, TypeOK, Entry
<1>2. UNCHANGED <<rows, cut, copy, undone>> /\ file' \in Question /\ memory' \in Question
  BY DEF Moves, sweepVars
<1>7. HoursFit'
  BY <1>2 DEF IInv, HoursFit, Moves, Stays, AsksOn, Shows, Begins
<1>3. CASE Stays
  <2>1. TypeOK'
    BY <1>1, <1>2, <1>3 DEF TypeOK, Stays, Entry
  <2>. QED BY <1>2, <1>3, <1>7, <2>1 DEF IInv, Stays, HoldsShown, BookedIsOver, OneRowPerDialogue, Acceptable
<1>4. CASE AsksOn
  <2>1. TypeOK'
    BY <1>1, <1>2, <1>4 DEF TypeOK, AsksOn, Entry
  <2>. QED BY <1>2, <1>4, <1>7, <2>1 DEF IInv, AsksOn, HoldsShown, BookedIsOver, OneRowPerDialogue, Acceptable
<1>5. CASE Shows
  <2>1. flow \in Flow /\ flow.id \in used /\ flow.id \in Dialogue
    BY <1>1, <1>5 DEF Shows, Entry
  <2>2. flow'.data \in Data /\ flow'.data # NoData
    BY <1>5, NamesAssumption DEF Shows, Flow
  <2>3. /\ shown' \in [Dialogue -> Data \cup {NoData}]
        /\ shown'[flow.id] = flow'.data
        /\ \A d \in Dialogue : shown[d] # NoData => shown'[d] # NoData
    BY <1>1, <1>5, <2>1, <2>2 DEF Shows
  <2>4. TypeOK'
    BY <1>1, <1>2, <1>5, <2>1, <2>2, <2>3 DEF TypeOK, Shows
  <2>. QED BY <1>2, <1>5, <1>7, <2>1, <2>3, <2>4 DEF IInv, Shows, HoldsShown, BookedIsOver, OneRowPerDialogue, Acceptable
<1>6. CASE Begins
  <2>1. flow'.id \in Dialogue
    BY <1>6 DEF Begins, Flow
  <2>2. TypeOK'
    BY <1>1, <1>2, <1>6, <2>1 DEF TypeOK, Begins
  <2>. QED BY <1>2, <1>6, <1>7, <2>2 DEF IInv, Begins, HoldsShown, BookedIsOver, OneRowPerDialogue, Acceptable
<1>. QED BY <1>3, <1>4, <1>5, <1>6 DEF Moves

-----------------------------------------------------------------------------
(* The customer's messages move the dialogue                               *)

LEMMA StartMoves ==
  ASSUME TypeOK, HoursFit, NEW h \in Bookable, Start(h)
  PROVE  Moves
<1> DEFINE known == IF flow = NoFlow THEN Blank ELSE flow.data
           late  == h.time = "late" /\ known.meal
           x     == [Told(known, h) EXCEPT !.meal = @ \/ known.meal, !.kept = @ \/ late]
           state == IF h.guests = 0 THEN "ask_guests"
                    ELSE IF h.date = "none" THEN "ask_date"
                    ELSE IF h.time = "none" THEN "ask_time"
                    ELSE "ask_name"
<1>1. known \in Fit
  BY LimitAssumption DEF TypeOK, HoursFit, Blank, Fit, Data, Dates, Times
<1>2. h \in Heard /\ h.time \in Times
  BY DEF Bookable, Heard
<1>4. x \in Fit
  <2> DEFINE y == Told(known, h)
  <2>1. /\ y \in Fit
        /\ h.time = "none" => y.time = known.time /\ y.meal = known.meal /\ y.kept = known.kept
        /\ h.time # "none" => y.time = h.time
    BY <1>1, <1>2, ToldType
  <2>2. x = [y EXCEPT !.meal = y.meal \/ known.meal, !.kept = y.kept \/ late]
    BY <2>1 DEF Fit, Data
  <2> HIDE DEF x, y, known
  <2>3. x \in Data /\ x.time = y.time /\ x.meal = (y.meal \/ known.meal)
        /\ x.kept = (y.kept \/ late)
    BY <1>1, <2>1, <2>2 DEF Fit, Data
  <2>. QED BY <1>1, <1>2, <2>1, <2>3 DEF Fit, Times
<1>5. state \in ReservationState /\ state # "confirm"
  BY DEF ReservationState
<1>6. /\ Passes /\ UNCHANGED <<shown, cut, rows, sweepVars>>
      /\ \/ flow # NoFlow /\ Save(state, x) /\ UNCHANGED used
         \/ /\ flow = NoFlow
            /\ \E d \in Dialogue \ used :
                 /\ flow' = [state |-> state, data |-> x, id |-> d]
                 /\ used' = used \cup {d}
  BY DEF Start
<1> HIDE DEF known, late, x, state
<1>7. CASE flow # NoFlow /\ Save(state, x) /\ UNCHANGED used
  BY <1>4, <1>5, <1>6, <1>7, FitIsData, SaveMoves, PassesType DEF Moves, AsksOn
<1>8. CASE flow = NoFlow
  <2>1. PICK d \in Dialogue \ used :
          flow' = [state |-> state, data |-> x, id |-> d] /\ used' = used \cup {d}
    BY <1>6, <1>8
  <2>2. Begins
    BY <1>4, <1>5, <1>6, <1>8, <2>1 DEF Begins, Flow, Fit
  <2>. QED BY <1>6, <2>2, PassesType DEF Moves
<1>. QED BY <1>6, <1>7, <1>8

LEMMA CorrectMoves ==
  ASSUME TypeOK, HoursFit, NEW h \in Correction, Correct(h)
  PROVE  Moves
<1> DEFINE x == Told(flow.data, h)
           last == flow.state = "confirm" /\ x.name
           s == IF last \/ (flow.state = "ask_special" /\ x.name)
                THEN flow.state ELSE Missing(x)
<1>1. flow # NoFlow /\ flow \in Flow
  BY DEF Correct, TypeOK
<1>2. flow.data \in Data /\ flow.state \in ReservationState /\ h \in Heard
  BY <1>1 DEF Flow, Correction
<1>3. x \in Fit /\ x \in Data
  <2>1. x \in Fit
    BY <1>1, <1>2, ToldType DEF HoursFit
  <2>. QED BY <2>1 DEF Fit
<1>4. s \in ReservationState /\ (s = "confirm" => last)
  BY <1>2, <1>3, MissingType
<1>5. Save(s, x) /\ (IF last THEN Show(x) ELSE UNCHANGED shown)
  BY DEF Correct
<1>6. Passes /\ UNCHANGED <<used, cut, rows, sweepVars>>
  BY DEF Correct
<1> HIDE DEF x, last, s
<1>7. Shows \/ AsksOn
  BY <1>1, <1>3, <1>4, <1>5, <1>6, SaveMoves DEF Shows, AsksOn, Show
<1>. QED BY <1>6, <1>7, PassesType DEF Moves

LEMMA AnswerMoves ==
  ASSUME TypeOK, HoursFit, Answer
  PROVE  Moves
<1>1. flow # NoFlow /\ flow \in Flow /\ Passes /\ UNCHANGED <<used, cut, rows, sweepVars>>
  BY DEF Answer, TypeOK
<1>2. PICK e \in {Listened(flow.state, h) : h \in Heard} :
        LET x == Told(flow.data, e) IN Refuse(x) \/ Note(e, x)
  BY DEF Answer
<1> DEFINE x == Told(flow.data, e)
<1>3. e \in Heard /\ flow.data \in Data
  BY <1>1, ListenedType DEF Flow
<1>4. x \in Fit /\ [x EXCEPT !.name = TRUE] \in Fit
  <2>1. x \in Fit
    BY <1>1, <1>3, ToldType DEF HoursFit
  <2> HIDE DEF x
  <2>. QED BY <2>1 DEF Fit, Data
<1>5. Refuse(x) \/ Note(e, x)
  BY <1>2
<1> HIDE DEF x
<1>6. CASE Refuse(x)
  BY <1>1, <1>6, PassesType DEF Refuse, Clear, Keep, Moves, Stays
<1>7. CASE Note(e, x)
  <2>1. CASE Missing(x) # "ask_special" /\ Save(Missing(x), x) /\ UNCHANGED shown
    BY <1>1, <1>4, <2>1, FitIsData, MissingType, SaveMoves, PassesType DEF Moves, AsksOn
  <2>2. CASE Save("ask_special", [x EXCEPT !.name = TRUE]) /\ UNCHANGED shown
    <3>1. "ask_special" \in ReservationState
      BY DEF ReservationState
    <3>. QED BY <1>1, <1>4, <2>2, <3>1, FitIsData, SaveMoves, PassesType DEF Moves, AsksOn
  <2>3. CASE Save("confirm", x) /\ Show(x)
    <3>1. "confirm" \in ReservationState
      BY DEF ReservationState
    <3>. QED BY <1>1, <1>4, <2>3, <3>1, FitIsData, SaveMoves, PassesType DEF Moves, Shows, Show
  <2>4. CASE (Keep \/ Clear) /\ UNCHANGED shown
    BY <1>1, <2>4, PassesType DEF Keep, Clear, Moves, Stays
  <2>. QED BY <1>7, <2>1, <2>2, <2>3, <2>4 DEF Note
<1>. QED BY <1>5, <1>6, <1>7

LEMMA StopMoves == Stop => Moves
BY PassesType DEF Stop, Clear, Moves, Stays

-----------------------------------------------------------------------------
(* Staff, the cancellation and the threads                                 *)

(* The reservations as they are but for their statuses.                    *)
OnlyStatus ==
  /\ rows' \in [Row -> Reservation \cup {NoRow}]
  /\ \A r \in Row : /\ rows'[r] = NoRow <=> rows[r] = NoRow
                    /\ rows[r] # NoRow => /\ rows'[r].id = rows[r].id
                                         /\ rows'[r].data = rows[r].data
                                         /\ rows'[r].changed = rows[r].changed

\* Setting the status of a reservation changes nothing else of it.
LEMMA SetIsOnlyStatus ==
  ASSUME TypeOK, NEW r \in Row, rows[r] # NoRow, NEW st \in ReservationStatus,
         rows' = [rows EXCEPT ![r].status = st]
  PROVE  OnlyStatus
<1>1. rows \in [Row -> Reservation \cup {NoRow}] /\ rows[r] \in Reservation
  BY DEF TypeOK
<1>2. /\ [rows[r] EXCEPT !.status = st] \in Reservation
      /\ [rows[r] EXCEPT !.status = st].id = rows[r].id
      /\ [rows[r] EXCEPT !.status = st].data = rows[r].data
      /\ [rows[r] EXCEPT !.status = st].changed = rows[r].changed
  BY <1>1 DEF Reservation
<1>3. rows' = [rows EXCEPT ![r] = [rows[r] EXCEPT !.status = st]]
  BY <1>1
<1>4. rows'[r] # NoRow
  BY <1>1, <1>2, <1>3, NamesAssumption
<1>. QED BY <1>1, <1>2, <1>3, <1>4 DEF OnlyStatus

\* Nor does it disturb the invariant.
LEMMA StatusKeeps ==
  ASSUME IInv, OnlyStatus, file' \in Question, memory' \in Question,
         UNCHANGED <<flowVars, sweepVars>>
  PROVE  IInv'
<1>1. UNCHANGED <<flow, shown, used, cut, copy, undone>>
  BY DEF flowVars, sweepVars
<1>2. TypeOK'
  BY <1>1 DEF IInv, TypeOK, OnlyStatus
<1>3. HoldsShown'
  BY <1>1 DEF IInv, HoldsShown
<1>4. BookedIsOver' /\ OneRowPerDialogue' /\ Acceptable'
  BY <1>1 DEF IInv, OnlyStatus, BookedIsOver, OneRowPerDialogue, Acceptable
<1>5. HoursFit'
  BY <1>1 DEF IInv, HoursFit
<1>. QED BY <1>2, <1>3, <1>4, <1>5 DEF IInv

\* Rows that are as they were are so but for their statuses.
LEMMA SameIsOnlyStatus == TypeOK /\ UNCHANGED rows => OnlyStatus
BY DEF TypeOK, OnlyStatus

LEMMA AsksType ==
  ASSUME NEW r \in Row \cup {NoRow}, NEW k \in {"none", "type", "hotel", "pick", "confirm"}
  PROVE  [step |-> k, row |-> r] \in Question
BY DEF Question

\* Whatever the cancellation asks next, the reservations stay.
LEMMA AskKeeps ==
  ASSUME IInv, NEW q \in Question, Ask(q), UNCHANGED <<rows, flowVars, sweepVars>>
  PROVE  IInv'
<1>1. OnlyStatus
  BY SameIsOnlyStatus DEF IInv
<1>. QED BY <1>1, StatusKeeps DEF Ask

LEMMA WantsCancelKeeps == IInv /\ WantsCancel => IInv'
<1> SUFFICES ASSUME IInv, WantsCancel PROVE IInv'
  OBVIOUS
<1> DEFINE Asks(k, r) == Ask([step |-> k, row |-> r]) /\ UNCHANGED <<rows, flowVars, sweepVars>>
<1>1. \/ Asks("type", NoRow) \/ Asks("hotel", NoRow) \/ Asks("pick", NoRow) \/ Asks("none", NoRow)
      \/ \E r \in Row : Asks("confirm", r)
  BY DEF WantsCancel, AskTable, AskAgain, NoQuestion, Active
<1>2. ASSUME NEW k \in {"none", "type", "hotel", "pick", "confirm"}, NEW r \in Row \cup {NoRow}, Asks(k, r)
      PROVE  IInv'
  BY <1>2, AsksType, AskKeeps
<1> HIDE DEF Asks
<1>. QED BY <1>1, <1>2

LEMMA TellsKeeps == IInv /\ (TellsHotel \/ Declines) => IInv'
BY AsksType, AskKeeps DEF TellsHotel, Declines, NoQuestion

LEMMA PicksKeeps == \A r \in Row : IInv /\ Picks(r) => IInv'
BY AsksType, AskKeeps DEF Picks, AskAgain

\* A cancellation sets a status, or finds no reservation.
LEMMA AgreesIsStatus == TypeOK /\ Agrees => OnlyStatus
<1> SUFFICES ASSUME TypeOK, Agrees PROVE OnlyStatus
  OBVIOUS
<1> DEFINE r == Asking.row
<1>1. rows \in [Row -> Reservation \cup {NoRow}] /\ r \in Row \cup {NoRow}
  BY DEF TypeOK, Asking, Question
<1>2. rows' = IF rows[r] = NoRow THEN rows ELSE [rows EXCEPT ![r].status = "cancelled"]
  BY DEF Agrees
<1> HIDE DEF r
<1>3. CASE r \in Row /\ rows[r] # NoRow
  BY <1>2, <1>3, SetIsOnlyStatus DEF ReservationStatus
<1>4. CASE ~(r \in Row /\ rows[r] # NoRow)
  BY <1>1, <1>2, <1>4, NamesAssumption, SameIsOnlyStatus
<1>. QED BY <1>3, <1>4

LEMMA AgreesKeeps == IInv /\ Agrees => IInv'
<1> SUFFICES ASSUME IInv, Agrees PROVE IInv'
  OBVIOUS
<1>1. OnlyStatus
  BY AgreesIsStatus DEF IInv
<1>2. file' \in Question /\ memory' \in Question /\ UNCHANGED <<flowVars, sweepVars>>
  BY AsksType DEF Agrees, Ask, NoQuestion
<1>. QED BY <1>1, <1>2, StatusKeeps

LEMMA SetStatusKeeps == \A r \in Row, st \in Decision : IInv /\ SetStatus(r, st) => IInv'
<1> SUFFICES ASSUME NEW r \in Row, NEW st \in Decision, IInv, SetStatus(r, st) PROVE IInv'
  OBVIOUS
<1>1. TypeOK /\ st \in ReservationStatus
  BY LimitAssumption DEF IInv, ReservationStatus
<1>2. OnlyStatus
  BY <1>1, SetIsOnlyStatus DEF SetStatus
<1>3. file' \in Question /\ memory' \in Question /\ UNCHANGED <<flowVars, sweepVars>>
  BY <1>1 DEF SetStatus, cancelVars, TypeOK
<1>. QED BY <1>2, <1>3, StatusKeeps

(* What staff write over the details, the row keeps its dialogue and is    *)
(* noted as changed; no other row is touched.                              *)
Changed(r) ==
  /\ rows[r] # NoRow
  /\ rows' \in [Row -> Reservation \cup {NoRow}]
  /\ rows'[r] # NoRow /\ rows'[r].id = rows[r].id /\ rows'[r].changed
  /\ \A q \in Row \ {r} : rows'[q] = rows[q]

LEMMA ChangeIsChanged ==
  ASSUME TypeOK, NEW r \in Row, NEW h \in Change, ChangeDetails(r, h)
  PROVE  Changed(r)
<1> DEFINE x == [Replaced(rows[r].data, h) EXCEPT !.kept = FALSE]
           new == [rows[r] EXCEPT !.data = x, !.changed = TRUE]
<1>1. rows \in [Row -> Reservation \cup {NoRow}] /\ rows[r] \in Reservation /\ rows[r] # NoRow
  BY DEF TypeOK, ChangeDetails
<1>2. x \in Data
  <2>1. Replaced(rows[r].data, h) \in Data
    BY <1>1, ReplacedType, LimitAssumption DEF Reservation
  <2>. QED BY <2>1 DEF Data
<1>3. rows' = [rows EXCEPT ![r] = new]
  BY <1>1 DEF ChangeDetails, Reservation
<1> HIDE DEF x
<1>4. new \in Reservation /\ new # NoRow /\ new.id = rows[r].id /\ new.changed
  BY <1>1, <1>2, NamesAssumption DEF Reservation
<1> HIDE DEF new
<1>. QED BY <1>1, <1>3, <1>4 DEF Changed

LEMMA ChangeKeeps == \A r \in Row, h \in Change : IInv /\ ChangeDetails(r, h) => IInv'
<1> SUFFICES ASSUME NEW r \in Row, NEW h \in Change, IInv, ChangeDetails(r, h) PROVE IInv'
  OBVIOUS
<1>1. Changed(r) /\ UNCHANGED <<flow, shown, used, cut, file, memory, copy, undone>>
  BY ChangeIsChanged DEF IInv, ChangeDetails, flowVars, cancelVars, sweepVars
<1>2. TypeOK'
  BY <1>1 DEF IInv, TypeOK, Changed
<1>3. HoldsShown' /\ HoursFit'
  BY <1>1 DEF IInv, HoldsShown, HoursFit
<1>4. BookedIsOver' /\ OneRowPerDialogue'
  BY <1>1 DEF IInv, Changed, BookedIsOver, OneRowPerDialogue
<1>5. Acceptable'
  BY <1>1 DEF IInv, Changed, Acceptable
<1>. QED BY <1>2, <1>3, <1>4, <1>5 DEF IInv

\* Forgetting a flow, and the purge, end the dialogue.
LEMMA ForgetMoves == TypeOK /\ (Forget \/ Purge) => Moves
BY AsksType DEF TypeOK, Forget, Purge, Clear, cancelVars, NoQuestion, Moves, Stays

\* An inserted reservation is what the flow held and can be served.
LEMMA InsertRow ==
  ASSUME TypeOK, HoursFit, NEW r \in Row, Insert(r)
  PROVE  /\ flow \in Flow /\ flow.id \in used /\ rows[r] = NoRow /\ flow.state = "confirm"
         /\ rows' \in [Row -> Reservation \cup {NoRow}]
         /\ rows'[r] # NoRow /\ rows'[r].id = flow.id /\ rows'[r].data = flow.data
         /\ ~rows'[r].changed
         /\ \A q \in Row \ {r} : rows'[q] = rows[q]
         /\ Acceptable => Acceptable'
<1> DEFINE new == [status |-> "pending", data |-> flow.data,
                   id |-> flow.id, changed |-> FALSE]
<1>1. flow \in Flow /\ flow.id \in used /\ rows[r] = NoRow /\ flow.state = "confirm"
  BY DEF Insert, TypeOK
<1>2. new \in Reservation /\ new # NoRow
  <2>1. "pending" \in ReservationStatus /\ flow.data \in Data /\ flow.id \in Dialogue
    BY <1>1 DEF Flow, ReservationStatus
  <2>2. new \in Reservation
    BY <2>1 DEF Reservation
  <2>. QED BY <2>2, NamesAssumption
<1>3. rows \in [Row -> Reservation \cup {NoRow}] /\ rows' = [rows EXCEPT ![r] = new]
  BY DEF Insert, TypeOK
<1>4. new.id = flow.id /\ new.data = flow.data /\ ~new.changed /\ flow.data \in Fit
  BY <1>1 DEF HoursFit
<1> HIDE DEF new
<1>5. /\ rows' \in [Row -> Reservation \cup {NoRow}]
      /\ rows'[r] # NoRow /\ rows'[r].id = flow.id /\ rows'[r].data = flow.data
      /\ ~rows'[r].changed /\ \A q \in Row \ {r} : rows'[q] = rows[q]
  BY <1>2, <1>3, <1>4
<1>6. ASSUME Acceptable PROVE Acceptable'
  <2>1. ~Refused(flow.data) /\ Missing(flow.data) = "ask_special"
    BY DEF Insert
  <2>2. LET x == flow.data
        IN  /\ x.guests \in 1..AutoLimit /\ x.date = "season" /\ x.name
            /\ x.time = "served" \/ x.kept
    BY <1>4, <2>1, AcceptableData
  <2>. QED BY <1>5, <1>6, <2>2 DEF Acceptable
<1>. QED BY <1>1, <1>5, <1>6

\* A yes adds a reservation and ends the dialogue.
LEMMA ConfirmKeeps == \A r \in Row : IInv /\ Confirm(r) => IInv'
<1> SUFFICES ASSUME NEW r \in Row, IInv, Confirm(r) PROVE IInv'
  OBVIOUS
<1>1. TypeOK /\ HoursFit /\ Insert(r) /\ flow' = NoFlow /\ UNCHANGED <<shown, used, cut, copy, undone>>
  BY DEF IInv, Confirm, Clear, sweepVars
<1>2. file' \in Question /\ memory' \in Question
  BY PassesType DEF Confirm
<1>3. TypeOK'
  BY <1>1, <1>2, InsertRow, NoFlowIsNone DEF TypeOK
<1>4. HoldsShown'
  BY <1>1 DEF HoldsShown
<1>5. BookedIsOver'
  BY <1>1, InsertRow DEF IInv, BookedIsOver
<1>6. OneRowPerDialogue'
  BY <1>1, InsertRow, NoFlowIsNone DEF IInv, BookedIsOver, OneRowPerDialogue
<1>7. Acceptable'
  BY <1>1, InsertRow DEF IInv
<1>8. HoursFit'
  BY <1>1, NoFlowIsNone DEF HoursFit
<1>. QED BY <1>3, <1>4, <1>5, <1>6, <1>7, <1>8 DEF IInv

\* A restart leaves the flow of a reservation that was made.
LEMMA ConfirmCutKeeps == \A r \in Row : IInv /\ ConfirmCut(r) => IInv'
<1> SUFFICES ASSUME NEW r \in Row, IInv, ConfirmCut(r) PROVE IInv'
  OBVIOUS
<1>1. /\ TypeOK /\ HoursFit /\ Insert(r) /\ UNCHANGED <<flow, shown, used, undone>>
      /\ cut' = cut \cup {flow.id} /\ copy' = [s \in Sweeper |-> NoCopy]
  BY DEF IInv, ConfirmCut
<1>2. file' \in Question /\ memory' \in Question
  BY AsksType DEF ConfirmCut, NoQuestion
<1>3. flow.id \in Dialogue /\ NoCopy \notin Flow
  BY <1>1, InsertRow, NamesAssumption DEF Flow
<1>4. TypeOK'
  BY <1>1, <1>2, <1>3, InsertRow DEF TypeOK
<1>5. HoldsShown'
  BY <1>1 DEF IInv, HoldsShown
<1>6. BookedIsOver'
  BY <1>1, InsertRow DEF IInv, BookedIsOver
<1>7. OneRowPerDialogue'
  BY <1>1, InsertRow DEF IInv, BookedIsOver, OneRowPerDialogue
<1>8. Acceptable'
  BY <1>1, InsertRow DEF IInv
<1>9. HoursFit'
  BY <1>1, <1>3 DEF HoursFit
<1>. QED BY <1>4, <1>5, <1>6, <1>7, <1>8, <1>9 DEF IInv

LEMMA SweepLoadKeeps == \A s \in Sweeper : IInv /\ SweepLoad(s) => IInv'
<1> SUFFICES ASSUME NEW s \in Sweeper, IInv, SweepLoad(s) PROVE IInv'
  OBVIOUS
<1>1. PICK left \in {flow, NoFlow} : copy' = [copy EXCEPT ![s] = left]
  BY DEF SweepLoad
<1>2. UNCHANGED <<flow, shown, used, cut, undone, rows, file, memory>>
  BY DEF SweepLoad, flowVars, cancelVars
<1>3. TypeOK'
  BY <1>1, <1>2, NoFlowIsNone DEF IInv, TypeOK
<1>4. HoursFit'
  BY <1>1, <1>2, NoFlowIsNone DEF IInv, TypeOK, HoursFit
<1>. QED BY <1>2, <1>3, <1>4 DEF IInv, HoldsShown, BookedIsOver, OneRowPerDialogue, Acceptable

\* A save puts back what the sweep had loaded, and notes it.
LEMMA SweepSaveKeeps == \A s \in Sweeper : IInv /\ SweepSave(s) => IInv'
<1> SUFFICES ASSUME NEW s \in Sweeper, IInv, SweepSave(s) PROVE IInv'
  OBVIOUS
<1>1. /\ copy[s] # NoCopy /\ flow' = copy[s] /\ copy' = [copy EXCEPT ![s] = NoCopy]
      /\ undone' = undone \cup (IF copy[s] # NoFlow /\ copy[s] # flow THEN {copy[s].id} ELSE {})
      /\ UNCHANGED <<shown, used, cut, rows, file, memory>>
  BY DEF SweepSave, cancelVars
<1>2. copy \in [Sweeper -> Flow \cup {NoFlow, NoCopy}] /\ flow' \in Entry
  BY <1>1 DEF IInv, TypeOK, Entry
<1>3. flow' = flow \/ flow' = NoFlow \/ (flow' \in Flow /\ flow'.id \in undone')
  BY <1>1, <1>2 DEF Entry
<1>4. undone \subseteq undone' /\ undone' \subseteq Dialogue
  BY <1>1, <1>2 DEF IInv, TypeOK, Flow, Entry
<1>9. /\ NoCopy \notin Flow /\ copy' \in [Sweeper -> Flow \cup {NoFlow, NoCopy}]
      /\ \A f \in {flow'} \cup {copy'[t] : t \in Sweeper} :
           f \in Flow => f \in {copy[t] : t \in Sweeper}
  <2>1. NoCopy \notin Flow /\ copy' \in [Sweeper -> Flow \cup {NoFlow, NoCopy}]
    BY <1>1, <1>2, NamesAssumption
  <2>. QED BY <1>1, <1>2, <2>1
<1>5. TypeOK'
  <2>2. \A f \in {flow'} \cup {copy'[t] : t \in Sweeper} :
          f \in Flow => f.id \in used /\ (f.state = "confirm" => shown[f.id] # NoData)
    BY <1>9 DEF IInv, TypeOK
  <2>. QED BY <1>1, <1>2, <1>4, <1>9, <2>2 DEF IInv, TypeOK, Entry
<1>10. HoursFit'
  BY <1>9 DEF IInv, HoursFit
<1>6. HoldsShown'
  BY <1>1, <1>3, <1>4 DEF IInv, HoldsShown
<1>7. BookedIsOver'
  BY <1>1, <1>3, <1>4 DEF IInv, BookedIsOver
<1>8. OneRowPerDialogue' /\ Acceptable'
  BY <1>1, <1>4 DEF IInv, OneRowPerDialogue, Acceptable
<1>. QED BY <1>5, <1>6, <1>7, <1>8, <1>10 DEF IInv

LEMMA RestartKeeps == IInv /\ Restart => IInv'
<1> SUFFICES ASSUME IInv, Restart PROVE IInv'
  OBVIOUS
<1>1. /\ UNCHANGED <<flow, shown, used, cut, undone, rows, file>>
      /\ memory' \in Question /\ copy' = [s \in Sweeper |-> NoCopy]
  BY AsksType DEF Restart, flowVars, NoQuestion
<1>2. TypeOK'
  BY <1>1, NamesAssumption DEF IInv, TypeOK
<1>3. HoursFit'
  BY <1>1, NamesAssumption DEF IInv, HoursFit
<1>. QED BY <1>1, <1>2, <1>3 DEF IInv, HoldsShown, BookedIsOver, OneRowPerDialogue, Acceptable

-----------------------------------------------------------------------------
(* The invariant                                                           *)

\* Nothing is booked and nothing waits at the start.
LEMMA InitEstablishes == Init => IInv
<1> SUFFICES ASSUME Init PROVE IInv
  OBVIOUS
<1>1. TypeOK
  BY AsksType, NamesAssumption DEF Init, TypeOK, NoQuestion
<1>2. HoldsShown /\ BookedIsOver /\ OneRowPerDialogue /\ Acceptable
  BY DEF Init, HoldsShown, BookedIsOver, OneRowPerDialogue, Acceptable
<1>3. HoursFit
  BY NamesAssumption DEF Init, HoursFit
<1>. QED BY <1>1, <1>2, <1>3 DEF IInv

\* Every step keeps the invariant.
LEMMA NextKeeps == IInv /\ [Next]_vars => IInv'
<1> SUFFICES ASSUME IInv, [Next]_vars PROVE IInv'
  OBVIOUS
<1>0. TypeOK /\ HoursFit
  BY DEF IInv
<1>1. CASE Customer
  <2>1. CASE \E h \in Bookable : Start(h)
    BY <1>0, <2>1, StartMoves, MovesKeep
  <2>2. CASE \E h \in Correction : Correct(h)
    BY <1>0, <2>2, CorrectMoves, MovesKeep
  <2>3. CASE \E r \in Row : Confirm(r) \/ Picks(r)
    BY <2>3, ConfirmKeeps, PicksKeeps
  <2>4. CASE Answer \/ Stop \/ Forget
    BY <1>0, <2>4, AnswerMoves, StopMoves, ForgetMoves, MovesKeep
  <2>5. CASE WantsCancel \/ TellsHotel \/ Agrees \/ Declines
    BY <2>5, WantsCancelKeeps, TellsKeeps, AgreesKeeps
  <2>. QED BY <1>1, <2>1, <2>2, <2>3, <2>4, <2>5 DEF Customer
<1>2. CASE Staff \/ \E r \in Row : ConfirmCut(r)
  BY <1>2, ConfirmCutKeeps, SetStatusKeeps, ChangeKeeps DEF Staff
<1>3. CASE \E s \in Sweeper : SweepLoad(s) \/ SweepSave(s)
  BY <1>3, SweepLoadKeeps, SweepSaveKeeps
<1>4. CASE Purge \/ Restart
  BY <1>0, <1>4, ForgetMoves, MovesKeep, RestartKeeps
<1>5. CASE UNCHANGED vars
  <2>1. TypeOK'
    BY <1>0, <1>5 DEF vars, TypeOK
  <2>. QED BY <1>0, <1>5, <2>1 DEF IInv, HoursFit, vars, HoldsShown, BookedIsOver, OneRowPerDialogue, Acceptable
<1>. QED BY <1>1, <1>2, <1>3, <1>4, <1>5 DEF Next

\* Every reachable state satisfies the invariant.
LEMMA Invariance == Spec => []IInv
BY InitEstablishes, NextKeeps, PTL DEF Spec

-----------------------------------------------------------------------------
(* Only a yes adds a reservation.                                          *)
LEMMA OnlyYesAdds ==
  ASSUME IInv, [Next]_vars, NEW r \in Row, rows[r] = NoRow, rows'[r] # NoRow
  PROVE  \E q \in Row : Insert(q) /\ UNCHANGED <<shown, undone>>
<1>0. TypeOK /\ HoursFit
  BY DEF IInv
<1>1. ~ UNCHANGED rows
  OBVIOUS
<1>2. ~ OnlyStatus
  BY DEF OnlyStatus
<1>3. ~ Moves
  BY <1>1 DEF Moves
<1>4. ~ \E h \in Bookable : Start(h)
  BY <1>0, <1>3, StartMoves
<1>5. ~ \E h \in Correction : Correct(h)
  BY <1>0, <1>3, CorrectMoves
<1>6. ~ (Answer \/ Stop \/ Forget \/ Purge)
  BY <1>0, <1>3, AnswerMoves, StopMoves, ForgetMoves
<1>7. ~ (WantsCancel \/ TellsHotel \/ Declines \/ \E q \in Row : Picks(q))
  BY <1>1 DEF WantsCancel, AskTable, AskAgain, TellsHotel, Declines, Picks
<1>8. ~ Agrees
  BY <1>0, <1>2, AgreesIsStatus
<1>9. ~ Staff
  BY <1>0 DEF Staff, SetStatus, ChangeDetails, TypeOK
<1>10. ~ (Restart \/ \E s \in Sweeper : SweepLoad(s) \/ SweepSave(s))
  BY <1>1 DEF Restart, SweepLoad, SweepSave
<1>11. \E q \in Row : Confirm(q) \/ ConfirmCut(q)
  BY <1>1, <1>4, <1>5, <1>6, <1>7, <1>8, <1>9, <1>10 DEF Next, Customer, vars
<1>. QED BY <1>11 DEF Confirm, ConfirmCut, sweepVars

\* What a step adds is what was shown.
LEMMA StepBooksShown ==
  IInv /\ [Next]_vars =>
    \A r \in Row : rows[r] = NoRow /\ rows'[r] # NoRow /\ rows'[r].id \notin undone
                   => rows'[r].data = shown[rows'[r].id]
<1> SUFFICES ASSUME IInv, [Next]_vars, NEW r \in Row, rows[r] = NoRow, rows'[r] # NoRow,
                    rows'[r].id \notin undone
             PROVE  rows'[r].data = shown[rows'[r].id]
  OBVIOUS
<1>1. PICK q \in Row : Insert(q)
  BY OnlyYesAdds
<1>2. TypeOK /\ HoursFit
  BY DEF IInv
<1>3. q = r /\ rows'[r].id = flow.id /\ rows'[r].data = flow.data
      /\ flow # NoFlow /\ flow.state = "confirm"
  BY <1>1, <1>2, InsertRow, NoFlowIsNone
<1>. QED BY <1>3 DEF IInv, HoldsShown

-----------------------------------------------------------------------------
(* The reservations as the bookings of a desk                              *)

Booked ==
  [r \in Row |-> IF rows[r] = NoRow THEN NoRow
                 ELSE [dialogue |-> rows[r].id, details |-> rows[r].data]]

Amended == {r \in Row : rows[r] # NoRow /\ rows[r].changed}

(* What sweeps and restarts disturb is never undisturbed again.            *)
Grows ==
  /\ undone \subseteq undone' /\ undone' \subseteq Dialogue
  /\ cut \subseteq cut' /\ cut' \subseteq Dialogue

LEMMA GrowsDisturbs == Grows => Desk!Disturbed
<1> SUFFICES ASSUME Grows PROVE Desk!Disturbed
  OBVIOUS
<1>1. undone' \cup cut' \in SUBSET Dialogue /\ undone' \in SUBSET (undone' \cup cut')
  BY DEF Grows
<1>2. /\ undone' \cup cut' = (undone \cup cut) \cup (undone' \cup cut')
      /\ undone' = undone \cup undone'
  BY DEF Grows
<1>. QED BY <1>1, <1>2 DEF Desk!Disturbed

\* A status is not part of a booking.
LEMMA StatusIsNotBooked == OnlyStatus => Booked' = Booked /\ Amended' = Amended
BY DEF OnlyStatus, Booked, Amended

\* A step that neither shows nor books is at most a disturbance of the desk.
LEMMA QuietStep ==
  Grows /\ UNCHANGED shown /\ Booked' = Booked /\ Amended' = Amended => Desk!Next
BY GrowsDisturbs DEF Booked, Amended, Desk!Next, Desk!Disturb

\* The dialogue that goes on has booked nothing, or was disturbed.
LEMMA FlowIsOpen ==
  ASSUME IInv, flow \in Flow
  PROVE  Desk!Open(flow.id)
<1>1. /\ rows \in [Row -> Reservation \cup {NoRow}] /\ flow # NoFlow
      /\ \A r \in Row : rows[r] # NoRow /\ rows[r].id = flow.id => flow.id \in undone \cup cut
  BY NoFlowIsNone DEF IInv, TypeOK, BookedIsOver
<1>2. ASSUME NEW r \in Row, Booked[r] # NoRow, Booked[r].dialogue = flow.id
      PROVE  flow.id \in undone \cup cut
  BY <1>1, <1>2 DEF Booked
<1>. QED BY <1>2 DEF Booked, Desk!Open, Desk!HasBooked

\* Every way a dialogue moves shows one summary of it, or none.
LEMMA MovesRefine == IInv /\ Moves => Desk!Next
<1> SUFFICES ASSUME IInv, Moves PROVE Desk!Next
  OBVIOUS
<1>1. UNCHANGED <<rows, cut, undone>> /\ undone \subseteq Dialogue /\ cut \subseteq Dialogue
  BY DEF IInv, TypeOK, Moves, sweepVars
<1>2. Booked' = Booked /\ Amended' = Amended
  BY <1>1 DEF Booked, Amended
<1>3. CASE UNCHANGED shown
  BY <1>1, <1>2, <1>3, QuietStep DEF Grows
<1>4. CASE Shows
  <2>1. flow \in Flow /\ flow'.data \in Data /\ shown \in [Dialogue -> Data \cup {NoData}]
    BY <1>4 DEF IInv, TypeOK, Shows, Flow
  <2>2. PICK d \in Dialogue : d = flow.id
    BY <2>1 DEF Flow
  <2>3. shown' = [shown EXCEPT ![d] = shown'[d]] /\ shown'[d] \in Data
    BY <1>4, <2>1, <2>2 DEF Shows
  <2>4. Desk!Show(d)
    BY <1>1, <1>2, <2>1, <2>2, <2>3, FlowIsOpen DEF Booked, Amended, Desk!Show
  <2>. QED BY <2>4 DEF Desk!Next
<1>. QED BY <1>3, <1>4 DEF Moves, Stays, AsksOn, Begins

\* The insert books what was shown last.
LEMMA InsertRefines ==
  ASSUME IInv, NEW r \in Row, Insert(r), UNCHANGED shown, Grows
  PROVE  Desk!Next
<1>1. /\ flow \in Flow /\ flow # NoFlow /\ rows[r] = NoRow /\ flow.state = "confirm"
      /\ rows'[r] # NoRow /\ rows'[r].id = flow.id /\ rows'[r].data = flow.data
      /\ ~rows'[r].changed /\ \A q \in Row \ {r} : rows'[q] = rows[q]
  BY InsertRow, NoFlowIsNone DEF IInv
<1>2. PICK d \in Dialogue, x \in Data : d = flow.id /\ x = flow.data
  BY <1>1 DEF Flow
<1>3. Booked[r] = NoRow /\ Desk!Open(d)
  BY <1>1, <1>2, FlowIsOpen DEF Booked
<1>4. d \notin undone => x = shown[d]
  BY <1>1, <1>2 DEF IInv, HoldsShown
<1>5. /\ Booked'[r] = [dialogue |-> d, details |-> x]
      /\ Booked' = [Booked EXCEPT ![r] = Booked'[r]]
  BY <1>1, <1>2 DEF Booked
<1>6. Booked'[r] \in Desk!Bookings(d) /\ (d \notin undone => Booked'[r].details = shown[d])
  BY <1>2, <1>4, <1>5 DEF Desk!Bookings
<1>7. Amended' = Amended
  BY <1>1 DEF Amended
<1>8. Desk!Book(r, d)
  BY <1>3, <1>5, <1>6, <1>7, GrowsDisturbs DEF Booked, Amended, Desk!Book
<1>. QED BY <1>8 DEF Desk!Next

\* What staff write over a reservation amends its booking.
LEMMA ChangeRefines ==
  ASSUME TypeOK, NEW r \in Row, Changed(r), UNCHANGED <<shown, undone, cut>>
  PROVE  Desk!Next
<1>1. /\ rows[r] # NoRow /\ rows'[r] # NoRow /\ rows'[r] \in Reservation
      /\ rows'[r].id = rows[r].id /\ rows'[r].changed
      /\ \A q \in Row \ {r} : rows'[q] = rows[q]
  BY DEF Changed
<1>2. Booked[r] = [dialogue |-> rows[r].id, details |-> rows[r].data] /\ Booked[r] # NoRow
  BY <1>1, NamesAssumption DEF Booked, TypeOK, Reservation
<1>3. Booked'[r] = [dialogue |-> rows[r].id, details |-> rows'[r].data] /\ rows'[r].data \in Data
  BY <1>1 DEF Booked, Reservation
<1>4. Booked'[r] \in Desk!Bookings(Booked[r].dialogue)
  BY <1>2, <1>3 DEF Desk!Bookings
<1>5. Booked' = [Booked EXCEPT ![r] = Booked'[r]]
  BY <1>1 DEF Booked
<1>6. Amended' = Amended \cup {r}
  BY <1>1 DEF Amended
<1>7. Desk!Amend(r)
  BY <1>2, <1>4, <1>5, <1>6 DEF Booked, Amended, Desk!Amend
<1>. QED BY <1>7 DEF Desk!Next

\* The cancellation and the staff set statuses, and the desk does not see them.
LEMMA StatusRefines ==
  ASSUME TypeOK, OnlyStatus, UNCHANGED <<shown, undone, cut>>
  PROVE  Desk!Next
BY StatusIsNotBooked, QuietStep DEF TypeOK, Grows

\* Every step is one of the desk's.
LEMMA StepRefines == IInv /\ [Next]_vars => Desk!Next
<1> SUFFICES ASSUME IInv, [Next]_vars PROVE Desk!Next
  OBVIOUS
<1>0. TypeOK /\ HoursFit /\ undone \subseteq Dialogue /\ cut \subseteq Dialogue
  BY DEF IInv, TypeOK
<1>1. CASE Moves
  BY <1>1, MovesRefine
<1>2. CASE \E r \in Row : Confirm(r) \/ ConfirmCut(r)
  <2>1. PICK r \in Row : Confirm(r) \/ ConfirmCut(r)
    BY <1>2
  <2>2. Insert(r) /\ flow.id \in Dialogue
    BY <1>0, <2>1, InsertRow DEF Confirm, ConfirmCut, Flow
  <2>3. UNCHANGED shown /\ Grows
    BY <1>0, <2>1, <2>2 DEF Confirm, ConfirmCut, sweepVars, Grows
  <2>. QED BY <2>2, <2>3, InsertRefines
<1>3. CASE \E s \in Sweeper : SweepSave(s)
  <2>1. PICK s \in Sweeper : SweepSave(s)
    BY <1>3
  <2>2. copy[s] # NoFlow => copy[s].id \in Dialogue
    BY <1>0, <2>1 DEF TypeOK, SweepSave, Flow
  <2>3. Grows /\ UNCHANGED <<shown, rows>>
    BY <1>0, <2>1, <2>2 DEF SweepSave, Grows
  <2>. QED BY <2>3, QuietStep DEF Booked, Amended
<1>4. CASE OnlyStatus /\ UNCHANGED <<flowVars, sweepVars>>
  BY <1>0, <1>4, StatusRefines DEF flowVars, sweepVars
<1>5. CASE UNCHANGED <<rows, shown, cut, undone>>
  BY <1>0, <1>5, SameIsOnlyStatus, StatusRefines
<1>6. CASE Customer
  <2>1. CASE (\E h \in Bookable : Start(h)) \/ (\E h \in Correction : Correct(h))
             \/ Answer \/ Stop \/ Forget
    BY <1>0, <1>1, <2>1, StartMoves, CorrectMoves, AnswerMoves, StopMoves, ForgetMoves
  <2>2. CASE \E r \in Row : Confirm(r)
    BY <1>2, <2>2
  <2>3. CASE WantsCancel \/ TellsHotel \/ Declines \/ \E r \in Row : Picks(r)
    BY <1>5, <2>3 DEF WantsCancel, AskTable, AskAgain, TellsHotel, Declines, Picks,
                      flowVars, sweepVars
  <2>4. CASE Agrees
    BY <1>0, <1>4, <2>4, AgreesIsStatus DEF Agrees
  <2>. QED BY <1>6, <2>1, <2>2, <2>3, <2>4 DEF Customer
<1>7. CASE Staff
  <2>1. CASE \E r \in Row, st \in Decision : SetStatus(r, st)
    <3>1. PICK r \in Row, st \in Decision : SetStatus(r, st)
      BY <2>1
    <3>2. st \in ReservationStatus
      BY LimitAssumption DEF ReservationStatus
    <3>. QED BY <1>0, <1>4, <3>1, <3>2, SetIsOnlyStatus DEF SetStatus
  <2>2. CASE \E r \in Row, h \in Change : ChangeDetails(r, h)
    <3>1. PICK r \in Row, h \in Change : ChangeDetails(r, h)
      BY <2>2
    <3>. QED BY <1>0, <3>1, ChangeIsChanged, ChangeRefines
             DEF ChangeDetails, flowVars, sweepVars
  <2>. QED BY <1>7, <2>1, <2>2 DEF Staff
<1>8. CASE Restart \/ \E s \in Sweeper : SweepLoad(s)
  BY <1>5, <1>8 DEF Restart, SweepLoad, flowVars
<1>9. CASE Purge
  BY <1>0, <1>1, <1>9, ForgetMoves
<1>10. CASE UNCHANGED vars
  BY <1>5, <1>10 DEF vars
<1>. QED BY <1>2, <1>3, <1>6, <1>7, <1>8, <1>9, <1>10 DEF Next

-----------------------------------------------------------------------------
(* The theorems                                                            *)

(* Every flow, copy and reservation has the shape the file and the table   *)
(* give it; a flow that waits for its yes was summarised.                  *)
THEOREM RestaurantTypeCorrect == Spec => []TypeOK
BY Invariance, PTL DEF IInv

(* One dialogue makes one reservation, whatever the messages, unless a     *)
(* restart cuts the confirmation or a sweep brings the flow back.          *)
THEOREM OneReservation == Spec => []OneRowPerDialogue
BY Invariance, PTL DEF IInv

(* No way through the chat books a party that staff must handle or a day   *)
(* out of season, also after corrections, restarts and lost updates of the *)
(* file; and an hour without a meal only where a second request put it in  *)
(* the place of one with a meal.  What staff change is theirs.             *)
THEOREM AcceptableOnly == Spec => []Acceptable
BY Invariance, PTL DEF IInv

(* A new reservation holds the details of the last summary of its          *)
(* dialogue, unless a sweep put an older flow of it back.                  *)
THEOREM BookedAsShown == Spec => RowIsAsShown
<1>1. IInv /\ [Next]_vars =>
        [\A r \in Row : rows[r] = NoRow /\ rows'[r] # NoRow /\ rows'[r].id \notin undone
                        => rows'[r].data = shown[rows'[r].id]]_vars
  BY StepBooksShown
<1>. QED BY <1>1, Invariance, PTL DEF Spec, RowIsAsShown

(* The dialogues about tables implement a booking desk: summaries only     *)
(* before the yes, bookings that hold the last of them, one for each, and  *)
(* no message, cancellation, sweep or status that changes what is booked:  *)
(* only the details staff write over a row do.  undone and cut are all     *)
(* that sweeps and restarts disturb.                                       *)
THEOREM TablesAreADesk == Spec => IsDesk
<1>1. Init => Desk!Init
  BY DEF Init, Desk!Init
<1>2. IInv /\ [Next]_vars => [Desk!Next]_(Desk!vars)
  BY StepRefines
<1>. QED BY <1>1, <1>2, Invariance, PTL DEF Spec, IsDesk, Desk!Spec
=============================================================================
