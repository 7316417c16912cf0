----------------------------- MODULE AtomicFile -----------------------------
(***************************************************************************)
(* What the callers of JsonStateRepository rely on: a state file is one    *)
(* register.  A save takes effect at one instant between its call and its  *)
(* return, or fails and takes none; a load returns the value of one        *)
(* instant.  After a power failure the register is back at a value it had. *)
(***************************************************************************)
CONSTANTS
  Worker,       \* the threads of all processes
  Value,        \* the JSON documents that are saved
  Default,      \* what a load returns when there is no document
  Unreadable    \* a load may fail, and returns the default then

VARIABLES
  value,        \* the document, or Default before the first save
  durable,      \* what survives a power failure
  client        \* the call every worker is in

vars == <<value, durable, client>>

Idle == [phase |-> "idle", doc |-> Default]

Init ==
  /\ value \in Value \cup {Default}
  /\ durable = value
  /\ client = [w \in Worker |-> Idle]

In(w, phase)      == client[w].phase = phase
Enter(w, phase)   == client' = [client EXCEPT ![w].phase = phase]
Return(w)         == client' = [client EXCEPT ![w] = Idle]

CallSave(w, v) ==
  /\ In(w, "idle")
  /\ client' = [client EXCEPT ![w] = [phase |-> "saving", doc |-> v]]
  /\ UNCHANGED <<value, durable>>

Save(w) ==
  /\ In(w, "saving")
  /\ value' = client[w].doc
  /\ Enter(w, "returning")
  /\ UNCHANGED durable

(* The call raises, after cleaning up or at once.                          *)
FailToSave(w) ==
  /\ In(w, "saving")
  /\ Enter(w, "returning") \/ Return(w)
  /\ UNCHANGED <<value, durable>>

Load(w) ==
  /\ In(w, "idle")
  /\ \E v \in {value} \cup (IF Unreadable THEN {Default} ELSE {}) :
       client' = [client EXCEPT ![w] = [phase |-> "returning", doc |-> v]]
  /\ UNCHANGED <<value, durable>>

EndCall(w) ==
  /\ In(w, "returning")
  /\ Return(w)
  /\ UNCHANGED <<value, durable>>

(* The document reaches the disk. *)
WriteBack ==
  /\ durable' = value
  /\ UNCHANGED <<value, client>>

(* Some processes die; a power failure also takes what is not on disk.     *)
Die(dead) ==
  /\ client' = [w \in Worker |-> IF w \in dead THEN Idle ELSE client[w]]
  /\ UNCHANGED <<value, durable>>

PowerLoss ==
  /\ value' = durable
  /\ client' = [w \in Worker |-> Idle]
  /\ UNCHANGED durable

Next ==
  \/ \E w \in Worker, v \in Value : CallSave(w, v)
  \/ \E w \in Worker : Save(w) \/ FailToSave(w) \/ Load(w) \/ EndCall(w)
  \/ WriteBack
  \/ \E dead \in SUBSET Worker : Die(dead)
  \/ PowerLoss

Spec == Init /\ [][Next]_vars
=============================================================================
