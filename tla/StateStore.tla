----------------------------- MODULE StateStore -----------------------------
(***************************************************************************)
(* JsonStateRepository (app/services/state_store_service): how a JSON      *)
(* state file is saved and loaded by several threads of several processes. *)
(*                                                                         *)
(* A save takes the thread lock of the path, then an advisory file lock    *)
(* that may not be available, writes a temporary file, syncs it and moves  *)
(* it onto the path.  A refused move is tried again; the last refusal      *)
(* rewrites the file in place.  A load takes no lock.                      *)
(*                                                                         *)
(* Files are inodes: a load that has opened the file goes on reading the   *)
(* inode it opened when another one is moved onto the path.                *)
(***************************************************************************)
EXTENDS Naturals, FiniteSets

CONSTANTS
  Worker,       \* the threads that use the file
  Process,
  ProcessOf,    \* the process of every worker
  Value,        \* the JSON documents that are saved
  Inode,        \* inodes of the directory: a bound
  Retries,      \* moves that are tried (6 in the code)
  MaxRefusals,  \* moves of one save that may be refused
  Trouble,      \* what else may go wrong
  Default, Torn, NoFile

Troubles ==
  {"no lock",      \* flock or msvcrt.locking raises
   "write fails",  \* disk full, a document json.dump refuses, another OSError
   "rewrite fails",\* the same, in the fallback
   "unreadable",   \* the file cannot be opened for a load
   "kill",         \* a process dies
   "power loss"}

ASSUME StoreAssumption ==
  /\ ProcessOf \in [Worker -> Process]
  /\ Default \notin Value /\ Torn \notin Value /\ Default # Torn
  /\ NoFile \notin Inode
ASSUME RetryAssumption ==
  /\ Retries \in Nat \ {0}
  /\ MaxRefusals \in Nat
  /\ Trouble \subseteq Troubles

VARIABLES
  content,      \* what every inode holds; Torn is anything that does not parse
  synced,       \* inodes whose content is on disk
  link,         \* the inode at the path
  disk,         \* the inode at the path after a power failure
  worker        \* what every worker is doing

vars == <<content, synced, link, disk, worker>>

-----------------------------------------------------------------------------
MaybeFile == Inode \cup {NoFile}
Document  == Value \cup {Default}

UnderLocks == {"dump", "sync", "replace", "fallback", "refill", "cleanup", "raised"}
Step == {"idle", "thread lock", "file lock", "opened", "loaded"} \cup UnderLocks

(* file is the temporary file of a save, then the file a fallback rewrites *)
(* or a load reads.  landed and told say whether the document of the last  *)
(* save reached the path and what its caller was told.                     *)
Thread == [step : Step, doc : Document, temp : MaybeFile, file : MaybeFile,
           attempt : 0..Retries, locked : BOOLEAN, landed : BOOLEAN,
           told : {"none", "ok", "error"}]

(* A worker that holds no lock and no temporary file.                      *)
Free(step, doc, file, landed, told) ==
  [step |-> step, doc |-> doc, temp |-> NoFile, file |-> file, attempt |-> 0,
   locked |-> FALSE, landed |-> landed, told |-> told]

Idle == Free("idle", Default, NoFile, FALSE, "none")

Returned(w, told) == Free("idle", Default, NoFile, worker[w].landed, told)

TypeOK ==
  /\ content \in [Inode -> Value \cup {Torn}]
  /\ synced \in [Inode -> BOOLEAN]
  /\ link \in MaybeFile
  /\ disk \in MaybeFile
  /\ worker \in [Worker -> Thread]

Init ==
  /\ content \in [Inode -> Value]
  /\ synced = [i \in Inode |-> TRUE]
  /\ link \in MaybeFile
  /\ disk = link
  /\ worker = [w \in Worker |-> Idle]

At(w, step)   == worker[w].step = step
GoTo(w, step) == worker' = [worker EXCEPT ![w].step = step]

(* A temporary file that nobody will touch again counts as removed.        *)
Fresh(i) ==
  /\ i \notin {link, disk}
  /\ \A w \in Worker : i # worker[w].temp /\ i # worker[w].file

-----------------------------------------------------------------------------
(* Saving: the locks                                                       *)

CallSave(w, v) ==
  /\ At(w, "idle")
  /\ worker' = [worker EXCEPT ![w] = Free("thread lock", v, NoFile, FALSE, "none")]
  /\ UNCHANGED <<content, synced, link, disk>>

(* The directory or the lock file cannot be made: the call raises.         *)
LockFileRaises(w) ==
  /\ "write fails" \in Trouble
  /\ At(w, "thread lock") \/ At(w, "file lock")
  /\ worker' = [worker EXCEPT ![w] = Free("idle", Default, NoFile, FALSE, "error")]
  /\ UNCHANGED <<content, synced, link, disk>>

HasThreadLock(w) == worker[w].step \in UnderLocks \cup {"file lock"}

AcquireThreadLock(w) ==
  /\ At(w, "thread lock")
  /\ \A u \in Worker : ProcessOf[u] = ProcessOf[w] => ~HasThreadLock(u)
  /\ GoTo(w, "file lock")
  /\ UNCHANGED <<content, synced, link, disk>>

\* Mutation: a shared lock.
AcquireFileLockShared(w) ==
  /\ At(w, "file lock")
  /\ worker' = [worker EXCEPT ![w].step = "dump", ![w].locked = TRUE]
  /\ UNCHANGED <<content, synced, link, disk>>

AcquireFileLock(w) ==
  /\ At(w, "file lock")
  /\ \A u \in Worker : ~worker[u].locked
  /\ worker' = [worker EXCEPT ![w].step = "dump", ![w].locked = TRUE]
  /\ UNCHANGED <<content, synced, link, disk>>

(* The lock is best effort: the save goes on without it.                   *)
GoWithoutFileLock(w) ==
  /\ "no lock" \in Trouble
  /\ At(w, "file lock")
  /\ GoTo(w, "dump")
  /\ UNCHANGED <<content, synced, link, disk>>

-----------------------------------------------------------------------------
(* Saving: the temporary file and the move                                 *)

Dump(w) ==
  /\ At(w, "dump")
  /\ \E i \in Inode :
       /\ Fresh(i)
       /\ content' = [content EXCEPT ![i] = worker[w].doc]
       /\ synced' = [synced EXCEPT ![i] = FALSE]
       /\ worker' = [worker EXCEPT ![w].step = "sync", ![w].temp = i]
  /\ UNCHANGED <<link, disk>>

\* Mutation: the temporary file is moved before it is on disk.
SyncForgotten(w) ==
  /\ At(w, "sync")
  /\ GoTo(w, "replace")
  /\ UNCHANGED <<content, synced, link, disk>>

Sync(w) ==
  /\ At(w, "sync")
  /\ synced' = [synced EXCEPT ![worker[w].temp] = TRUE]
  /\ GoTo(w, "replace")
  /\ UNCHANGED <<content, link, disk>>

Replace(w) ==
  /\ At(w, "replace")
  /\ link' = worker[w].temp
  /\ worker' = [worker EXCEPT ![w].step = "cleanup", ![w].temp = NoFile,
                              ![w].landed = TRUE]
  /\ UNCHANGED <<content, synced, disk>>

\* Mutation: the attempts start over.
ReplaceRefusedForever(w) ==
  /\ At(w, "replace")
  /\ worker' = [worker EXCEPT ![w].attempt = (@ + 1) % Retries]
  /\ UNCHANGED <<content, synced, link, disk>>

(* PermissionError: tried again after a pause, until the attempts are used *)
(* up.                                                                     *)
ReplaceRefused(w) ==
  /\ At(w, "replace")
  /\ worker[w].attempt < MaxRefusals
  /\ worker' = [worker EXCEPT
       ![w].step = IF worker[w].attempt + 1 < Retries THEN "replace" ELSE "fallback",
       ![w].attempt = @ + 1]
  /\ UNCHANGED <<content, synced, link, disk>>

-----------------------------------------------------------------------------
(* Saving: the fallback that rewrites the file in place                    *)

(* open(path, "w"): the file is there, and empty.                          *)
Truncate(w) ==
  /\ At(w, "fallback")
  /\ \E i \in Inode :
       /\ IF link = NoFile THEN Fresh(i) ELSE i = link
       /\ content' = [content EXCEPT ![i] = Torn]
       /\ synced' = [synced EXCEPT ![i] = FALSE]
       /\ link' = i
       /\ worker' = [worker EXCEPT ![w].step = "refill", ![w].file = i]
  /\ UNCHANGED disk

(* The payload is written from offset 0.  Over a document somebody else    *)
(* wrote after the truncation it may leave a tail of that one.             *)
Refill(w) ==
  /\ At(w, "refill")
  /\ LET i == worker[w].file
     IN  /\ content' \in {[content EXCEPT ![i] = worker[w].doc]} \cup
                         (IF content[i] = Torn THEN {} ELSE {[content EXCEPT ![i] = Torn]})
         /\ worker' = [worker EXCEPT ![w].step = "cleanup", ![w].file = NoFile,
                                     ![w].landed = (i = link)]
  /\ UNCHANGED <<synced, link, disk>>

-----------------------------------------------------------------------------
(* Saving: the way out                                                     *)

(* Anything but PermissionError raises: before the temporary file exists,  *)
(* with it half written, at the move, or in the fallback.                  *)
StepRaises(w) ==
  /\ \/ worker[w].step \in {"dump", "sync", "replace"} /\ "write fails" \in Trouble
     \/ worker[w].step \in {"fallback", "refill"} /\ "rewrite fails" \in Trouble
  /\ worker' = [worker EXCEPT ![w].step = "raised", ![w].file = NoFile]
  /\ UNCHANGED <<content, synced, link, disk>>

(* The temporary file that a fallback leaves is removed, and the locks are *)
(* given up.                                                               *)
Cleanup(w) ==
  /\ At(w, "cleanup")
  /\ worker' = [worker EXCEPT ![w] = Returned(w, "ok")]
  /\ UNCHANGED <<content, synced, link, disk>>

\* Mutation: the exception is swallowed whether or not the lock was taken.
RaiseSwallowed(w) ==
  /\ At(w, "raised")
  /\ worker' = [worker EXCEPT ![w] = Returned(w, "ok")]
  /\ UNCHANGED <<content, synced, link, disk>>

(* Without the file lock the return in the finally block of                *)
(* _advisory_file_lock swallows the exception.                             *)
Raise(w) ==
  /\ At(w, "raised")
  /\ worker' = [worker EXCEPT ![w] =
                  Returned(w, IF worker[w].locked THEN "error" ELSE "ok")]
  /\ UNCHANGED <<content, synced, link, disk>>

-----------------------------------------------------------------------------
(* Loading                                                                 *)

OpenForLoad(w) ==
  /\ At(w, "idle")
  /\ link # NoFile
  /\ worker' = [worker EXCEPT ![w] = Free("opened", Default, link, FALSE, "none")]
  /\ UNCHANGED <<content, synced, link, disk>>

Loaded(v) == Free("loaded", v, NoFile, FALSE, "none")

(* There is no file, or it cannot be opened.                               *)
LoadDefault(w) ==
  /\ At(w, "idle")
  /\ link = NoFile \/ "unreadable" \in Trouble
  /\ worker' = [worker EXCEPT ![w] = Loaded(Default)]
  /\ UNCHANGED <<content, synced, link, disk>>

\* Mutation: half a document reaches the caller.
ReadUnparsed(w) ==
  /\ At(w, "opened")
  /\ worker' = [worker EXCEPT ![w] = Loaded(content[worker[w].file])]
  /\ UNCHANGED <<content, synced, link, disk>>

(* A document that does not parse is the caller's default, like no file.   *)
Read(w) ==
  /\ At(w, "opened")
  /\ LET c == content[worker[w].file]
     IN  worker' = [worker EXCEPT ![w] = Loaded(IF c = Torn THEN Default ELSE c)]
  /\ UNCHANGED <<content, synced, link, disk>>

EndLoad(w) ==
  /\ At(w, "loaded")
  /\ worker' = [worker EXCEPT ![w] = Idle]
  /\ UNCHANGED <<content, synced, link, disk>>

-----------------------------------------------------------------------------
(* Outside the program                                                     *)

WriteBack ==
  /\ disk # link
  /\ disk' = link
  /\ UNCHANGED <<content, synced, link, worker>>

Kill(p) ==
  /\ "kill" \in Trouble
  /\ \E w \in Worker : ProcessOf[w] = p /\ ~At(w, "idle")
  /\ worker' = [w \in Worker |-> IF ProcessOf[w] = p THEN Idle ELSE worker[w]]
  /\ UNCHANGED <<content, synced, link, disk>>

PowerLoss ==
  /\ "power loss" \in Trouble
  /\ \E lost \in SUBSET {i \in Inode : ~synced[i]} :
       content' = [i \in Inode |-> IF i \in lost THEN Torn ELSE content[i]]
  /\ synced' = [i \in Inode |-> TRUE]
  /\ link' = disk
  /\ worker' = [w \in Worker |-> Idle]
  /\ UNCHANGED disk
-----------------------------------------------------------------------------
Progress(w) ==
  \/ AcquireThreadLock(w) \/ AcquireFileLock(w) \/ GoWithoutFileLock(w)
  \/ LockFileRaises(w)
  \/ Dump(w) \/ Sync(w) \/ Replace(w) \/ ReplaceRefused(w)
  \/ Truncate(w) \/ Refill(w) \/ StepRaises(w) \/ Cleanup(w) \/ Raise(w)
  \/ Read(w) \/ EndLoad(w)

Next ==
  \/ \E w \in Worker, v \in Value : CallSave(w, v)
  \/ \E w \in Worker : OpenForLoad(w) \/ LoadDefault(w)
  \/ \E w \in Worker : Progress(w)
  \/ WriteBack
  \/ \E p \in Process : Kill(p)
  \/ PowerLoss

Spec == Init /\ [][Next]_vars

(* A thread inside a save is scheduled, and a flock call returns.          *)
FairSpec == Spec /\ \A w \in Worker : WF_vars(Progress(w))
-----------------------------------------------------------------------------
(* Properties                                                              *)

DocumentAt(i) == IF i = NoFile THEN Default ELSE content[i]

Phase(w) ==
  CASE worker[w].step = "idle" -> "idle"
    [] worker[w].step \in {"opened", "loaded", "cleanup", "raised"} -> "returning"
    [] OTHER -> "saving"

Client(w) ==
  [phase |-> Phase(w),
   doc   |-> IF At(w, "idle") THEN Default
             ELSE IF At(w, "opened") THEN DocumentAt(worker[w].file)
             ELSE worker[w].doc]

Atomic == INSTANCE AtomicFile WITH
  value      <- DocumentAt(link),
  durable    <- DocumentAt(disk),
  client     <- [w \in Worker |-> Client(w)],
  Unreadable <- "unreadable" \in Trouble

\* As long as the move onto the path is not refused every time, the file is
\* one register to all threads and processes: no load sees half a document or
\* a mixture of two, whether or not the file lock could be taken, and neither
\* a killed process nor a power failure leaves one behind.
IsAtomic == Atomic!Spec

\* While the file lock can be had, save_json does not return normally unless
\* its document was put onto the path, even when the moves are refused until
\* the fallback rewrites the file and any step of it raises.
SaveIsNotLost ==
  \A w \in Worker : worker[w].told = "ok" => worker[w].landed

\* With the file lock the fallback leaves a whole document behind: the file
\* fails to parse only while the one fallback under way has emptied it, never
\* because of two that overlap.
WholeAtRest ==
  DocumentAt(link) = Torn =>
    \E w \in Worker : At(w, "refill") /\ worker[w].file = link

\* A save that has its locks gives them up, however often the move is refused
\* and whatever raises: no thread keeps the others out for ever.
LocksAreReleased ==
  \A w \in Worker : worker[w].step \in UnderLocks ~> worker[w].step \notin UnderLocks
=============================================================================
