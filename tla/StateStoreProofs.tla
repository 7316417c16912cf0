-------------------------- MODULE StateStoreProofs --------------------------
(***************************************************************************)
(* Theorems about StateStore.  Inv says what a step of one worker may rely *)
(* on: the locks exclude each other, a temporary file belongs to one       *)
(* worker only, and what is at the path.                                   *)
(***************************************************************************)
EXTENDS StateStore, TLAPS

Saving == {"thread lock", "file lock"} \cup UnderLocks
Trying == {"thread lock", "file lock", "dump", "sync", "replace"}

Calls(w) ==
  \/ \E v \in Value : CallSave(w, v)
  \/ OpenForLoad(w)
  \/ LoadDefault(w)

(* The next-state relation without the steps from outside the program.     *)
Inside == \E w \in Worker : Calls(w) \/ Progress(w)

-----------------------------------------------------------------------------
(* The parts of the invariant                                              *)

\* What is saved is a document, and an attempt is left while moves are tried.
Sane ==
  \A w \in Worker :
    /\ worker[w].step \in Saving => worker[w].doc \in Value
    /\ worker[w].step \in Trying => worker[w].attempt < Retries
    /\ worker[w].step \in {"opened", "refill"} => worker[w].file \in Inode
    /\ worker[w].step \notin {"opened", "refill"} => worker[w].file = NoFile

\* A temporary file is at nobody's path, in nobody's hands but its owner's,
\* and holds the owner's document until it is moved.
TempIsPrivate ==
  \A w \in Worker : worker[w].temp # NoFile =>
    /\ worker[w].temp \notin {link, disk}
    /\ \A u \in Worker : worker[u].file # worker[w].temp
    /\ \A u \in Worker : u # w => worker[u].temp # worker[w].temp

TempIsWhole ==
  \A w \in Worker : worker[w].step \in {"sync", "replace"} =>
    /\ worker[w].temp \in Inode
    /\ content[worker[w].temp] = worker[w].doc
    /\ worker[w].step = "replace" => synced[worker[w].temp]

\* The file lock has one holder.
Exclusive ==
  \A u, w \in Worker : worker[u].locked /\ worker[w].locked => u = w

\* Without lock trouble every worker past the locks holds the file lock.
LockHeld ==
  "no lock" \notin Trouble =>
    \A w \in Worker : worker[w].step \in UnderLocks => worker[w].locked

\* While some move succeeds, nothing is rewritten in place, and every inode
\* that is at the path or open is whole.
Rest(i) == i = NoFile \/ content[i] \in Value

NoRewrite ==
  MaxRefusals < Retries =>
    /\ \A w \in Worker : /\ worker[w].step \notin {"fallback", "refill"}
                         /\ worker[w].attempt <= MaxRefusals
                         /\ Rest(worker[w].file)
    /\ Rest(link)
    /\ Rest(disk)
    /\ disk # NoFile => synced[disk]
    /\ link # NoFile => synced[link]

\* With the file lock a document that is reported saved has reached the path.
Reported ==
  "no lock" \notin Trouble =>
    \A w \in Worker :
      /\ worker[w].step = "refill" => worker[w].file = link
      /\ worker[w].step = "cleanup" \/ worker[w].told = "ok" => worker[w].landed

\* Where a rewrite in place that was begun is finished, a file is empty only
\* while it is rewritten.
RewritesFinish == Trouble \subseteq {"unreadable", "write fails"}

Rewritten ==
  RewritesFinish =>
    /\ \A w \in Worker :
         worker[w].step = "refill" => content[worker[w].file] = Torn
    /\ WholeAtRest

Inv == TypeOK /\ Sane /\ TempIsPrivate /\ TempIsWhole /\ Exclusive /\ LockHeld
       /\ NoRewrite /\ Reported /\ Rewritten
-----------------------------------------------------------------------------
(* The steps                                                               *)

\* The initial states satisfy the invariant.
LEMMA InitInv == Init => Inv
<1> SUFFICES ASSUME Init PROVE Inv
  OBVIOUS
<1> USE StoreAssumption, RetryAssumption
<1>1. TypeOK
  BY DEF Init, TypeOK, Idle, Free, Thread, Step, Document, MaybeFile
<1>2. Sane /\ TempIsPrivate /\ TempIsWhole /\ Exclusive /\ LockHeld
  BY
  DEF Init, Idle, Free, Sane, TempIsPrivate, TempIsWhole, Exclusive, LockHeld,
      Saving, Trying, UnderLocks
<1>3. NoRewrite
  BY DEF Init, Idle, Free, NoRewrite, Rest, MaybeFile
<1>4. Reported /\ Rewritten
  BY DEF Init, Idle, Free, Reported, Rewritten, WholeAtRest, DocumentAt, MaybeFile
<1> QED
  BY <1>1, <1>2, <1>3, <1>4 DEF Inv

(* Most steps change the record of one worker and no file.  Becomes says   *)
(* what its new record may be.                                             *)
Becomes(w, r) ==
  /\ r \in Thread
  /\ r.step \in Saving => r.doc \in Value
  /\ r.step \in Trying => r.attempt < Retries
  /\ r.step # "refill"
  /\ r.step = "opened" => r.file \in Inode
  /\ r.step # "opened" => r.file = NoFile
  /\ r.file \in {NoFile, worker[w].file, link}
  /\ r.temp \in {NoFile, worker[w].temp}
  /\ r.step \in {"sync", "replace"} =>
       /\ worker[w].step \in {"sync", "replace"}
       /\ r.temp = worker[w].temp /\ r.doc = worker[w].doc
       /\ r.step = worker[w].step
  /\ r.locked => worker[w].locked \/ \A u \in Worker : ~worker[u].locked
  /\ "no lock" \notin Trouble /\ r.step \in UnderLocks => r.locked
  /\ MaxRefusals < Retries => r.step # "fallback" /\ r.attempt <= MaxRefusals
  /\ "no lock" \notin Trouble /\ (r.step = "cleanup" \/ r.told = "ok") => r.landed
  /\ RewritesFinish => worker[w].step # "refill"

\* A worker whose new record is one of those keeps the invariant.
LEMMA WorkerMoves ==
  ASSUME Inv, NEW w \in Worker, NEW r, Becomes(w, r),
         worker' = [worker EXCEPT ![w] = r],
         UNCHANGED <<content, synced, link, disk>>
  PROVE  Inv'
<1>0. /\ r \in Thread
      /\ worker' \in [Worker -> Thread]
      /\ worker'[w] = r
      /\ \A u \in Worker : u # w => worker'[u] = worker[u]
  BY DEF Becomes, Inv, TypeOK
<1>1. TypeOK'
  BY <1>0 DEF Inv, TypeOK
<1>2. Sane'
  BY <1>0 DEF Inv, Sane, Becomes
<1>3. TempIsPrivate'
  <2>1. \A u \in Worker : worker'[u].temp \in {NoFile, worker[u].temp}
                         /\ worker'[u].file \in {NoFile, worker[u].file, link}
    BY <1>0 DEF Becomes
  <2>2. TempIsPrivate
    BY DEF Inv
  <2> QED
    BY <2>1, <2>2 DEF TempIsPrivate
<1>4. TempIsWhole'
  BY <1>0 DEF Inv, TempIsWhole, Becomes
<1>5. Exclusive'
  BY <1>0 DEF Inv, Exclusive, Becomes
<1>6. LockHeld'
  BY <1>0 DEF Inv, LockHeld, Becomes
<1>7. NoRewrite'
  <2> SUFFICES ASSUME MaxRefusals < Retries PROVE NoRewrite'
    BY DEF NoRewrite
  <2>1. Rest(r.file) /\ r.step \notin {"fallback", "refill"} /\ r.attempt <= MaxRefusals
    BY DEF Inv, NoRewrite, Becomes, Rest
  <2>2. (Rest(link) /\ Rest(disk) /\ (disk # NoFile => synced[disk])
         /\ (link # NoFile => synced[link]))'
    BY DEF Inv, NoRewrite, Rest
  <2>3. ASSUME NEW u \in Worker
        PROVE  (worker[u].step \notin {"fallback", "refill"}
                /\ worker[u].attempt <= MaxRefusals /\ Rest(worker[u].file))'
    BY <1>0, <2>1 DEF Inv, NoRewrite, Rest
  <2> QED
    BY <2>2, <2>3 DEF NoRewrite
<1>8. Reported'
  BY <1>0 DEF Inv, Reported, Becomes
<1>9. Rewritten'
  BY <1>0 DEF Inv, Rewritten, Becomes, WholeAtRest, DocumentAt, At
<1> QED
  BY <1>1, <1>2, <1>3, <1>4, <1>5, <1>6, <1>7, <1>8, <1>9 DEF Inv

\* Bounds of the constants, for the provers.
LEMMA Bounds == 0 < Retries /\ 0 <= MaxRefusals
BY RetryAssumption

\* The records of workers that hold nothing are well formed.
LEMMA FreeIsThread ==
  ASSUME NEW step \in Step, NEW doc \in Document, NEW file \in MaybeFile,
         NEW landed \in BOOLEAN, NEW told \in {"none", "ok", "error"}
  PROVE  Free(step, doc, file, landed, told) \in Thread
<1>1. 0 \in 0..Retries /\ NoFile \in MaybeFile
  BY RetryAssumption DEF MaybeFile
<1> QED
  BY <1>1 DEF Free, Thread

\* Calls of a save or a load.
LEMMA CallsInv == ASSUME Inv, NEW w \in Worker, Calls(w) PROVE Inv'
<1>1. ASSUME NEW v \in Value, CallSave(w, v) PROVE Inv'
  <2> DEFINE r == Free("thread lock", v, NoFile, FALSE, "none")
  <2>0. r \in Thread
    BY FreeIsThread DEF Step, Document, MaybeFile
  <2>1. Becomes(w, r)
    BY <1>1, <2>0, Bounds DEF CallSave, At, Becomes, Free, Trying, UnderLocks
  <2>2. worker' = [worker EXCEPT ![w] = r] /\ UNCHANGED <<content, synced, link, disk>>
    BY <1>1 DEF CallSave
  <2> HIDE DEF r
  <2> QED
    BY <2>1, <2>2, WorkerMoves
<1>2. CASE OpenForLoad(w)
  <2> DEFINE r == Free("opened", Default, link, FALSE, "none")
  <2>0. r \in Thread
    BY FreeIsThread DEF Inv, TypeOK, Step, Document
  <2>1. Becomes(w, r)
    BY <1>2, <2>0, RetryAssumption
    DEF OpenForLoad, Inv, TypeOK, Becomes, At, Free, Saving, Trying, UnderLocks,
        MaybeFile
  <2>2. worker' = [worker EXCEPT ![w] = r] /\ UNCHANGED <<content, synced, link, disk>>
    BY <1>2 DEF OpenForLoad
  <2> HIDE DEF r
  <2> QED
    BY <2>1, <2>2, WorkerMoves
<1>3. CASE LoadDefault(w)
  <2> DEFINE r == Loaded(Default)
  <2>0. r \in Thread
    BY FreeIsThread DEF Loaded, Step, Document, MaybeFile
  <2>1. Becomes(w, r)
    BY <1>3, <2>0, RetryAssumption
    DEF LoadDefault, Loaded, Becomes, At, Free, Saving, Trying, UnderLocks,
        MaybeFile
  <2>2. worker' = [worker EXCEPT ![w] = r] /\ UNCHANGED <<content, synced, link, disk>>
    BY <1>3 DEF LoadDefault
  <2> HIDE DEF r
  <2> QED
    BY <2>1, <2>2, WorkerMoves
<1> QED
  BY <1>1, <1>2, <1>3 DEF Calls

\* The thread lock is taken.
LEMMA AcquireThreadLockInv ==
  ASSUME Inv, NEW w \in Worker, AcquireThreadLock(w)
  PROVE  Inv'
<1> DEFINE r == worker'[w]
<1>1. worker \in [Worker -> Thread] /\ worker[w] \in Thread
  BY DEF Inv, TypeOK
<1>2. /\ r.step = "file lock"
      /\ r.doc = worker[w].doc /\ r.temp = worker[w].temp /\ r.file = worker[w].file
      /\ r.attempt = worker[w].attempt /\ r.locked = worker[w].locked
      /\ r.landed = worker[w].landed
      /\ r.told = worker[w].told
  BY <1>1 DEF AcquireThreadLock, GoTo, Thread
<1>3. r \in Thread
  BY <1>1, <1>2, RetryAssumption
  DEF AcquireThreadLock, GoTo, At, Thread, Step, UnderLocks
<1>4. worker' = [worker EXCEPT ![w] = r] /\ UNCHANGED <<content, synced, link, disk>>
  BY <1>1 DEF AcquireThreadLock, GoTo
<1>5. Becomes(w, r)
  BY <1>1, <1>2, <1>3, Bounds
  DEF AcquireThreadLock, At, Becomes, Saving, Trying, UnderLocks, Inv, Sane,
      NoRewrite, LockHeld, Reported
<1> HIDE DEF r
<1> QED
  BY <1>4, <1>5, WorkerMoves

\* The file lock is taken.
LEMMA AcquireFileLockInv == ASSUME Inv, NEW w \in Worker, AcquireFileLock(w) PROVE Inv'
<1> DEFINE r == worker'[w]
<1>1. worker \in [Worker -> Thread] /\ worker[w] \in Thread
  BY DEF Inv, TypeOK
<1>2. /\ r.step = "dump" /\ r.locked = TRUE
      /\ r.doc = worker[w].doc /\ r.temp = worker[w].temp /\ r.file = worker[w].file
      /\ r.attempt = worker[w].attempt /\ r.landed = worker[w].landed
      /\ r.told = worker[w].told
  BY <1>1 DEF AcquireFileLock, GoTo, Thread
<1>3. r \in Thread
  BY <1>1, <1>2, RetryAssumption DEF AcquireFileLock, GoTo, At, Thread, Step, UnderLocks
<1>4. worker' = [worker EXCEPT ![w] = r] /\ UNCHANGED <<content, synced, link, disk>>
  BY <1>1 DEF AcquireFileLock, GoTo
<1>5. Becomes(w, r)
  BY <1>1, <1>2, <1>3, Bounds
  DEF AcquireFileLock, At, Becomes, Saving, Trying, UnderLocks, Inv, Sane,
      NoRewrite, LockHeld, Reported
<1> HIDE DEF r
<1> QED
  BY <1>4, <1>5, WorkerMoves

\* The save goes on without the file lock.
LEMMA GoWithoutFileLockInv ==
  ASSUME Inv, NEW w \in Worker, GoWithoutFileLock(w)
  PROVE  Inv'
<1> DEFINE r == worker'[w]
<1>1. worker \in [Worker -> Thread] /\ worker[w] \in Thread
  BY DEF Inv, TypeOK
<1>2. /\ r.step = "dump"
      /\ r.doc = worker[w].doc /\ r.temp = worker[w].temp /\ r.file = worker[w].file
      /\ r.attempt = worker[w].attempt /\ r.locked = worker[w].locked
      /\ r.landed = worker[w].landed
      /\ r.told = worker[w].told
  BY <1>1 DEF GoWithoutFileLock, GoTo, Thread
<1>3. r \in Thread
  BY <1>1, <1>2, RetryAssumption
  DEF GoWithoutFileLock, GoTo, At, Thread, Step, UnderLocks
<1>4. worker' = [worker EXCEPT ![w] = r] /\ UNCHANGED <<content, synced, link, disk>>
  BY <1>1 DEF GoWithoutFileLock, GoTo
<1>5. Becomes(w, r)
  BY <1>1, <1>2, <1>3, Bounds
  DEF GoWithoutFileLock, At, Becomes, Saving, Trying, UnderLocks, Inv, Sane,
      NoRewrite, LockHeld, Reported
<1> HIDE DEF r
<1> QED
  BY <1>4, <1>5, WorkerMoves

\* A move is refused.
LEMMA ReplaceRefusedInv == ASSUME Inv, NEW w \in Worker, ReplaceRefused(w) PROVE Inv'
<1> DEFINE r == worker'[w]
<1>1. worker \in [Worker -> Thread] /\ worker[w] \in Thread
  BY DEF Inv, TypeOK
<1>2. /\ r.step = (IF worker[w].attempt + 1 < Retries THEN "replace" ELSE "fallback")
      /\ r.attempt = worker[w].attempt + 1
      /\ r.doc = worker[w].doc /\ r.temp = worker[w].temp /\ r.file = worker[w].file
      /\ r.locked = worker[w].locked
      /\ r.landed = worker[w].landed /\ r.told = worker[w].told
  BY <1>1 DEF ReplaceRefused, GoTo, Thread
<1>3. /\ worker[w].attempt \in 0..Retries /\ Retries \in Nat /\ MaxRefusals \in Nat
      /\ worker[w].step = "replace" /\ worker[w].attempt < Retries
      /\ worker[w].attempt < MaxRefusals
  BY <1>1, RetryAssumption DEF ReplaceRefused, At, Inv, Sane, Thread, Trying
<1>4. /\ r.attempt \in 0..Retries /\ r.attempt <= MaxRefusals
      /\ r.step = "replace" => r.attempt < Retries
      /\ r.step \in {"replace", "fallback"}
      /\ MaxRefusals < Retries => r.step = "replace"
  <2>1. worker[w].attempt \in Nat /\ worker[w].attempt + 1 <= MaxRefusals
        /\ worker[w].attempt + 1 <= Retries
    BY <1>3
  <2>2. r.attempt = worker[w].attempt + 1
        /\ r.step = IF worker[w].attempt + 1 < Retries THEN "replace" ELSE "fallback"
    BY <1>2
  <2>3. r.attempt \in 0..Retries /\ r.attempt <= MaxRefusals
    BY <1>3, <2>1, <2>2
  <2>4. MaxRefusals < Retries => worker[w].attempt + 1 < Retries
    BY <1>3, <2>1
  <2>5. CASE worker[w].attempt + 1 < Retries
    BY <2>2, <2>3, <2>5
  <2>6. CASE ~(worker[w].attempt + 1 < Retries)
    <3>1. r.step = "fallback"
      BY <2>2, <2>6
    <3>2. ~(MaxRefusals < Retries)
      BY <2>4, <2>6
    <3> QED
      BY <1>3, <2>3, <3>1, <3>2
  <2> QED
    BY <2>5, <2>6
<1>5. r \in Thread
  BY <1>1, <1>2, <1>4 DEF ReplaceRefused, Thread, Step, UnderLocks
<1>6. worker' = [worker EXCEPT ![w] = r] /\ UNCHANGED <<content, synced, link, disk>>
  BY <1>1 DEF ReplaceRefused, GoTo
<1>7. Becomes(w, r)
  <2>1. r.temp = worker[w].temp /\ r.doc = worker[w].doc /\ r.locked = worker[w].locked
        /\ r.landed = worker[w].landed /\ r.told = worker[w].told /\ r.file = NoFile
    BY <1>2, <1>3 DEF Inv, Sane
  <2>2. /\ worker[w].doc \in Value
        /\ r.step = "replace" => r.step = worker[w].step
        /\ "no lock" \notin Trouble => worker[w].locked
        /\ "no lock" \notin Trouble /\ worker[w].told = "ok" => worker[w].landed
    BY <1>3 DEF Inv, Sane, Saving, Trying, UnderLocks, LockHeld, Reported
  <2> QED
    BY <1>5, <1>3, <1>4, <2>1, <2>2 DEF Becomes, Trying
<1> HIDE DEF r
<1> QED
  BY <1>6, <1>7, WorkerMoves

\* A step of a save raises.
LEMMA StepRaisesInv == ASSUME Inv, NEW w \in Worker, StepRaises(w) PROVE Inv'
<1> DEFINE r == worker'[w]
<1>1. worker \in [Worker -> Thread] /\ worker[w] \in Thread
  BY DEF Inv, TypeOK
<1>2. /\ r.step = "raised" /\ r.file = NoFile
      /\ r.doc = worker[w].doc /\ r.temp = worker[w].temp /\ r.attempt = worker[w].attempt
      /\ r.locked = worker[w].locked
      /\ r.landed = worker[w].landed /\ r.told = worker[w].told
  BY <1>1 DEF StepRaises, GoTo, Thread
<1>3. r \in Thread
  BY <1>1, <1>2, RetryAssumption
  DEF StepRaises, GoTo, At, Thread, Step, UnderLocks, MaybeFile
<1>4. worker' = [worker EXCEPT ![w] = r] /\ UNCHANGED <<content, synced, link, disk>>
  BY <1>1 DEF StepRaises, GoTo
<1>5. Becomes(w, r)
  BY <1>1, <1>2, <1>3, Bounds
  DEF StepRaises, At, Becomes, RewritesFinish, Saving, Trying, UnderLocks, Inv,
      Sane, NoRewrite, LockHeld, Reported
<1> HIDE DEF r
<1> QED
  BY <1>4, <1>5, WorkerMoves

\* The lock file cannot be made.
LEMMA LockFileRaisesInv == ASSUME Inv, NEW w \in Worker, LockFileRaises(w) PROVE Inv'
<1> DEFINE r == Free("idle", Default, NoFile, FALSE, "error")
<1>1. worker[w] \in Thread
  BY DEF Inv, TypeOK
<1>2. r \in Thread
  BY <1>1, FreeIsThread DEF Step, Document, MaybeFile, Thread
<1>3. worker' = [worker EXCEPT ![w] = r] /\ UNCHANGED <<content, synced, link, disk>>
  BY DEF LockFileRaises
<1>4. Becomes(w, r)
  BY <1>2, Bounds
  DEF LockFileRaises, Idle, At, Becomes, Free, Saving, Trying, UnderLocks
<1> HIDE DEF r
<1> QED
  BY <1>3, <1>4, WorkerMoves

\* A save returns.
LEMMA CleanupInv == ASSUME Inv, NEW w \in Worker, Cleanup(w) PROVE Inv'
<1> DEFINE r == Returned(w, "ok")
<1>1. worker[w] \in Thread
  BY DEF Inv, TypeOK
<1>2. r \in Thread
  BY <1>1, FreeIsThread DEF Step, Document, MaybeFile, Returned, Thread
<1>3. worker' = [worker EXCEPT ![w] = r] /\ UNCHANGED <<content, synced, link, disk>>
  BY DEF Cleanup
<1>4. Becomes(w, r)
  BY <1>2, Bounds
  DEF Cleanup, Returned, Inv, Reported, At, Becomes, Free, Saving, Trying,
      UnderLocks
<1> HIDE DEF r
<1> QED
  BY <1>3, <1>4, WorkerMoves

\* A save raises, or swallows the exception.
LEMMA RaiseInv == ASSUME Inv, NEW w \in Worker, Raise(w) PROVE Inv'
<1> DEFINE told == IF worker[w].locked THEN "error" ELSE "ok"
           r == Returned(w, told)
<1>1. worker[w] \in Thread
  BY DEF Inv, TypeOK
<1>2. r \in Thread
  <2>1. told \in {"none", "ok", "error"} /\ worker[w].landed \in BOOLEAN
    BY <1>1 DEF Thread
  <2> HIDE DEF told
  <2> QED
    BY <2>1, FreeIsThread DEF Step, Document, MaybeFile, Returned
<1>3. worker' = [worker EXCEPT ![w] = r] /\ UNCHANGED <<content, synced, link, disk>>
  BY DEF Raise
<1>4. Becomes(w, r)
  BY <1>2, Bounds
  DEF Raise, Returned, Inv, LockHeld, At, Becomes, Free, Saving, Trying, UnderLocks
<1> HIDE DEF r
<1> QED
  BY <1>3, <1>4, WorkerMoves

\* A load reads the file it opened.
LEMMA ReadInv == ASSUME Inv, NEW w \in Worker, Read(w) PROVE Inv'
<1> DEFINE c == content[worker[w].file]
           d == IF c = Torn THEN Default ELSE c
           r == Loaded(d)
<1>1. worker[w] \in Thread
  BY DEF Inv, TypeOK
<1>2. r \in Thread
  <2>1. worker[w].file \in Inode
    BY DEF Read, At, Inv, Sane
  <2>2. d \in Document
    BY <2>1 DEF Document, Inv, TypeOK
  <2> HIDE DEF d
  <2> QED
    BY <2>2, FreeIsThread DEF Step, MaybeFile, Loaded
<1>3. worker' = [worker EXCEPT ![w] = r] /\ UNCHANGED <<content, synced, link, disk>>
  BY DEF Read
<1>4. Becomes(w, r)
  BY <1>2, Bounds DEF Read, Loaded, At, Becomes, Free, Saving, Trying, UnderLocks
<1> HIDE DEF r
<1> QED
  BY <1>3, <1>4, WorkerMoves

\* A load returns.
LEMMA EndLoadInv == ASSUME Inv, NEW w \in Worker, EndLoad(w) PROVE Inv'
<1> DEFINE r == Idle
<1>1. worker[w] \in Thread
  BY DEF Inv, TypeOK
<1>2. r \in Thread
  BY <1>1, FreeIsThread DEF Step, Document, MaybeFile, Idle
<1>3. worker' = [worker EXCEPT ![w] = r] /\ UNCHANGED <<content, synced, link, disk>>
  BY DEF EndLoad
<1>4. Becomes(w, r)
  BY <1>2, Bounds DEF EndLoad, Idle, At, Becomes, Free, Saving, Trying, UnderLocks
<1> HIDE DEF r
<1> QED
  BY <1>3, <1>4, WorkerMoves

\* What a worker was doing before it dumps, syncs, moves, truncates or refills.
LEMMA Before ==
  ASSUME Inv, NEW w \in Worker
  PROVE  /\ worker \in [Worker -> Thread]
         /\ content \in [Inode -> Value \cup {Torn}]
         /\ synced \in [Inode -> BOOLEAN]
         /\ worker[w].doc \in Document /\ worker[w].temp \in MaybeFile
         /\ worker[w].step \in Saving => worker[w].doc \in Value
BY DEF Inv, TypeOK, Thread, Sane

\* The temporary file is written into an inode nobody uses.
LEMMA DumpInv == ASSUME Inv, NEW w \in Worker, Dump(w) PROVE Inv'
<1>1. PICK i \in Inode :
        /\ Fresh(i)
        /\ content' = [content EXCEPT ![i] = worker[w].doc]
        /\ synced' = [synced EXCEPT ![i] = FALSE]
        /\ worker' = [worker EXCEPT ![w].step = "sync", ![w].temp = i]
  BY DEF Dump
<1> DEFINE r == worker'[w]
<1>2. /\ worker[w].step = "dump" /\ worker[w].doc \in Value
      /\ link' = link /\ disk' = disk
  BY Before DEF Dump, At, Saving, Trying, UnderLocks
<1>3. /\ r.step = "sync" /\ r.temp = i
      /\ r.doc = worker[w].doc /\ r.file = worker[w].file
      /\ r.attempt = worker[w].attempt /\ r.locked = worker[w].locked
      /\ r.landed = worker[w].landed /\ r.told = worker[w].told
  BY <1>1, Before DEF Thread
<1>4. r \in Thread
  BY <1>1, <1>3, Before DEF Thread, Step, UnderLocks, MaybeFile
<1>5. /\ worker' \in [Worker -> Thread]
      /\ \A u \in Worker : u # w => worker'[u] = worker[u]
  BY <1>1, <1>4, Before
<1>6. /\ content'[i] = worker[w].doc
      /\ \A j \in Inode : j # i => content'[j] = content[j] /\ synced'[j] = synced[j]
      /\ content' \in [Inode -> Value \cup {Torn}]
      /\ synced' \in [Inode -> BOOLEAN]
  BY <1>1, <1>2, Before
<1>7. /\ i # link /\ i # disk /\ i # NoFile
      /\ \A u \in Worker : i # worker[u].temp /\ i # worker[u].file
  BY <1>1, StoreAssumption DEF Fresh
<1> HIDE DEF r
<1>8. TypeOK'
  BY <1>2, <1>5, <1>6 DEF Inv, TypeOK
<1>9. Sane'
  BY <1>2, <1>3, <1>5 DEF Inv, Sane, Saving, Trying, UnderLocks, r
<1>10. TempIsPrivate'
  BY <1>2, <1>3, <1>5, <1>7 DEF Inv, TempIsPrivate, r
<1>11. TempIsWhole'
  BY <1>2, <1>3, <1>5, <1>6, <1>7 DEF Inv, TempIsWhole, r
<1>12. Exclusive'
  BY <1>3, <1>5 DEF Inv, Exclusive, r
<1>13. LockHeld'
  BY <1>2, <1>3, <1>5 DEF Inv, LockHeld, UnderLocks, r
<1>14. NoRewrite'
  <2>1. \A j \in MaybeFile : j # i /\ Rest(j) => Rest(j)'
    BY <1>6 DEF Rest, MaybeFile
  <2>2. \A u \in Worker : /\ worker'[u].file = worker[u].file
                          /\ worker'[u].attempt = worker[u].attempt
                         /\ worker[u].file \in MaybeFile
    BY <1>3, <1>5 DEF r, Inv, TypeOK, Thread
  <2>3. MaxRefusals < Retries =>
          \A u \in Worker : worker'[u].step \notin {"fallback", "refill"}
    BY <1>3, <1>5 DEF Inv, NoRewrite, r
  <2> QED
    BY <1>2, <1>6, <1>7, <2>1, <2>2, <2>3 DEF Inv, TypeOK, MaybeFile, NoRewrite, Rest
<1>15. Reported'
  BY <1>2, <1>3, <1>5 DEF Inv, Reported, r
<1>16. Rewritten'
  BY <1>2, <1>3, <1>5, <1>6, <1>7
  DEF Inv, Sane, TypeOK, MaybeFile, Rewritten, WholeAtRest, DocumentAt, At, r
<1> QED
  BY <1>8, <1>9, <1>10, <1>11, <1>12, <1>13, <1>14, <1>15, <1>16 DEF Inv

\* The temporary file is on disk before it is moved.
LEMMA SyncInv == ASSUME Inv, NEW w \in Worker, Sync(w) PROVE Inv'
<1> DEFINE r == worker'[w]
<1>1. /\ worker[w].step = "sync" /\ worker[w].temp \in Inode
      /\ worker[w].doc \in Value /\ worker[w].attempt < Retries
      /\ content' = content /\ link' = link /\ disk' = disk
  BY Before DEF Sync, At, Saving, Trying, UnderLocks, Inv, TempIsWhole, Sane
<1>2. /\ r.step = "replace" /\ r.temp = worker[w].temp
      /\ r.doc = worker[w].doc /\ r.file = worker[w].file
      /\ r.attempt = worker[w].attempt /\ r.locked = worker[w].locked
      /\ r.landed = worker[w].landed /\ r.told = worker[w].told
  BY Before DEF Sync, GoTo, Thread
<1>3. r \in Thread
  BY <1>2, Before DEF Sync, GoTo, Thread, Step, UnderLocks
<1>4. /\ worker' \in [Worker -> Thread]
      /\ \A u \in Worker : u # w => worker'[u] = worker[u]
  BY <1>3, Before DEF Sync, GoTo
<1>5. /\ synced' \in [Inode -> BOOLEAN]
      /\ synced'[worker[w].temp]
      /\ \A j \in Inode : synced[j] => synced'[j]
  BY <1>1, Before DEF Sync
<1> HIDE DEF r
<1>6. TypeOK'
  BY <1>1, <1>4, <1>5 DEF Inv, TypeOK
<1>7. Sane'
  BY <1>1, <1>2, <1>4 DEF Inv, Sane, Saving, UnderLocks, r
<1>8. TempIsPrivate'
  BY <1>1, <1>2, <1>4 DEF Inv, TempIsPrivate, r
<1>9. TempIsWhole'
  BY <1>1, <1>2, <1>4, <1>5 DEF Inv, TempIsWhole, r
<1>10. Exclusive'
  BY <1>2, <1>4 DEF Inv, Exclusive, r
<1>11. LockHeld'
  BY <1>1, <1>2, <1>4 DEF Inv, LockHeld, UnderLocks, r
<1>12. NoRewrite'
  BY <1>1, <1>2, <1>4, <1>5 DEF Inv, TypeOK, MaybeFile, NoRewrite, Rest, r
<1>13. Reported'
  BY <1>1, <1>2, <1>4 DEF Inv, Reported, r
<1>14. Rewritten'
  BY <1>1, <1>2, <1>4 DEF Inv, Rewritten, WholeAtRest, DocumentAt, At, r
<1> QED
  BY <1>6, <1>7, <1>8, <1>9, <1>10, <1>11, <1>12, <1>13, <1>14 DEF Inv

\* The temporary file is moved onto the path.
LEMMA ReplaceInv == ASSUME Inv, NEW w \in Worker, Replace(w) PROVE Inv'
<1> DEFINE r == worker'[w]
           t == worker[w].temp
<1>1. /\ worker[w].step = "replace" /\ t \in Inode /\ t # NoFile
      /\ worker[w].doc \in Value /\ content[t] = worker[w].doc /\ synced[t]
      /\ worker[w].file = NoFile
      /\ "no lock" \notin Trouble => worker[w].locked
  BY Before, StoreAssumption
  DEF Replace, At, Saving, UnderLocks, Inv, Sane, TempIsWhole, LockHeld
<1>2. content' = content /\ synced' = synced /\ disk' = disk /\ link' = t
  BY DEF Replace
<1>3. /\ r.step = "cleanup" /\ r.temp = NoFile /\ r.landed = TRUE
      /\ r.doc = worker[w].doc /\ r.file = NoFile
      /\ r.attempt = worker[w].attempt /\ r.locked = worker[w].locked
      /\ r.told = worker[w].told
  BY <1>1, Before DEF Replace, Thread
<1>4. r \in Thread
  BY <1>3, Before DEF Replace, Thread, Step, UnderLocks, MaybeFile
<1>5. /\ worker' \in [Worker -> Thread]
      /\ \A u \in Worker : u # w => worker'[u] = worker[u]
  BY <1>4, Before DEF Replace
<1>6. \A u \in Worker : u # w => worker[u].temp # t /\ worker[u].file # t
  BY <1>1 DEF Inv, TempIsPrivate
<1>7. "no lock" \notin Trouble =>
        \A u \in Worker : u # w => worker[u].step \notin UnderLocks
  BY <1>1 DEF Inv, LockHeld, Exclusive
<1> HIDE DEF r, t
<1>8. TypeOK'
  BY <1>1, <1>2, <1>5 DEF Inv, TypeOK, MaybeFile
<1>9. Sane'
  BY <1>1, <1>3, <1>5 DEF Inv, Sane, Saving, Trying, UnderLocks, r
<1>10. TempIsPrivate'
  BY <1>2, <1>3, <1>5, <1>6 DEF Inv, TempIsPrivate, r
<1>11. TempIsWhole'
  BY <1>2, <1>3, <1>5 DEF Inv, TempIsWhole, r
<1>12. Exclusive'
  BY <1>3, <1>5 DEF Inv, Exclusive, r
<1>13. LockHeld'
  BY <1>1, <1>3, <1>5 DEF Inv, LockHeld, UnderLocks, r
<1>14. NoRewrite'
  BY <1>1, <1>2, <1>3, <1>5 DEF Inv, NoRewrite, Rest, r
<1>15. Reported'
  BY <1>3, <1>5, <1>7 DEF Inv, Reported, UnderLocks, r
<1>16. Rewritten'
  BY <1>1, <1>2, <1>3, <1>5, StoreAssumption
  DEF Inv, Rewritten, WholeAtRest, DocumentAt, r
<1> QED
  BY <1>8, <1>9, <1>10, <1>11, <1>12, <1>13, <1>14, <1>15, <1>16 DEF Inv

\* The fallback empties the file at the path.
LEMMA TruncateInv == ASSUME Inv, NEW w \in Worker, Truncate(w) PROVE Inv'
<1>1. PICK i \in Inode :
        /\ IF link = NoFile THEN Fresh(i) ELSE i = link
        /\ content' = [content EXCEPT ![i] = Torn]
        /\ synced' = [synced EXCEPT ![i] = FALSE]
        /\ link' = i
        /\ worker' = [worker EXCEPT ![w].step = "refill", ![w].file = i]
  BY DEF Truncate
<1> DEFINE r == worker'[w]
<1>2. /\ worker[w].step = "fallback" /\ worker[w].doc \in Value /\ disk' = disk
      /\ "no lock" \notin Trouble => worker[w].locked
      /\ ~(MaxRefusals < Retries)
  BY Before DEF Truncate, At, Saving, UnderLocks, Inv, LockHeld, NoRewrite
<1>3. /\ r.step = "refill" /\ r.file = i
      /\ r.doc = worker[w].doc /\ r.temp = worker[w].temp
      /\ r.attempt = worker[w].attempt /\ r.locked = worker[w].locked
      /\ r.landed = worker[w].landed /\ r.told = worker[w].told
  BY <1>1, Before DEF Thread
<1>4. r \in Thread
  BY <1>1, <1>3, Before DEF Thread, Step, UnderLocks, MaybeFile
<1>5. /\ worker' \in [Worker -> Thread]
      /\ \A u \in Worker : u # w => worker'[u] = worker[u]
  BY <1>1, <1>4, Before
<1>6. /\ content'[i] = Torn
      /\ \A j \in Inode : j # i => content'[j] = content[j] /\ synced'[j] = synced[j]
      /\ content' \in [Inode -> Value \cup {Torn}]
      /\ synced' \in [Inode -> BOOLEAN]
      /\ link' = i
  BY <1>1, Before
<1>7. \A u \in Worker : i # worker[u].temp
  BY <1>1, StoreAssumption DEF Fresh, Inv, TempIsPrivate
<1>8. "no lock" \notin Trouble =>
        \A u \in Worker : u # w => worker[u].step \notin UnderLocks
  BY <1>2 DEF Inv, LockHeld, Exclusive
<1> HIDE DEF r
<1>9. TypeOK'
  BY <1>2, <1>5, <1>6 DEF Inv, TypeOK, MaybeFile
<1>10. Sane'
  BY <1>2, <1>3, <1>5 DEF Inv, Sane, Saving, Trying, UnderLocks, r
<1>11. TempIsPrivate'
  <2>1. \A u \in Worker : worker'[u].temp = worker[u].temp
                         /\ worker'[u].file \in {worker[u].file, i}
    BY <1>3, <1>5 DEF r
  <2>2. TempIsPrivate /\ link' = i /\ disk' = disk
    BY <1>2, <1>6 DEF Inv
  <2> QED
    BY <1>7, <2>1, <2>2 DEF TempIsPrivate
<1>12. TempIsWhole'
  <2> SUFFICES ASSUME NEW u \in Worker, worker'[u].step \in {"sync", "replace"}
               PROVE  /\ worker'[u].temp \in Inode
                      /\ content'[worker'[u].temp] = worker'[u].doc
                      /\ worker'[u].step = "replace" => synced'[worker'[u].temp]
    BY DEF TempIsWhole
  <2>1. worker'[u] = worker[u]
    BY <1>3, <1>5 DEF r
  <2>2. worker[u].temp \in Inode /\ worker[u].temp # i
    BY <1>7, <2>1, StoreAssumption DEF Inv, TempIsWhole
  <2> QED
    BY <1>6, <2>1, <2>2 DEF Inv, TempIsWhole
<1>13. Exclusive'
  BY <1>3, <1>5 DEF Inv, Exclusive, r
<1>14. LockHeld'
  BY <1>2, <1>3, <1>5 DEF Inv, LockHeld, UnderLocks, r
<1>15. NoRewrite'
  BY <1>2 DEF NoRewrite
<1>16. Reported'
  BY <1>2, <1>3, <1>5, <1>6, <1>8 DEF Inv, Reported, UnderLocks, r
<1>17. Rewritten'
  <2>1. RewritesFinish => "no lock" \notin Trouble
    BY DEF RewritesFinish
  <2>2. (At(w, "refill") /\ worker[w].file = link)'
    BY <1>3, <1>6 DEF At, r
  <2>3. RewritesFinish =>
          \A u \in Worker : worker'[u].step = "refill" => u = w
    BY <1>5, <1>8, <2>1 DEF UnderLocks
  <2> QED
    BY <1>3, <1>6, <2>2, <2>3 DEF Rewritten, WholeAtRest, r
<1> QED
  BY <1>9, <1>10, <1>11, <1>12, <1>13, <1>14, <1>15, <1>16, <1>17 DEF Inv

\* The fallback writes the document.
LEMMA RefillInv == ASSUME Inv, NEW w \in Worker, Refill(w) PROVE Inv'
<1> DEFINE r == worker'[w]
           i == worker[w].file
<1>1. /\ worker[w].step = "refill" /\ i \in Inode /\ worker[w].doc \in Value
      /\ synced' = synced /\ disk' = disk /\ link' = link
      /\ "no lock" \notin Trouble => worker[w].locked /\ i = link
      /\ ~(MaxRefusals < Retries)
  BY Before
  DEF Refill, At, Saving, UnderLocks, Inv, Sane, LockHeld, NoRewrite, Reported
<1>2. /\ r.step = "cleanup" /\ r.file = NoFile /\ r.landed = (i = link)
      /\ r.doc = worker[w].doc /\ r.temp = worker[w].temp
      /\ r.attempt = worker[w].attempt /\ r.locked = worker[w].locked
      /\ r.told = worker[w].told
  BY Before DEF Refill, Thread
<1>3. r \in Thread
  BY <1>2, Before DEF Refill, Thread, Step, UnderLocks, MaybeFile
<1>4. /\ worker' \in [Worker -> Thread]
      /\ \A u \in Worker : u # w => worker'[u] = worker[u]
  BY <1>3, Before DEF Refill
<1>5. /\ content'[i] \in {worker[w].doc, Torn}
      /\ content[i] = Torn => content'[i] = worker[w].doc
      /\ \A j \in Inode : j # i => content'[j] = content[j]
      /\ content' \in [Inode -> Value \cup {Torn}]
  BY <1>1, Before DEF Refill
<1>6. \A u \in Worker : worker[u].temp # NoFile => worker[u].temp # i
  BY DEF Inv, TempIsPrivate
<1>7. "no lock" \notin Trouble =>
        \A u \in Worker : u # w => worker[u].step \notin UnderLocks
  BY <1>1 DEF Inv, LockHeld, Exclusive
<1> HIDE DEF r, i
<1>8. TypeOK'
  BY <1>1, <1>4, <1>5 DEF Inv, TypeOK
<1>9. Sane'
  BY <1>1, <1>2, <1>4 DEF Inv, Sane, Saving, Trying, UnderLocks, r
<1>10. TempIsPrivate'
  <2>1. \A u \in Worker : worker'[u].temp = worker[u].temp
                         /\ worker'[u].file \in {worker[u].file, NoFile}
    BY <1>2, <1>4 DEF r
  <2> QED
    BY <1>1, <2>1 DEF Inv, TempIsPrivate
<1>11. TempIsWhole'
  <2> SUFFICES ASSUME NEW u \in Worker, worker'[u].step \in {"sync", "replace"}
               PROVE  /\ worker'[u].temp \in Inode
                      /\ content'[worker'[u].temp] = worker'[u].doc
                      /\ worker'[u].step = "replace" => synced'[worker'[u].temp]
    BY DEF TempIsWhole
  <2>1. worker'[u] = worker[u]
    BY <1>2, <1>4 DEF r
  <2>2. worker[u].temp \in Inode /\ worker[u].temp # i
    BY <1>6, <2>1, StoreAssumption DEF Inv, TempIsWhole
  <2> QED
    BY <1>1, <1>5, <2>1, <2>2 DEF Inv, TempIsWhole
<1>12. Exclusive'
  BY <1>2, <1>4 DEF Inv, Exclusive, r
<1>13. LockHeld'
  BY <1>1, <1>2, <1>4 DEF Inv, LockHeld, UnderLocks, r
<1>14. NoRewrite'
  BY <1>1 DEF NoRewrite
<1>15. Reported'
  BY <1>1, <1>2, <1>4, <1>7 DEF Inv, Reported, UnderLocks, r
<1>16. Rewritten'
  <2> SUFFICES ASSUME RewritesFinish PROVE Rewritten'
    BY DEF Rewritten
  <2>1. "no lock" \notin Trouble
    BY DEF RewritesFinish
  <2>2. link' = i /\ content'[i] = worker[w].doc
    BY <1>1, <1>5, <2>1 DEF Inv, Rewritten, i
  <2>3. \A u \in Worker : worker'[u].step # "refill"
    BY <1>2, <1>4, <1>7, <2>1 DEF UnderLocks, r
  <2> QED
    BY <1>1, <2>2, <2>3, StoreAssumption DEF Rewritten, WholeAtRest, DocumentAt
<1> QED
  BY <1>8, <1>9, <1>10, <1>11, <1>12, <1>13, <1>14, <1>15, <1>16 DEF Inv

\* What happens outside the program.
LEMMA WriteBackInv == Inv /\ WriteBack => Inv'
<1> SUFFICES ASSUME Inv, WriteBack PROVE Inv'
  OBVIOUS
<1>1. disk' = link /\ link' = link /\ content' = content /\ synced' = synced
      /\ worker' = worker
  BY DEF WriteBack
<1>2. TypeOK' /\ Sane' /\ TempIsWhole' /\ Exclusive' /\ LockHeld' /\ Reported'
  BY <1>1 DEF Inv, TypeOK, Sane, TempIsWhole, Exclusive, LockHeld, Reported
<1>3. TempIsPrivate'
  BY <1>1 DEF Inv, TempIsPrivate
<1>4. NoRewrite' /\ Rewritten'
  BY <1>1 DEF Inv, NoRewrite, Rest, Rewritten, WholeAtRest, DocumentAt, At
<1> QED
  BY <1>2, <1>3, <1>4 DEF Inv

\* Workers that die leave the others alone.
LEMMA KillInv == ASSUME Inv, NEW p \in Process, Kill(p) PROVE Inv'
<1>1. /\ disk' = disk /\ link' = link /\ content' = content /\ synced' = synced
      /\ \A w \in Worker : worker'[w] \in {worker[w], Idle}
      /\ worker' \in [Worker -> {worker[w] : w \in Worker} \cup {Idle}]
      /\ ~RewritesFinish
  BY DEF Kill, RewritesFinish
<1>2. /\ Idle \in Thread /\ Idle.step = "idle" /\ Idle.file = NoFile
      /\ Idle.temp = NoFile /\ Idle.attempt = 0 /\ Idle.locked = FALSE
      /\ Idle.told = "none"
  BY FreeIsThread DEF Idle, Free, Step, Document, MaybeFile
<1> HIDE DEF Idle
<1>3. TypeOK'
  BY <1>1, <1>2 DEF Inv, TypeOK
<1>4. Sane'
  BY <1>1, <1>2 DEF Inv, Sane, Saving, Trying, UnderLocks
<1>5. TempIsPrivate'
  BY <1>1, <1>2 DEF Inv, TempIsPrivate
<1>6. TempIsWhole' /\ Exclusive'
  BY <1>1, <1>2 DEF Inv, TempIsWhole, Exclusive
<1>7. LockHeld' /\ Reported'
  BY <1>1, <1>2 DEF Inv, LockHeld, UnderLocks, Reported
<1>8. NoRewrite' /\ Rewritten'
  BY <1>1, <1>2, Bounds DEF Inv, NoRewrite, Rest, Rewritten
<1> QED
  BY <1>3, <1>4, <1>5, <1>6, <1>7, <1>8 DEF Inv

\* A power failure takes nothing that was synced.
LEMMA PowerLossInv == Inv /\ PowerLoss => Inv'
<1> SUFFICES ASSUME Inv, PowerLoss PROVE Inv'
  OBVIOUS
<1>1. PICK lost \in SUBSET {i \in Inode : ~synced[i]} :
        content' = [i \in Inode |-> IF i \in lost THEN Torn ELSE content[i]]
  BY DEF PowerLoss
<1>2. /\ disk' = disk /\ link' = disk /\ synced' = [i \in Inode |-> TRUE]
      /\ \A w \in Worker : worker'[w] = Idle
      /\ worker' \in [Worker -> {Idle}]
      /\ ~RewritesFinish
  BY DEF PowerLoss, RewritesFinish
<1>3. /\ Idle \in Thread /\ Idle.step = "idle" /\ Idle.file = NoFile
      /\ Idle.temp = NoFile /\ Idle.attempt = 0 /\ Idle.locked = FALSE
      /\ Idle.told = "none"
  BY FreeIsThread DEF Idle, Free, Step, Document, MaybeFile
<1> HIDE DEF Idle
<1>4. TypeOK'
  BY <1>1, <1>2, <1>3 DEF Inv, TypeOK
<1>5. Sane' /\ TempIsPrivate' /\ TempIsWhole' /\ Exclusive'
  BY <1>2, <1>3
  DEF Sane, Saving, Trying, UnderLocks, TempIsPrivate, TempIsWhole, Exclusive
<1>6. LockHeld' /\ Reported'
  BY <1>2, <1>3 DEF LockHeld, UnderLocks, Reported
<1>7. NoRewrite'
  <2>1. \A i \in Inode : synced[i] => content'[i] = content[i]
    BY <1>1
  <2>2. MaxRefusals < Retries /\ disk # NoFile => content'[disk] \in Value
    BY <2>1 DEF Inv, TypeOK, MaybeFile, NoRewrite, Rest
  <2>3. disk # NoFile => synced'[disk]
    BY <1>2 DEF Inv, TypeOK, MaybeFile
  <2> QED
    BY <1>2, <1>3, <2>2, <2>3, Bounds DEF NoRewrite, Rest
<1>8. Rewritten'
  BY <1>2 DEF Rewritten, RewritesFinish
<1> QED
  BY <1>4, <1>5, <1>6, <1>7, <1>8 DEF Inv

-----------------------------------------------------------------------------
(* The theorems                                                            *)

\* Every step keeps the invariant.
LEMMA NextInv == Inv /\ [Next]_vars => Inv'
<1> SUFFICES ASSUME Inv, [Next]_vars PROVE Inv'
  OBVIOUS
<1>1. ASSUME NEW w \in Worker, Calls(w) PROVE Inv'
  BY <1>1, CallsInv
<1>2. ASSUME NEW w \in Worker, Progress(w) PROVE Inv'
  BY <1>2, AcquireThreadLockInv, AcquireFileLockInv, GoWithoutFileLockInv,
     LockFileRaisesInv, DumpInv, SyncInv, ReplaceInv, ReplaceRefusedInv,
     TruncateInv, RefillInv, StepRaisesInv, CleanupInv, RaiseInv, ReadInv,
     EndLoadInv
  DEF Progress
<1>3. ASSUME NEW p \in Process, Kill(p) PROVE Inv'
  BY <1>3, KillInv
<1>4. CASE UNCHANGED vars
  BY <1>4 DEF vars, Inv, TypeOK, Sane, TempIsPrivate, TempIsWhole, Exclusive,
     LockHeld, NoRewrite, Rest, Reported, Rewritten, WholeAtRest, DocumentAt, At
<1> QED
  BY <1>1, <1>2, <1>3, <1>4, WriteBackInv, PowerLossInv DEF Next, Calls

\* The inductive invariant holds in every reachable state.
THEOREM StoreInvariance == Spec => []Inv
<1> QED
  BY InitInv, NextInv, PTL DEF Spec

\* Type correctness of the state store.
THEOREM StoreTypeCorrect == Spec => []TypeOK
<1>1. Inv => TypeOK
  BY DEF Inv
<1> QED
  BY <1>1, StoreInvariance, PTL

\* While the file lock can be had, save_json returns normally only if its
\* document reached the path, whatever else goes wrong and for any number of
\* threads, processes and attempts.
THEOREM SavesAreNotLost ==
  ASSUME "no lock" \notin Trouble PROVE Spec => []SaveIsNotLost
<1>1. Inv => SaveIsNotLost
  BY DEF Inv, Reported, SaveIsNotLost
<1> QED
  BY <1>1, StoreInvariance, PTL

\* Where rewrites finish, the file is broken only while the one fallback
\* under way rewrites it.
THEOREM FilesAreWholeAtRest ==
  ASSUME RewritesFinish PROVE Spec => []WholeAtRest
<1>1. Inv => WholeAtRest
  BY DEF Inv, Rewritten
<1> QED
  BY <1>1, StoreInvariance, PTL

-----------------------------------------------------------------------------
(* The state store implements the register                                 *)

\* The values the register variables take under the refinement mapping.
Doc     == DocumentAt(link)
Durable == DocumentAt(disk)
Clients == [w \in Worker |-> Client(w)]

\* What an inode in use holds does not change under a step of a worker that
\* never reaches the fallback.
LEMMA OpenFilesKeep ==
  ASSUME Inv, MaxRefusals < Retries, NEW w \in Worker, Calls(w) \/ Progress(w),
         NEW i \in MaybeFile,
         i \in {link, disk} \/ \E u \in Worker : i = worker[u].file
  PROVE  DocumentAt(i)' = IF i = NoFile THEN Default ELSE content[i]
<1>1. CASE Dump(w)
  BY <1>1, StoreAssumption DEF Dump, Fresh, DocumentAt, Inv, TypeOK, MaybeFile
<1>2. CASE ~Dump(w)
  <2>1. ~Truncate(w) /\ ~Refill(w)
    BY DEF Truncate, Refill, At, Inv, NoRewrite
  <2>2. content' = content
    BY <1>2, <2>1 DEF Calls, Progress, CallSave, OpenForLoad, LoadDefault,
       AcquireThreadLock, AcquireFileLock, GoWithoutFileLock, LockFileRaises,
       Sync, Replace, ReplaceRefused, StepRaises, Cleanup, Raise, Read, EndLoad
  <2> QED
    BY <2>2 DEF DocumentAt
<1> QED
  BY <1>1, <1>2

\* The client of a worker that does nothing stays as it is.
LEMMA OthersKeep ==
  ASSUME Inv, MaxRefusals < Retries, NEW w \in Worker, Calls(w) \/ Progress(w),
         NEW u \in Worker, worker'[u] = worker[u]
  PROVE  Client(u)' = Client(u)
<1>1. worker[u].file \in MaybeFile
  BY DEF Inv, TypeOK, Thread
<1>2. DocumentAt(worker[u].file)' = DocumentAt(worker[u].file)
  <2> DEFINE f == worker[u].file
  <2>1. PICK i \in MaybeFile : i = worker[u].file
    BY <1>1
  <2>2. DocumentAt(i)' = IF i = NoFile THEN Default ELSE content[i]
    BY <2>1, OpenFilesKeep
  <2> QED
    BY <2>1, <2>2 DEF DocumentAt
<1> QED
  BY <1>2 DEF Client, Phase, At

\* A step of one worker changes its own client only.
LEMMA ClientMoves ==
  ASSUME Inv, MaxRefusals < Retries, NEW w \in Worker, Calls(w) \/ Progress(w)
  PROVE  Clients' = [Clients EXCEPT ![w] = Client(w)']
<1>1. \A u \in Worker : u # w => worker'[u] = worker[u]
  BY Before DEF Calls, Progress, CallSave, OpenForLoad, LoadDefault,
     AcquireThreadLock, AcquireFileLock, GoWithoutFileLock, LockFileRaises, Dump,
     Sync, Replace, ReplaceRefused, Truncate, Refill, StepRaises, Cleanup, Raise,
     Read, EndLoad, GoTo
<1>2. \A u \in Worker : u # w => Client(u)' = Client(u)
  BY <1>1, OthersKeep
<1> QED
  BY <1>2 DEF Clients

\* Nor does it change the register, unless it moves a file onto the path.
LEMMA RegisterKeeps ==
  ASSUME Inv, MaxRefusals < Retries, NEW w \in Worker, Calls(w) \/ Progress(w)
  PROVE  /\ Durable' = Durable
         /\ link' = link => Doc' = Doc
<1>1. disk' = disk
  BY DEF Calls, Progress, CallSave, OpenForLoad, LoadDefault,
     AcquireThreadLock, AcquireFileLock, GoWithoutFileLock, LockFileRaises, Dump,
     Sync, Replace, ReplaceRefused, Truncate, Refill, StepRaises, Cleanup, Raise,
     Read, EndLoad
<1>2. PICK i \in MaybeFile : i = disk
  BY DEF Inv, TypeOK
<1>3. PICK j \in MaybeFile : j = link
  BY DEF Inv, TypeOK
<1>4. /\ DocumentAt(i)' = IF i = NoFile THEN Default ELSE content[i]
      /\ DocumentAt(j)' = IF j = NoFile THEN Default ELSE content[j]
  BY <1>2, <1>3, OpenFilesKeep
<1>5. Durable' = Durable
  BY <1>1, <1>2, <1>4 DEF Durable, DocumentAt
<1>6. link' = link => Doc' = Doc
  BY <1>3, <1>4 DEF Doc, DocumentAt
<1> QED
  BY <1>5, <1>6

\* The steps that take and check nothing the register shows are stutters.
HiddenSteps(w) ==
  \/ AcquireThreadLock(w) \/ AcquireFileLock(w) \/ GoWithoutFileLock(w)
  \/ Dump(w) \/ Sync(w) \/ ReplaceRefused(w) \/ Read(w)

\* They change neither the register nor what a client sees.
LEMMA HiddenStutter ==
  ASSUME Inv, MaxRefusals < Retries, NEW w \in Worker, HiddenSteps(w)
  PROVE  Clients' = Clients /\ Doc' = Doc /\ Durable' = Durable
<1>1. Progress(w)
  BY DEF HiddenSteps, Progress
<1>2. link' = link
  BY DEF HiddenSteps, AcquireThreadLock, AcquireFileLock, GoWithoutFileLock,
     Dump, Sync, ReplaceRefused, Read
<1>3. Client(w)' = Client(w)
  <2>1. CASE Read(w)
    <3>1. worker[w].file \in Inode /\ content[worker[w].file] # Torn
          /\ worker[w].file # NoFile
      BY <2>1, StoreAssumption DEF Read, At, Inv, Sane, NoRewrite, Rest
    <3>2. worker'[w] = Loaded(content[worker[w].file])
      BY <2>1, <3>1, Before DEF Read
    <3> QED
      BY <2>1, <3>1, <3>2 DEF Read, Client, Phase, At, Loaded, Free, DocumentAt
  <2>2. CASE ReplaceRefused(w)
    <3>1. worker[w].step = "replace"
      BY <2>2 DEF ReplaceRefused, At
    <3>2. worker'[w].step \in {"replace", "fallback"} /\ worker'[w].doc = worker[w].doc
      BY <2>2, Before DEF ReplaceRefused, Thread
    <3> QED
      BY <3>1, <3>2 DEF Client, Phase, At
  <2>3. CASE ~Read(w) /\ ~ReplaceRefused(w)
    <3>1. /\ worker[w].step \in {"thread lock", "file lock", "dump", "sync"}
          /\ worker'[w].step \in {"file lock", "dump", "sync", "replace"}
          /\ worker'[w].doc = worker[w].doc
      <4>1. CASE AcquireThreadLock(w)
        BY <4>1, Before DEF AcquireThreadLock, GoTo, At, Thread
      <4>2. CASE GoWithoutFileLock(w)
        BY <4>2, Before DEF GoWithoutFileLock, GoTo, At, Thread
      <4>3. CASE AcquireFileLock(w)
        BY <4>3, Before DEF AcquireFileLock, At, Thread
      <4>4. CASE Dump(w)
        <5>1. PICK i \in Inode :
                worker' = [worker EXCEPT ![w].step = "sync", ![w].temp = i]
          BY <4>4 DEF Dump
        <5>2. worker'[w].step = "sync" /\ worker'[w].doc = worker[w].doc
          BY <5>1, Before DEF Thread
        <5> QED
          BY <4>4, <5>2 DEF Dump, At
      <4>5. CASE Sync(w)
        BY <4>5, Before DEF Sync, GoTo, At, Thread
      <4> QED
        BY <2>3, <4>1, <4>2, <4>3, <4>4, <4>5 DEF HiddenSteps
    <3> QED
      BY <3>1 DEF Client, Phase, At
  <2> QED
    BY <2>1, <2>2, <2>3
<1>4. Clients' = Clients
  BY <1>1, <1>3, ClientMoves DEF Clients
<1> QED
  BY <1>1, <1>2, <1>4, RegisterKeeps

\* A visible step is the register's step of the same name.
LEMMA VisibleStep ==
  ASSUME Inv, MaxRefusals < Retries, NEW w \in Worker,
         Calls(w) \/ Progress(w), ~HiddenSteps(w)
  PROVE  Atomic!Next
<1>1. /\ Clients' = [Clients EXCEPT ![w] = Client(w)']
      /\ Clients[w] = Client(w)
      /\ Durable' = Durable
      /\ link' = link => Doc' = Doc
  BY ClientMoves, RegisterKeeps DEF Clients
<1>2. ~Truncate(w) /\ ~Refill(w)
  BY DEF Truncate, Refill, At, Inv, NoRewrite
<1>3. ASSUME NEW v \in Value, CallSave(w, v) PROVE Atomic!Next
  <2>1. Client(w).phase = "idle" /\ link' = link
    BY <1>3 DEF CallSave, At, Client, Phase
  <2>2. Client(w)' = [phase |-> "saving", doc |-> v]
    BY <1>3, Before DEF CallSave, At, Client, Phase, Free
  <2>3. Atomic!CallSave(w, v)
    BY <1>1, <2>1, <2>2 DEF Atomic!CallSave, Atomic!In, Clients, Doc, Durable
  <2> QED
    BY <2>3 DEF Atomic!Next
<1>4. CASE OpenForLoad(w)
  <2>1. Client(w).phase = "idle" /\ link' = link /\ link # NoFile
    BY <1>4 DEF OpenForLoad, At, Client, Phase
  <2>2. worker'[w].step = "opened" /\ worker'[w].file = link
    BY <1>4, Before DEF OpenForLoad, Free
  <2>3. Client(w)' = [phase |-> "returning", doc |-> Doc]
    BY <1>1, <2>1, <2>2 DEF At, Client, Phase, Doc, DocumentAt
  <2>4. Atomic!Load(w)
    BY <1>1, <2>1, <2>3 DEF Atomic!Load, Atomic!In, Clients, Doc, Durable
  <2> QED
    BY <2>4 DEF Atomic!Next
<1>5. CASE LoadDefault(w)
  <2>1. /\ Client(w).phase = "idle" /\ link' = link
        /\ Doc = Default \/ "unreadable" \in Trouble
    BY <1>5 DEF LoadDefault, At, Client, Phase, Doc, DocumentAt
  <2>2. Client(w)' = [phase |-> "returning", doc |-> Default]
    BY <1>5, Before DEF LoadDefault, At, Client, Phase, Loaded, Free
  <2>3. Atomic!Load(w)
    BY <1>1, <2>1, <2>2 DEF Atomic!Load, Atomic!In, Clients, Doc, Durable
  <2> QED
    BY <2>3 DEF Atomic!Next
<1>6. CASE Replace(w)
  <2>1. /\ worker[w].step = "replace" /\ worker[w].temp \in Inode
        /\ content[worker[w].temp] = worker[w].doc
        /\ link' = worker[w].temp /\ content' = content
    BY <1>6 DEF Replace, At, Inv, TempIsWhole
  <2>2. worker'[w].step = "cleanup" /\ worker'[w].doc = worker[w].doc
    BY <1>6, Before DEF Replace, Thread
  <2>3. Doc' = worker[w].doc
    BY <2>1, StoreAssumption DEF Doc, DocumentAt
  <2>4. /\ Client(w) = [phase |-> "saving", doc |-> worker[w].doc]
        /\ Client(w)' = [phase |-> "returning", doc |-> worker[w].doc]
    BY <2>1, <2>2 DEF At, Client, Phase
  <2>5. Clients' = [Clients EXCEPT ![w].phase = "returning"]
    <3>1. [Client(w) EXCEPT !.phase = "returning"] = Client(w)'
      BY <2>4
    <3> QED
      BY <1>1, <3>1
  <2>6. Atomic!Save(w)
    BY <1>1, <2>3, <2>4, <2>5
    DEF Atomic!Save, Atomic!In, Atomic!Enter, Clients, Doc, Durable
  <2> QED
    BY <2>6 DEF Atomic!Next
<1>7. CASE StepRaises(w)
  <2>1. /\ worker[w].step \in {"dump", "sync", "replace", "fallback", "refill"}
        /\ worker'[w].step = "raised" /\ worker'[w].doc = worker[w].doc
        /\ link' = link
    BY <1>7, Before DEF StepRaises, Thread
  <2>2. /\ Client(w) = [phase |-> "saving", doc |-> worker[w].doc]
        /\ Client(w)' = [phase |-> "returning", doc |-> worker[w].doc]
    BY <2>1 DEF At, Client, Phase
  <2>3. Clients' = [Clients EXCEPT ![w].phase = "returning"]
    <3>1. [Client(w) EXCEPT !.phase = "returning"] = Client(w)'
      BY <2>2
    <3> QED
      BY <1>1, <3>1
  <2>4. Atomic!FailToSave(w)
    BY <1>1, <2>1, <2>2, <2>3
    DEF Atomic!FailToSave, Atomic!In, Atomic!Enter, Clients, Doc, Durable
  <2> QED
    BY <2>4 DEF Atomic!Next
<1>8. CASE LockFileRaises(w)
  <2>1. /\ worker[w].step \in {"thread lock", "file lock"} /\ link' = link
        /\ worker'[w].step = "idle"
    BY <1>8, Before DEF LockFileRaises, At, Free
  <2>2. /\ Client(w).phase = "saving"
        /\ Client(w)' = [phase |-> "idle", doc |-> Default]
    BY <2>1 DEF At, Client, Phase
  <2>3. Atomic!FailToSave(w)
    BY <1>1, <2>1, <2>2
    DEF Atomic!FailToSave, Atomic!In, Atomic!Return, Atomic!Idle, Clients, Doc, Durable
  <2> QED
    BY <2>3 DEF Atomic!Next
<1>9. CASE Cleanup(w) \/ Raise(w) \/ EndLoad(w)
  <2>1. /\ worker[w].step \in {"cleanup", "raised", "loaded"} /\ link' = link
        /\ worker'[w].step = "idle"
    BY <1>9, Before DEF Cleanup, Raise, EndLoad, At, Returned, Idle, Free
  <2>2. /\ Client(w).phase = "returning"
        /\ Client(w)' = [phase |-> "idle", doc |-> Default]
    BY <2>1 DEF At, Client, Phase
  <2>3. Atomic!EndCall(w)
    BY <1>1, <2>1, <2>2
    DEF Atomic!EndCall, Atomic!In, Atomic!Return, Atomic!Idle, Clients, Doc, Durable
  <2> QED
    BY <2>3 DEF Atomic!Next
<1> QED
  BY <1>2, <1>3, <1>4, <1>5, <1>6, <1>7, <1>8, <1>9 DEF Calls, Progress, HiddenSteps

\* What happens outside the program happens to the register.
LEMMA OutsideStep ==
  ASSUME Inv, MaxRefusals < Retries,
         WriteBack \/ PowerLoss \/ \E p \in Process : Kill(p)
  PROVE  Atomic!Next
<1>1. CASE WriteBack
  <2>1. Durable' = Doc /\ Doc' = Doc /\ Clients' = Clients
    BY <1>1 DEF WriteBack, Durable, Doc, Clients, DocumentAt, Client, Phase, At
  <2> QED
    BY <2>1 DEF Atomic!Next, Atomic!WriteBack, Durable, Doc, Clients
<1>2. CASE PowerLoss
  <2>1. \A i \in Inode : synced[i] => content'[i] = content[i]
    BY <1>2 DEF PowerLoss
  <2>2. link' = disk /\ disk' = disk /\ \A w \in Worker : worker'[w] = Idle
    BY <1>2 DEF PowerLoss
  <2>3. Doc' = Durable /\ Durable' = Durable
    BY <2>1, <2>2 DEF Doc, Durable, DocumentAt, Inv, NoRewrite, TypeOK, MaybeFile
  <2>4. Clients' = [w \in Worker |-> Atomic!Idle]
    BY <2>2 DEF Clients, Client, Phase, At, Idle, Free, Atomic!Idle
  <2> QED
    BY <2>3, <2>4 DEF Atomic!Next, Atomic!PowerLoss, Doc, Durable, Clients
<1>3. ASSUME NEW p \in Process, Kill(p) PROVE Atomic!Next
  <2> DEFINE dead == {w \in Worker : ProcessOf[w] = p}
  <2>1. Doc' = Doc /\ Durable' = Durable
    BY <1>3 DEF Kill, Doc, Durable, DocumentAt
  <2>2. \A w \in Worker :
          worker'[w] = IF w \in dead THEN Idle ELSE worker[w]
    BY <1>3 DEF Kill
  <2>3. \A w \in Worker :
          Client(w)' = IF w \in dead THEN Atomic!Idle ELSE Client(w)
    BY <1>3, <2>2 DEF Kill, Client, Phase, At, Idle, Free, Atomic!Idle, DocumentAt
  <2>4. Clients' = [w \in Worker |-> IF w \in dead THEN Atomic!Idle ELSE Clients[w]]
    BY <2>3 DEF Clients
  <2>5. Atomic!Die(dead) /\ dead \in SUBSET Worker
    BY <2>1, <2>4 DEF Atomic!Die, Doc, Durable, Clients
  <2> QED
    BY <2>5 DEF Atomic!Next
<1> QED
  BY <1>1, <1>2, <1>3

\* As long as not every move of a save is refused, the state file is one
\* register to any number of threads and processes: every behaviour of the
\* code, with locks that fail, writes that fail, processes that die and power
\* failures, is a behaviour of AtomicFile.
THEOREM StoreIsAtomic == ASSUME MaxRefusals < Retries PROVE Spec => IsAtomic
<1>1. Init /\ Inv => Atomic!Init
  <2> SUFFICES ASSUME Init, Inv PROVE Atomic!Init
    OBVIOUS
  <2>1. Doc \in Value \cup {Default} /\ Durable = Doc
    BY DEF Init, Doc, Durable, DocumentAt, MaybeFile
  <2>2. Clients = [w \in Worker |-> Atomic!Idle]
    BY DEF Init, Clients, Client, Phase, At, Idle, Free, Atomic!Idle
  <2> QED
    BY <2>1, <2>2 DEF Atomic!Init, Doc, Durable, Clients
<1>2. Inv /\ [Next]_vars => [Atomic!Next]_(Atomic!vars)
  <2> SUFFICES ASSUME Inv, [Next]_vars PROVE [Atomic!Next]_(Atomic!vars)
    OBVIOUS
  <2>1. ASSUME NEW w \in Worker, HiddenSteps(w) PROVE UNCHANGED Atomic!vars
    BY <2>1, HiddenStutter DEF Atomic!vars, Doc, Durable, Clients
  <2>2. ASSUME NEW w \in Worker, Calls(w) \/ Progress(w), ~HiddenSteps(w)
        PROVE  Atomic!Next
    BY <2>2, VisibleStep
  <2>3. CASE WriteBack \/ PowerLoss \/ \E p \in Process : Kill(p)
    BY <2>3, OutsideStep
  <2>4. CASE UNCHANGED vars
    BY <2>4 DEF vars, Atomic!vars, DocumentAt, Client, Phase, At
  <2> QED
    BY <2>1, <2>2, <2>3, <2>4 DEF Next, Calls
<1> QED
  BY <1>1, <1>2, InitInv, StoreInvariance, PTL DEF Spec, IsAtomic, Atomic!Spec
=============================================================================
