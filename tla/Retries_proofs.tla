--------------------------- MODULE Retries_proofs ---------------------------
(***************************************************************************)
(* What the retries of Download are worth, and what they can cost.         *)
(*                                                                         *)
(* Without a failing HEAD, a failing disk or a Ctrl-C, and with a server   *)
(* that answers what it is asked and keeps its object, a download that     *)
(* fails has seen more failed attempts than MaxRetries.  Whatever happens, *)
(* a run makes no more of them than MaxRetries + 1 for each chunk.         *)
(***************************************************************************)
EXTENDS ObjectDownload_proofs

(* Only attempts fail. *)
OnlyAttemptsFail == HeadFaults = FALSE /\ DiskFaults = FALSE

(* Every attempt after the first is paid for by a failed one. *)
Charged ==
    /\ \A o \in DOMAIN task : task[o].attempt <= faults
    /\ firstErr = "exhausted" => faults > MaxRetries

(* A goroutine that failed has said so. *)
Blamed == \A o \in DOMAIN task : task[o].st = "failed" => firstErr # "none"

(* The chunks launched leave no gap. *)
Tiled == \A i \in Nat : i < next => \E o \in DOMAIN task : o <= i /\ i < o + ChunkSize

(* The loop ends early only for a cancellation; without one the file is    *)
(* checked when every chunk is there.                                      *)
AllLaunched == IF Parallel THEN next >= Total ELSE 0 \in DOMAIN task
AllDone == \A o \in DOMAIN task : task[o].st = "done"
Reached ==
    /\ (pc = "wait" /\ ~ctxDone) => AllLaunched
    /\ (pc = "verify" /\ ~interrupted) => AllLaunched /\ AllDone

Explained == (pc = "failed" /\ ~interrupted) => firstErr = "exhausted"

Retries == Charged /\ Blamed /\ Tiled /\ Reached /\ Explained

-----------------------------------------------------------------------------
LEMMA InitRetries == Init => Retries
  BY DEF Init, Retries, Charged, Blamed, Tiled, Reached, Explained

(* A step of a goroutine: which variables it leaves alone, and what its    *)
(* own entry of task becomes.                                              *)
LEMMA TaskEffect ==
  ASSUME Control, NEW o \in DOMAIN task, TaskStep(o)
  PROVE  /\ DOMAIN task' = DOMAIN task
         /\ \A p \in DOMAIN task : p # o => task'[p] = task[p]
         /\ next' = next /\ head' = head /\ interrupted' = interrupted
         /\ task[o].st \notin {"done", "failed"}
<1> USE DEF environment, files
<1>0. TypeOK
  BY DEF Control
<1>1. /\ next' = next /\ head' = head /\ interrupted' = interrupted
      /\ task[o].st \notin {"done", "failed"}
  BY DEF TaskStep, RangeReply, FullReply, SingleReply, CopyBlock, ChunkDone, SingleDone,
         AttemptFails, AttemptRetried, AttemptsExhausted, AttemptAborted,
         BackoffElapsed, BackoffCancelled, TaskFails, Running, Requesting
<1>2. /\ DOMAIN task' = DOMAIN task
      /\ \A p \in DOMAIN task : p # o => task'[p] = task[p]
  <2>1. CASE RangeReply(o) \/ FullReply(o) \/ SingleReply(o) \/ CopyBlock(o) \/ AttemptRetried(o)
    BY <1>0, <2>1 DEF RangeReply, FullReply, SingleReply, CopyBlock, AttemptRetried, TypeOK
  <2>2. CASE \/ ChunkDone(o) \/ SingleDone(o) \/ AttemptsExhausted(o) \/ AttemptAborted(o)
             \/ BackoffElapsed(o) \/ BackoffCancelled(o)
    <3>1. PICK st \in {"done", "failed", "attempt"} : SetTask(o, st)
      BY <2>2 DEF ChunkDone, SingleDone, AttemptsExhausted, AttemptAborted, BackoffElapsed,
                  BackoffCancelled, TaskFails
    <3> QED
      BY <1>0, <3>1, MarkTask
  <2> QED
    BY <2>1, <2>2 DEF TaskStep, AttemptFails
<1> QED
  BY <1>1, <1>2

(* The attempt's number and the count of failures. *)
LEMMA AttemptEffect ==
  ASSUME Control, NEW o \in DOMAIN task, TaskStep(o)
  PROVE  \/ /\ AttemptRetried(o)
            /\ faults' = faults + 1 /\ task'[o].attempt = task[o].attempt + 1
            /\ task'[o].st = "backoff" /\ firstErr' = firstErr /\ pc' = pc
            /\ cancelled' = cancelled
         \/ /\ AttemptsExhausted(o) \/ AttemptAborted(o) \/ BackoffCancelled(o)
            /\ task'[o].attempt = task[o].attempt /\ task'[o].st = "failed"
            /\ firstErr' # "none"
            /\ (AttemptsExhausted(o) => faults' = faults + 1)
            /\ (~AttemptsExhausted(o) => faults' = faults)
            /\ pc' = pc \/ pc' = "failed"
         \/ /\ faults' = faults /\ task'[o].attempt = task[o].attempt
            /\ task'[o].st # "failed" /\ firstErr' = firstErr /\ cancelled' = cancelled
            /\ pc' = pc \/ (SingleDone(o) /\ task'[o].st = "done")
<1> USE DEF environment, files
<1>0. TypeOK /\ Phases /\ o \in Nat /\ task[o] \in TaskType
  BY DEF Control, TypeOK
<1>1. CASE AttemptRetried(o)
  BY <1>0, <1>1 DEF AttemptRetried, NewTask
<1>2. CASE AttemptsExhausted(o) \/ AttemptAborted(o) \/ BackoffCancelled(o)
  <2>1. PICK e \in {"canceled", "exhausted"} : TaskFails(o, e)
    BY <1>2 DEF AttemptsExhausted, AttemptAborted, BackoffCancelled
  <2>2. task'[o].st = "failed" /\ task'[o].attempt = task[o].attempt
    BY <1>0, <2>1, MarkTask DEF TaskFails, TaskType
  <2>3. firstErr' # "none" /\ (pc' = pc \/ pc' = "failed")
    BY <2>1 DEF TaskFails, FirstError
  <2>4. /\ (AttemptsExhausted(o) => faults' = faults + 1)
        /\ (~AttemptsExhausted(o) => faults' = faults)
    BY <1>2 DEF AttemptsExhausted, AttemptAborted, BackoffCancelled
  <2> QED
    BY <1>2, <2>2, <2>3, <2>4
<1>3. CASE RangeReply(o) \/ FullReply(o) \/ SingleReply(o) \/ CopyBlock(o)
  <2>1. /\ faults' = faults /\ firstErr' = firstErr /\ cancelled' = cancelled /\ pc' = pc
    BY <1>3 DEF RangeReply, FullReply, SingleReply, CopyBlock
  <2>2. task'[o].attempt = task[o].attempt /\ task'[o].st = "copying"
    <3>1. CASE CopyBlock(o)
      BY <1>0, <3>1 DEF CopyBlock, TaskType
    <3>2. CASE RangeReply(o) \/ FullReply(o) \/ SingleReply(o)
      <4>1. PICK lo, len :
               task' = [task EXCEPT ![o] =
                  [@ EXCEPT !.st = "copying", !.ver = server, !.lo = lo, !.n = 0, !.len = len]]
        BY <3>2 DEF RangeReply, FullReply, SingleReply
      <4> QED
        BY <1>0, <4>1 DEF TaskType
    <3> QED
      BY <1>3, <3>1, <3>2
  <2> QED
    BY <2>1, <2>2
<1>4. CASE ChunkDone(o) \/ SingleDone(o) \/ BackoffElapsed(o)
  <2>1. PICK st \in {"done", "attempt"} : SetTask(o, st) /\ (SingleDone(o) => st = "done")
    BY <1>4 DEF ChunkDone, SingleDone, BackoffElapsed
  <2>2. task'[o].st = st /\ task'[o].attempt = task[o].attempt
    BY <1>0, <2>1, MarkTask DEF TaskType
  <2>3. /\ faults' = faults /\ firstErr' = firstErr /\ cancelled' = cancelled
        /\ pc' = pc \/ SingleDone(o)
    BY <1>4 DEF ChunkDone, SingleDone, BackoffElapsed
  <2> QED
    BY <2>1, <2>2, <2>3
<1> QED
  BY <1>1, <1>2, <1>3, <1>4 DEF TaskStep, AttemptFails

-----------------------------------------------------------------------------
LEMMA NextCharged ==
  ASSUME Control, Charged, [Next]_vars
  PROVE  Charged'
<1> USE DEF environment, files
<1>0. TypeOK /\ faults \in Nat /\ MaxRetries \in Nat
      /\ \A o \in DOMAIN task : task[o].attempt \in Nat
  BY ConfigAssumption DEF Control, TypeOK, TaskType
<1>1. CASE PrepareSingle \/ Launch
  <2>1. faults' = faults /\ firstErr' = firstErr
    BY <1>1 DEF PrepareSingle, Launch
  <2>2. \A o \in DOMAIN task' : task'[o].attempt = 0 \/ (o \in DOMAIN task /\ task'[o] = task[o])
    BY <1>1 DEF PrepareSingle, Launch, NewTask
  <2> QED
    BY <1>0, <2>1, <2>2 DEF Charged
<1>2. CASE Restart
  BY <1>2 DEF Restart, Charged
<1>3. CASE \/ HeadObject \/ HeadFails \/ PrepareParallel \/ PrepareFails \/ CheckLoop
           \/ WaitDone \/ WaitFails \/ VerifyOk \/ VerifyFails \/ Rename \/ RenameFails
           \/ Interrupt \/ Overwrite \/ Exited \/ UNCHANGED vars
  <2>1. task' = task /\ firstErr' = firstErr /\ faults' \in {faults, faults + 1}
    BY <1>3 DEF HeadObject, HeadFails, PrepareParallel, PrepareFails, MkdirFails, AllocFails, CheckLoop, WaitDone,
                WaitFails, VerifyOk, VerifyFails, Rename, RenameFails, Interrupt, Overwrite,
                Exited, vars
  <2> QED
    BY <1>0, <2>1 DEF Charged
<1>4. ASSUME NEW o \in DOMAIN task, TaskStep(o) PROVE Charged'
  <2>1. /\ DOMAIN task' = DOMAIN task
        /\ \A p \in DOMAIN task : p # o => task'[p] = task[p]
    BY <1>4, TaskEffect
  <2>2. /\ faults' \in {faults, faults + 1}
        /\ task'[o].attempt <= faults'
    BY <1>0, <1>4, AttemptEffect DEF Charged
  <2>3. \A p \in DOMAIN task' : task'[p].attempt <= faults'
    BY <1>0, <2>1, <2>2 DEF Charged
  <2>4. firstErr' = "exhausted" => faults' > MaxRetries
    <3>1. CASE AttemptsExhausted(o)
      <4>1. task[o].attempt >= MaxRetries /\ task[o].attempt <= faults /\ faults' = faults + 1
        BY <1>0, <3>1 DEF AttemptsExhausted, MoreAttempts, Charged
      <4> QED
        BY <1>0, <4>1
    <3>2. CASE AttemptAborted(o) \/ BackoffCancelled(o)
      <4>1. firstErr' = (IF firstErr = "none" THEN "canceled" ELSE firstErr) /\ faults' = faults
        BY <3>2 DEF AttemptAborted, BackoffCancelled, TaskFails, FirstError
      <4> QED
        BY <4>1 DEF Charged
    <3>3. CASE firstErr' = firstErr
      BY <1>0, <2>2, <3>3 DEF Charged
    <3> QED
      BY <1>4, <3>1, <3>2, <3>3, AttemptEffect
  <2> QED
    BY <2>3, <2>4 DEF Charged
<1> QED
  BY <1>1, <1>2, <1>3, <1>4 DEF Next, MainStep

LEMMA NextBlamed ==
  ASSUME Control, Blamed, [Next]_vars
  PROVE  Blamed'
<1> USE DEF environment, files
<1>1. CASE PrepareSingle \/ Launch
  <2>1. \A o \in DOMAIN task' : task'[o].st = "attempt" \/ (o \in DOMAIN task /\ task'[o] = task[o])
    BY <1>1 DEF PrepareSingle, Launch, NewTask
  <2> QED
    BY <1>1, <2>1 DEF PrepareSingle, Launch, Blamed
<1>2. CASE Restart
  BY <1>2 DEF Restart, Blamed
<1>3. CASE \/ HeadObject \/ HeadFails \/ PrepareParallel \/ PrepareFails \/ CheckLoop
           \/ WaitDone \/ WaitFails \/ VerifyOk \/ VerifyFails \/ Rename \/ RenameFails
           \/ Interrupt \/ Overwrite \/ Exited \/ UNCHANGED vars
  <2>1. task' = task /\ firstErr' = firstErr
    BY <1>3 DEF HeadObject, HeadFails, PrepareParallel, PrepareFails, MkdirFails, AllocFails, CheckLoop, WaitDone,
                WaitFails, VerifyOk, VerifyFails, Rename, RenameFails, Interrupt, Overwrite,
                Exited, vars
  <2> QED
    BY <2>1 DEF Blamed
<1>4. ASSUME NEW o \in DOMAIN task, TaskStep(o) PROVE Blamed'
  <2>1. /\ DOMAIN task' = DOMAIN task
        /\ \A p \in DOMAIN task : p # o => task'[p] = task[p]
    BY <1>4, TaskEffect
  <2>2. firstErr' # "none" \/ (task'[o].st # "failed" /\ firstErr' = firstErr)
    BY <1>4, AttemptEffect
  <2>3. firstErr # "none" => firstErr' # "none"
    BY <2>2
  <2> QED
    BY <2>1, <2>2, <2>3 DEF Blamed
<1> QED
  BY <1>1, <1>2, <1>3, <1>4 DEF Next, MainStep

LEMMA NextTiled ==
  ASSUME Control, Tiled, [Next]_vars
  PROVE  Tiled'
<1> USE DEF environment, files
<1>1. CASE Launch
  <2>1. next \in Nat /\ next' = next + ChunkSize /\ DOMAIN task' = DOMAIN task \cup {next}
    BY <1>1 DEF Launch, Control, TypeOK
  <2>2. ASSUME NEW i \in Nat, i < next'
        PROVE  \E o \in DOMAIN task' : o <= i /\ i < o + ChunkSize
    <3>1. CASE i < next
      BY <2>1, <3>1 DEF Tiled
    <3>2. CASE ~(i < next)
      <4>1. next <= i /\ i < next + ChunkSize
        BY <2>1, <2>2, <3>2
      <4> QED
        BY <2>1, <4>1
    <3> QED
      BY <3>1, <3>2
  <2> QED
    BY <2>2 DEF Tiled
<1>2. CASE PrepareSingle
  <2>1. next' = 0
    BY <1>2 DEF PrepareSingle, Control, Phases
  <2> QED
    BY <2>1 DEF Tiled
<1>3. CASE Restart
  <2>1. next' = 0
    BY <1>3 DEF Restart
  <2> QED
    BY <2>1 DEF Tiled
<1>4. CASE \/ HeadObject \/ HeadFails \/ PrepareParallel \/ PrepareFails \/ CheckLoop
           \/ WaitDone \/ WaitFails \/ VerifyOk \/ VerifyFails \/ Rename \/ RenameFails
           \/ Interrupt \/ Overwrite \/ Exited \/ UNCHANGED vars
  <2>1. task' = task /\ next' = next
    BY <1>4 DEF HeadObject, HeadFails, PrepareParallel, PrepareFails, MkdirFails, AllocFails, CheckLoop, WaitDone,
                WaitFails, VerifyOk, VerifyFails, Rename, RenameFails, Interrupt, Overwrite,
                Exited, vars
  <2> QED
    BY <2>1 DEF Tiled
<1>5. ASSUME NEW o \in DOMAIN task, TaskStep(o) PROVE Tiled'
  <2>1. DOMAIN task' = DOMAIN task /\ next' = next
    BY <1>5, TaskEffect
  <2> QED
    BY <2>1 DEF Tiled
<1> QED
  BY <1>1, <1>2, <1>3, <1>4, <1>5 DEF Next, MainStep

(* No step but the start of a new run takes back a cancellation.           *)
LEMMA NextReached ==
  ASSUME Control, Blamed, Reached, [Next]_vars
  PROVE  Reached'
<1> USE DEF environment, files
<1>0. TypeOK /\ Phases
  BY DEF Control
<1>1. CASE CheckLoop
  <2>1. /\ pc' \in {"acquire", "wait"} /\ head' = head /\ next' = next
        /\ interrupted' = interrupted /\ cancelled' = cancelled
        /\ (pc' = "wait" => ~(next < Total /\ ~ctxDone))
    BY <1>1 DEF CheckLoop
  <2>2. next \in Nat /\ (Parallel => Total \in Nat)
    BY <1>0, <1>1, TotalType DEF CheckLoop, TypeOK, Phases
  <2>3. Parallel
    BY <1>0, <1>1 DEF CheckLoop, Phases
  <2>4. (pc' = "wait" /\ ~ctxDone') => AllLaunched'
    BY <2>1, <2>2, <2>3, SameChunks DEF AllLaunched, ctxDone
  <2> QED
    BY <2>1, <2>4 DEF Reached
<1>2. CASE WaitDone
  <2>1. /\ pc = "wait" /\ pc' = "verify" /\ head' = head /\ next' = next /\ task' = task
        /\ interrupted' = interrupted /\ firstErr = "none" /\ Active = {}
    BY <1>2 DEF WaitDone, AllReturned
  <2>2. Idle
    BY <1>0, <2>1, IdleActive
  <2>3. AllDone
    BY <2>1, <2>2 DEF Idle, Blamed, AllDone
  <2>4. ~interrupted => AllLaunched
    BY <2>1 DEF Reached, ctxDone, Control, Causes
  <2> QED
    BY <2>1, <2>3, <2>4, SameChunks DEF Reached, AllDone, AllLaunched
<1>3. CASE \/ HeadObject \/ HeadFails \/ PrepareSingle \/ PrepareParallel \/ PrepareFails
           \/ Launch \/ WaitFails \/ VerifyOk \/ VerifyFails \/ Rename \/ RenameFails \/ Restart
  <2>1. pc' \notin {"wait", "verify"}
    BY <1>3 DEF HeadObject, HeadFails, PrepareSingle, PrepareParallel, PrepareFails, MkdirFails, AllocFails, Launch,
                WaitFails, VerifyOk, VerifyFails, Rename, RenameFails, Restart
  <2> QED
    BY <2>1 DEF Reached
<1>4. CASE Interrupt \/ Overwrite \/ Exited \/ UNCHANGED vars
  <2>1. /\ pc' = pc /\ head' = head /\ next' = next /\ task' = task /\ cancelled' = cancelled
        /\ (interrupted => interrupted')
    BY <1>4 DEF Interrupt, Overwrite, Exited, vars
  <2> QED
    BY <2>1, SameChunks DEF Reached, AllDone, AllLaunched, ctxDone
<1>5. ASSUME NEW o \in DOMAIN task, TaskStep(o) PROVE Reached'
  <2>1. /\ DOMAIN task' = DOMAIN task
        /\ \A p \in DOMAIN task : p # o => task'[p] = task[p]
        /\ next' = next /\ head' = head /\ interrupted' = interrupted
        /\ task[o].st \notin {"done", "failed"}
    BY <1>5, TaskEffect
  <2>2. pc \in Working
    BY <1>0, <2>1, Busy
  <2>3. CASE SingleDone(o)
    <3>1. pc' = "verify" /\ ~Parallel /\ DOMAIN task = {0}
      BY <1>0, <2>3 DEF SingleDone, Phases
    <3>2. task'[o].st = "done"
      BY <1>0, <2>3, MarkTask DEF SingleDone
    <3> QED
      BY <2>1, <3>1, <3>2, SameChunks DEF Reached, AllDone, AllLaunched
  <2>4. CASE pc' = "failed"
    BY <2>4 DEF Reached
  <2>5. CASE pc' = pc /\ (cancelled => cancelled')
    BY <2>1, <2>2, <2>5, SameChunks DEF Reached, AllLaunched, ctxDone, Working
  <2>6. (AttemptsExhausted(o) \/ AttemptAborted(o) \/ BackoffCancelled(o))
           => pc' = "failed" \/ (pc' = pc /\ cancelled')
    BY DEF AttemptsExhausted, AttemptAborted, BackoffCancelled, TaskFails
  <2> QED
    BY <1>5, <2>3, <2>4, <2>5, <2>6, AttemptEffect
<1> QED
  BY <1>1, <1>2, <1>3, <1>4, <1>5 DEF Next, MainStep

(* When every chunk is done all of the object is counted, so that the      *)
(* checks of Download succeed.                                             *)
LEMMA DoneIsVerified ==
  ASSUME Control, HonestContent, Tiled, pc = "verify", AllLaunched, AllDone
  PROVE  Verified
<1>1. head \in Versions /\ Total \in Nat /\ next \in Nat
  BY TotalType DEF Control, Phases, TypeOK
<1>2. ASSUME NEW i \in 0 .. Total - 1 PROVE i \in Covered
  <2>1. CASE Parallel
    <3>1. PICK o \in DOMAIN task : o <= i /\ i < o + ChunkSize
      BY <1>1, <2>1 DEF AllLaunched, Tiled
    <3>2. i < EndOf(o)
      BY <1>1, <2>1, <3>1, ExpectedType, ConfigAssumption DEF EndOf
    <3> QED
      BY <3>1, <3>2 DEF Covered, AllDone
  <2>2. CASE ~Parallel
    <3>1. 0 \in DOMAIN task /\ EndOf(0) = Total
      BY <2>2 DEF AllLaunched, EndOf
    <3> QED
      BY <1>1, <3>1 DEF Covered, AllDone
  <2> QED
    BY <2>1, <2>2
<1>3. Covered = 0 .. Total - 1
  BY <1>2 DEF Covered
<1>4. totalBytes = Total
  BY <1>1, <1>3, CoveredFinite DEF HonestContent, Counted
<1> QED
  BY <1>4, CountedIsWhole DEF Verified

(* A failure that is not explained by a Ctrl-C is an attempt too many.     *)
LEMMA NextExplained ==
  ASSUME Honest, OnlyAttemptsFail, Control, HonestContent, Control', Retries, [Next]_vars
  PROVE  Explained'
<1> USE DEF environment, files
<1>0. TypeOK /\ Causes /\ Causes' /\ TypeOK'
  BY DEF Control
<1>1. CASE HeadFails
  <2>1. interrupted' = interrupted /\ interrupted
    BY <1>1 DEF HeadFails, OnlyAttemptsFail
  <2> QED
    BY <2>1 DEF Explained
<1>2. CASE WaitFails
  <2>1. /\ firstErr # "none" /\ firstErr' = firstErr /\ interrupted' = interrupted
    BY <1>2 DEF WaitFails, OnlyAttemptsFail
  <2>2. firstErr = "exhausted" \/ interrupted
    BY <1>0, <2>1 DEF TypeOK, Causes, RootCause
  <2> QED
    BY <2>1, <2>2 DEF Explained
<1>3. CASE VerifyFails
  <2>1. pc = "verify" /\ ~Verified /\ interrupted' = interrupted
    BY <1>3 DEF VerifyFails, OnlyAttemptsFail
  <2>2. interrupted
    BY <2>1, DoneIsVerified DEF Retries, Reached
  <2> QED
    BY <2>1, <2>2 DEF Explained
<1>4. ~PrepareFails /\ ~RenameFails
  BY DEF PrepareFails, MkdirFails, AllocFails, RenameFails, OnlyAttemptsFail
<1>5. ASSUME NEW o \in DOMAIN task, TaskStep(o) PROVE Explained'
  <2>1. pc \in Working
    <3>1. task[o].st \notin {"done", "failed"}
      BY <1>5, TaskEffect
    <3> QED
      BY <3>1, Busy DEF Control
  <2>2. pc' # "failed" \/ firstErr' # "none"
    BY <1>5, <2>1, AttemptEffect DEF Working, SingleDone
  <2>3. firstErr' # "none" => firstErr' = "exhausted" \/ interrupted'
    BY <1>0 DEF TypeOK, Causes, RootCause
  <2> QED
    BY <2>2, <2>3 DEF Explained
<1>6. CASE \/ HeadObject \/ PrepareSingle \/ PrepareParallel \/ CheckLoop \/ Launch
           \/ WaitDone \/ VerifyOk \/ Rename \/ Restart
  <2>1. pc' # "failed"
    BY <1>6 DEF HeadObject, PrepareSingle, PrepareParallel, CheckLoop, Launch, WaitDone,
                VerifyOk, Rename, Restart
  <2> QED
    BY <2>1 DEF Explained
<1>7. CASE Interrupt \/ Overwrite \/ Exited \/ UNCHANGED vars
  <2>1. pc' = pc /\ firstErr' = firstErr /\ (interrupted => interrupted')
    BY <1>7 DEF Interrupt, Overwrite, Exited, vars
  <2> QED
    BY <2>1 DEF Retries, Explained
<1> QED
  BY <1>1, <1>2, <1>3, <1>4, <1>5, <1>6, <1>7 DEF Next, MainStep

(* Without a Ctrl-C, a failing HEAD or a failing disk, and with an honest  *)
(* server, Download fails only after more failed attempts than MaxRetries, *)
(* for every number of chunks, goroutines, retries and runs: the           *)
(* cancellation of the other chunks and the check of the size never make   *)
(* a failure of their own.                                                 *)
THEOREM TransientFaultsToleratedHolds ==
  ASSUME Honest, OnlyAttemptsFail
  PROVE  Spec => []TransientFaultsTolerated
<1>1. Retries => TransientFaultsTolerated
  BY DEF Retries, Charged, Explained, TransientFaultsTolerated
<1>2. Installable /\ Installable' /\ Retries /\ [Next]_vars => Retries'
  BY NextCharged, NextBlamed, NextTiled, NextReached, NextExplained DEF Installable, Retries
<1>3. Spec => []Installable
  BY InstallableInvariant
<1> QED
  BY <1>1, <1>2, <1>3, InitRetries, PTL DEF Spec

-----------------------------------------------------------------------------
(* What the retries can cost.                                              *)

(* The attempts of each goroutine that have failed, and the one with which *)
(* it gave up.                                                             *)
Spent(o) == IF task[o].st = "failed" THEN task[o].attempt + 1 ELSE task[o].attempt
Tried == {u \in (DOMAIN task) \X (1 .. MaxRetries + 1) : u[2] <= Spent(u[1])}

(* At any time at most Concurrency goroutines hold a connection or wait to *)
(* try again; no more of them are launched than there are chunks; and all  *)
(* the attempts of a run that failed are MaxRetries + 1 per chunk, or the  *)
(* HEAD request.                                                           *)
WithinBudget ==
    /\ Cardinality(Active) <= Concurrency
    /\ Cardinality(DOMAIN task) <= 1 \/ (Cardinality(DOMAIN task) - 1) * ChunkSize < Total
    /\ faults <= IF head = NoVersion THEN 1 ELSE Cardinality(DOMAIN task) * (MaxRetries + 1)

Budget ==
    /\ IsFiniteSet(DOMAIN task)
    /\ Cardinality(Active) <= Concurrency
    /\ head # NoVersion /\ Parallel =>
          /\ Cardinality(DOMAIN task) * ChunkSize = next
          /\ next < Total + ChunkSize
    /\ pc = "head" => faults = 0
    /\ IF head = NoVersion THEN faults <= 1 ELSE faults <= Cardinality(Tried)

LEMMA SamePairs ==
  ASSUME NEW U, NEW W, NEW A, NEW B, A \subseteq U \X W, B \subseteq U \X W,
         \A p \in U, k \in W : <<p, k>> \in A <=> <<p, k>> \in B
  PROVE  A = B
<1>1. \A u \in U \X W : u = <<u[1], u[2]>> /\ u[1] \in U /\ u[2] \in W
  OBVIOUS
<1> QED
  BY <1>1

LEMMA TriedFinite ==
  ASSUME IsFiniteSet(DOMAIN task)
  PROVE  /\ IsFiniteSet(Active) /\ Cardinality(Active) \in Nat
         /\ IsFiniteSet(Tried) /\ Cardinality(Tried) \in Nat
         /\ Cardinality(DOMAIN task) \in Nat
         /\ Cardinality(Tried) <= Cardinality(DOMAIN task) * (MaxRetries + 1)
<1> DEFINE n == MaxRetries + 1
<1>1. n \in Nat
  BY ConfigAssumption
<1>2. IsFiniteSet(1 .. n) /\ Cardinality(1 .. n) = n
  BY <1>1, FS_Interval
<1>3. Tried \in SUBSET ((DOMAIN task) \X (1 .. n)) /\ Active \in SUBSET DOMAIN task
  BY DEF Tried, Active
<1> HIDE DEF n
<1>4. /\ IsFiniteSet((DOMAIN task) \X (1 .. n))
      /\ Cardinality((DOMAIN task) \X (1 .. n)) = Cardinality(DOMAIN task) * n
  BY <1>2, FS_Product
<1>5. IsFiniteSet(Active) /\ IsFiniteSet(Tried) /\ Cardinality(Tried) <= Cardinality(DOMAIN task) * n
  BY <1>3, <1>4, FS_Subset
<1> QED
  BY <1>5, FS_CardinalityType DEF n

(* One more failed attempt is one more of those counted.                   *)
LEMMA MoreTried ==
  ASSUME TypeOK, TypeOK', IsFiniteSet(DOMAIN task), DOMAIN task' = DOMAIN task,
         NEW o \in DOMAIN task, \A p \in DOMAIN task : p # o => task'[p] = task[p],
         NEW d \in {0, 1}, Spent(o)' = Spent(o) + d
  PROVE  Cardinality(Tried') = Cardinality(Tried) + d
<1> DEFINE x == <<o, Spent(o) + 1>>
<1>1. \A p \in DOMAIN task : Spent(p) \in 0 .. MaxRetries + 1 /\ Spent(p)' \in 0 .. MaxRetries + 1
  BY ConfigAssumption DEF TypeOK, TaskType, Spent
<1>2. \A p \in DOMAIN task : p # o => Spent(p)' = Spent(p)
  BY DEF Spent
<1>3. \A u : u \in Tried <=> u \in (DOMAIN task) \X (1 .. MaxRetries + 1) /\ u[2] <= Spent(u[1])
  BY DEF Tried
<1>4. \A u : u \in Tried' <=> u \in (DOMAIN task) \X (1 .. MaxRetries + 1) /\ u[2] <= Spent(u[1])'
  BY DEF Tried
<1> HIDE DEF Spent, x
<1>5. CASE d = 0
  <2>1. Tried' = Tried
    <3>1. ASSUME NEW p \in DOMAIN task, NEW k \in 1 .. MaxRetries + 1
          PROVE  <<p, k>> \in Tried <=> <<p, k>> \in Tried'
      <4>1. Spent(p)' = Spent(p)
        BY <1>1, <1>2, <1>5
      <4> QED
        BY <1>3, <1>4, <4>1
    <3>2. /\ Tried \subseteq (DOMAIN task) \X (1 .. MaxRetries + 1)
          /\ Tried' \subseteq (DOMAIN task) \X (1 .. MaxRetries + 1)
      BY <1>3, <1>4
    <3> QED
      BY <3>1, <3>2, SamePairs
  <2>2. Cardinality(Tried) \in Nat
    BY TriedFinite
  <2> QED
    BY <1>5, <2>1, <2>2
<1>6. CASE d = 1
  <2>0. Spent(o) \in Nat /\ Spent(o) + 1 \in 1 .. MaxRetries + 1 /\ Spent(o)' = Spent(o) + 1
    BY <1>1, <1>6, ConfigAssumption
  <2>1. x \notin Tried
    BY <1>3, <2>0 DEF x
  <2>2. ASSUME NEW p \in DOMAIN task, NEW k \in 1 .. MaxRetries + 1
        PROVE  <<p, k>> \in Tried' <=> <<p, k>> \in Tried \/ <<p, k>> = x
    <3>1. (<<p, k>> \in Tried' <=> k <= Spent(p)') /\ (<<p, k>> \in Tried <=> k <= Spent(p))
      BY <1>3, <1>4, <2>2
    <3>2. CASE p = o
      <4>1. k <= Spent(o) + 1 <=> k <= Spent(o) \/ k = Spent(o) + 1
        BY <2>0
      <4> QED
        BY <2>0, <3>1, <3>2, <4>1 DEF x
    <3>3. CASE p # o
      BY <1>2, <3>1, <3>3 DEF x
    <3> QED
      BY <3>2, <3>3
  <2>3. x \in (DOMAIN task) \X (1 .. MaxRetries + 1)
    BY <2>0 DEF x
  <2>4. Tried' = Tried \cup {x}
    <3>1. \A u \in (DOMAIN task) \X (1 .. MaxRetries + 1) :
             u \in Tried' <=> u \in Tried \/ u = x
      BY <2>2
    <3> QED
      BY <1>3, <1>4, <2>3, <3>1
  <2>5. Cardinality(Tried \cup {x}) = Cardinality(Tried) + 1
    BY <2>1, TriedFinite, FS_AddElement
  <2> QED
    BY <1>6, <2>4, <2>5
<1> QED
  BY <1>5, <1>6

LEMMA InitBudget == Init => Budget
<1> SUFFICES ASSUME Init PROVE Budget
  OBVIOUS
<1>1. DOMAIN task = {} /\ head = NoVersion /\ faults = 0
  BY DEF Init
<1>2. Active = {}
  BY <1>1 DEF Active
<1> QED
  BY <1>1, <1>2, FS_EmptySet, ConfigAssumption DEF Budget

LEMMA TaskBudget ==
  ASSUME Control, Control', Budget, NEW o \in DOMAIN task, TaskStep(o)
  PROVE  Budget'
<1>1. TypeOK /\ TypeOK' /\ IsFiniteSet(DOMAIN task) /\ head \in Versions /\ head # NoVersion
  BY SentinelAssumption DEF Control, Launched, Budget
<1>2. /\ DOMAIN task' = DOMAIN task
      /\ \A p \in DOMAIN task : p # o => task'[p] = task[p]
      /\ next' = next /\ head' = head
      /\ task[o].st \notin {"done", "failed"}
  BY TaskEffect
<1>3. Active' \in SUBSET Active
  BY <1>1, <1>2 DEF Active, TypeOK, TaskType
<1>4. Cardinality(Active') <= Concurrency
  <2>1. /\ IsFiniteSet(Active) /\ Cardinality(Active) \in Nat
    BY <1>1, TriedFinite
  <2>2. Cardinality(Active') <= Cardinality(Active) /\ Cardinality(Active') \in Nat
    BY <1>3, <2>1, FS_Subset, FS_CardinalityType
  <2> QED
    BY <2>1, <2>2, ConfigAssumption DEF Budget
<1>5. pc' # "head"
  <2>1. pc \in Working
    BY <1>2, Busy DEF Control
  <2> QED
    BY <2>1, AttemptEffect DEF Working, SingleDone
<1>6. PICK d \in {0, 1} : Spent(o)' = Spent(o) + d /\ faults' <= faults + d
  <2>1. task[o].attempt \in Nat /\ faults \in Nat /\ Spent(o) = task[o].attempt
    BY <1>1, <1>2 DEF TypeOK, TaskType, Spent
  <2>2. \/ /\ faults' = faults + 1 /\ task'[o].attempt = task[o].attempt + 1
           /\ task'[o].st = "backoff"
        \/ /\ task'[o].attempt = task[o].attempt /\ task'[o].st = "failed"
           /\ faults' \in {faults, faults + 1}
        \/ /\ faults' = faults /\ task'[o].attempt = task[o].attempt
           /\ task'[o].st # "failed"
    BY AttemptEffect
  <2>3. Spent(o)' = IF task'[o].st = "failed" THEN task'[o].attempt + 1 ELSE task'[o].attempt
    BY DEF Spent
  <2> QED
    BY <2>1, <2>2, <2>3
<1>7. Cardinality(Tried') = Cardinality(Tried) + d
  BY <1>1, <1>2, <1>6, MoreTried
<1>8. faults' <= Cardinality(Tried')
  <2>1. faults \in Nat /\ faults' \in Nat /\ Cardinality(Tried) \in Nat
        /\ faults <= Cardinality(Tried)
    BY <1>1, TriedFinite DEF TypeOK, Budget
  <2> QED
    BY <1>6, <1>7, <2>1
<1> QED
  BY <1>1, <1>2, <1>4, <1>5, <1>8, SameChunks DEF Budget

LEMMA LaunchBudget ==
  ASSUME Control, Budget, Launch
  PROVE  Budget'
<1>1. /\ pc' = "loop" /\ head' = head /\ faults' = faults /\ next' = next + ChunkSize
      /\ Parallel /\ head \in Versions /\ head # NoVersion /\ next < Total
      /\ next \in Nat /\ Total \in Nat
  BY TotalType, SentinelAssumption DEF Launch, Control, TypeOK, Phases
<1>2. /\ DOMAIN task' = DOMAIN task \cup {next} /\ next \notin DOMAIN task
      /\ task'[next] = NewTask /\ \A p \in DOMAIN task : task'[p] = task[p]
  <2>1. next \notin DOMAIN task
    BY ConfigAssumption DEF Launch, Control, TypeOK, Phases, Launched
  <2> QED
    BY <2>1 DEF Launch
<1>3. IsFiniteSet(DOMAIN task) /\ Cardinality(DOMAIN task) * ChunkSize = next
  BY <1>1 DEF Budget
<1>4. IsFiniteSet(DOMAIN task') /\ Cardinality(DOMAIN task') = Cardinality(DOMAIN task) + 1
  BY <1>2, <1>3, FS_AddElement
<1>5. Cardinality(DOMAIN task') * ChunkSize = next'
  <2> DEFINE c == Cardinality(DOMAIN task)
  <2>1. c \in Nat
    BY <1>3, TriedFinite
  <2> HIDE DEF c
  <2>2. (c + 1) * ChunkSize = c * ChunkSize + ChunkSize
    BY <2>1, ConfigAssumption
  <2> QED
    BY <1>1, <1>3, <1>4, <2>2 DEF c
<1>6. Cardinality(Active') <= Concurrency
  <2>1. Active' = Active \cup {next}
    BY <1>2 DEF Active, NewTask
  <2>2. /\ IsFiniteSet(Active) /\ Cardinality(Active) \in Nat
    BY <1>3, TriedFinite
  <2>3. Cardinality(Active') = Cardinality(Active) \/ Cardinality(Active') = Cardinality(Active) + 1
    BY <2>1, <2>2, FS_AddElement
  <2>4. Cardinality(Active) < Concurrency
    BY DEF Launch, SlotHolders
  <2> QED
    BY <2>2, <2>3, <2>4, ConfigAssumption
<1>7. Tried' = Tried
  <2>1. \A p \in DOMAIN task : Spent(p)' = Spent(p)
    BY <1>2 DEF Spent
  <2>2. \A u : u \in Tried <=> u \in (DOMAIN task) \X (1 .. MaxRetries + 1) /\ u[2] <= Spent(u[1])
    BY DEF Tried
  <2>3. \A u : u \in Tried' <=> u \in (DOMAIN task') \X (1 .. MaxRetries + 1) /\ u[2] <= Spent(u[1])'
    BY DEF Tried
  <2>4. \A u \in Tried' : u[1] \in DOMAIN task
    <3> SUFFICES ASSUME NEW u \in Tried', u[1] = next PROVE FALSE
      BY <1>2, <2>3
    <3>1. u[2] \in 1 .. MaxRetries + 1 /\ u[2] <= Spent(u[1])'
      BY <2>3
    <3>2. task'[u[1]] = NewTask
      BY <1>2
    <3>3. Spent(u[1])' = 0
      BY <3>2 DEF Spent, NewTask
    <3> QED
      BY <3>1, <3>3, ConfigAssumption
  <2> HIDE DEF Spent
  <2> QED
    BY <1>2, <2>1, <2>2, <2>3, <2>4
<1>8. next' < Total' + ChunkSize
  BY <1>1, SameChunks, ConfigAssumption
<1> QED
  BY <1>1, <1>4, <1>5, <1>6, <1>7, <1>8 DEF Budget

LEMMA NextBudget ==
  ASSUME Control, Control', Budget, [Next]_vars
  PROVE  Budget'
<1> USE DEF environment, files
<1>0. TypeOK /\ TypeOK' /\ Phases /\ IsFiniteSet(DOMAIN task)
  BY DEF Control, Budget
<1>1. CASE HeadObject
  <2>1. /\ DOMAIN task' = {} /\ next' = 0 /\ faults' = 0 /\ pc' = "prepare"
        /\ head' \in Versions /\ head' # NoVersion
    BY <1>0, <1>1, SentinelAssumption DEF HeadObject, Phases, TypeOK, Budget
  <2>2. Active' = {} /\ Tried' = {}
    BY <2>1 DEF Active, Tried
  <2>3. Total' \in Nat
    BY <2>1, SizeType DEF Total
  <2>4. 0 * ChunkSize = 0 /\ 0 < Total' + ChunkSize
    <3> DEFINE t == Total'
    <3>1. t \in Nat
      BY <2>3
    <3> HIDE DEF t
    <3>2. 0 < t + ChunkSize /\ 0 * ChunkSize = 0
      BY <3>1, ConfigAssumption
    <3> QED
      BY <3>2 DEF t
  <2> QED
    BY <2>1, <2>2, <2>4, FS_EmptySet, ConfigAssumption DEF Budget
<1>2. CASE HeadFails
  <2>1. /\ UNCHANGED <<task, next, head>> /\ faults' \in {0, 1} /\ pc' = "failed"
        /\ head = NoVersion
    BY <1>0, <1>2 DEF HeadFails, Phases, Budget
  <2>2. Active' = Active
    BY <2>1 DEF Active
  <2> QED
    BY <2>1, <2>2 DEF Budget
<1>3. CASE PrepareSingle
  <2>1. /\ DOMAIN task = {} /\ DOMAIN task' = {0} /\ task'[0] = NewTask /\ ~Parallel
        /\ head' = head /\ faults' = faults /\ pc' = "single" /\ head # NoVersion
    BY <1>0, <1>3, SentinelAssumption DEF PrepareSingle, Phases
  <2>2. Active' = {0}
    BY <2>1 DEF Active, NewTask
  <2>3. Tried = {}
    BY <2>1 DEF Tried
  <2>4. Cardinality(Active') <= Concurrency
    <3>1. Cardinality({0}) = 1
      BY FS_Singleton
    <3> QED
      BY <2>2, <3>1, ConfigAssumption
  <2>5. IsFiniteSet(DOMAIN task')
    BY <2>1, FS_Singleton
  <2>6. faults' <= 0
    BY <2>1, <2>3, FS_EmptySet DEF Budget
  <2>7. Tried' = {}
    <3>1. \A k \in 1 .. MaxRetries + 1 : ~(k <= 0)
      BY ConfigAssumption
    <3> QED
      BY <2>1, <3>1 DEF Tried, Spent, NewTask
  <2>8. Cardinality(Tried') \in Nat
    BY <2>7, FS_EmptySet
  <2> QED
    BY <1>0, <2>1, <2>4, <2>5, <2>6, <2>8, SameChunks DEF Budget, TypeOK
<1>4. CASE Launch
  BY <1>4, LaunchBudget
<1>5. CASE Restart
  <2>1. /\ DOMAIN task' = {} /\ head' = NoVersion /\ faults' = 0
    BY <1>5 DEF Restart
  <2>2. Active' = {}
    BY <2>1 DEF Active
  <2> QED
    BY <2>1, <2>2, FS_EmptySet, ConfigAssumption DEF Budget
<1>6. CASE \/ PrepareParallel \/ PrepareFails \/ CheckLoop
           \/ WaitDone \/ WaitFails \/ VerifyOk \/ VerifyFails \/ Rename \/ RenameFails
           \/ Interrupt \/ Overwrite \/ Exited \/ UNCHANGED vars
  <2>1. /\ UNCHANGED <<task, next, head, faults>>
        /\ pc' = "head" => pc = "head"
    BY <1>6 DEF PrepareParallel, PrepareFails, MkdirFails, AllocFails, CheckLoop, WaitDone, WaitFails, VerifyOk,
                VerifyFails, Rename, RenameFails, Interrupt, Overwrite, Exited, vars
  <2>2. Active' = Active /\ Tried' = Tried
    BY <2>1 DEF Active, Tried, Spent
  <2> QED
    BY <2>1, <2>2, SameChunks DEF Budget
<1>7. ASSUME NEW o \in DOMAIN task, TaskStep(o) PROVE Budget'
  BY <1>7, TaskBudget
<1> QED
  BY <1>1, <1>2, <1>3, <1>4, <1>5, <1>6, <1>7 DEF Next, MainStep

(* For every server, number of chunks and goroutines, and wherever a run   *)
(* is cancelled or dies: retries multiply neither the connections nor the  *)
(* requests ("sem" in downloadParallel, the loop of downloadChunkWithRetry).*)
THEOREM WithinBudgetHolds == Spec => []WithinBudget
<1>1. Control /\ Budget => WithinBudget
  <2> SUFFICES ASSUME Control, Budget PROVE WithinBudget
    OBVIOUS
  <2> DEFINE c == Cardinality(DOMAIN task)
  <2>1. c \in Nat /\ Cardinality(Tried) \in Nat /\ Cardinality(Tried) <= c * (MaxRetries + 1)
    BY TriedFinite DEF Budget
  <2>2. c <= 1 \/ (c - 1) * ChunkSize < Total
    <3>1. CASE DOMAIN task = {}
      BY <3>1, FS_EmptySet
    <3>2. CASE DOMAIN task # {} /\ ~Parallel
      <4>1. DOMAIN task = {0}
        BY <3>2 DEF Control, Launched
      <4>2. Cardinality({0}) = 1
        BY FS_Singleton
      <4> QED
        BY <4>1, <4>2
    <3>3. CASE DOMAIN task # {} /\ Parallel
      <4>1. head \in Versions /\ head # NoVersion /\ Total \in Nat /\ next \in Nat
        BY <3>3, TotalType, SentinelAssumption DEF Control, Launched, TypeOK
      <4>2. c * ChunkSize = next /\ next < Total + ChunkSize
        BY <3>3, <4>1 DEF Budget
      <4> HIDE DEF c
      <4>3. (c - 1) * ChunkSize = c * ChunkSize - ChunkSize
        BY <2>1, ConfigAssumption
      <4> QED
        BY <4>1, <4>2, <4>3, ConfigAssumption
    <3> QED
      BY <3>1, <3>2, <3>3
  <2>3. head # NoVersion => faults <= c * (MaxRetries + 1)
    <3>1. faults \in Nat /\ (head # NoVersion => faults <= Cardinality(Tried))
      BY DEF Budget, Control, TypeOK
    <3>2. c * (MaxRetries + 1) \in Nat
      BY <2>1, ConfigAssumption
    <3> QED
      BY <2>1, <3>1, <3>2
  <2> QED
    BY <2>2, <2>3 DEF WithinBudget, Budget
<1>2. Control /\ Control' /\ Budget /\ [Next]_vars => Budget'
  BY NextBudget
<1> QED
  BY <1>1, <1>2, InitBudget, ControlInvariant, PTL DEF Spec
=============================================================================
