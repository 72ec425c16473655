----------------------- MODULE ObjectDownload_proofs -----------------------
(***************************************************************************)
(* Theorems of ObjectDownload, for every value of its constants.           *)
(***************************************************************************)
EXTENDS ObjectDownload, FiniteSetTheorems, TLAPS

Working == {"single", "loop", "acquire", "wait"}

(* Active = {}, goroutine by goroutine. *)
Idle == \A o \in DOMAIN task : task[o].st \in {"done", "failed"}

(* Where Download stands when it knows the object and has goroutines. *)
Phases ==
    /\ pc \notin {"head", "failed"} => head \in Versions
    /\ pc = "head" => head = NoVersion
    /\ pc \in {"head", "prepare"} => DOMAIN task = {} /\ next = 0
    /\ pc = "single" => ~Parallel /\ DOMAIN task = {0}
    /\ pc \in {"loop", "acquire", "wait"} => Parallel
    /\ pc = "acquire" => next < Total
    /\ pc \notin Working => Idle

(* The chunks launched are chunks of the object, ChunkSize apart. *)
Launched ==
    /\ \A o \in DOMAIN task :
          /\ head \in Versions
          /\ Parallel => o < Total /\ o + ChunkSize <= next
          /\ ~Parallel => o = 0
    /\ \A o1, o2 \in DOMAIN task :
          (Parallel /\ o1 < o2) => o1 + ChunkSize <= o2

(* cancel() is called only after firstErr is set. *)
Causes == RootCause /\ (cancelled => firstErr # "none")

Control == TypeOK /\ Phases /\ Launched /\ Causes

(* Waiting for the goroutines is waiting for each of them. *)
LEMMA IdleActive == TypeOK => (Active = {} <=> Idle)
  BY DEF Active, Idle, TypeOK, TaskType

(* What one step does to the task it belongs to, and to no other. *)
LEMMA PutTask ==
  ASSUME TypeOK, NEW o \in DOMAIN task, NEW r \in TaskType,
         task' = [task EXCEPT ![o] = r]
  PROVE  /\ DOMAIN task' = DOMAIN task
         /\ task' \in [DOMAIN task' -> TaskType]
         /\ task'[o] = r
         /\ \A p \in DOMAIN task : p # o => task'[p] = task[p]
  BY DEF TypeOK

LEMMA MarkTask ==
  ASSUME TypeOK, NEW o \in DOMAIN task, NEW st, SetTask(o, st),
         st \in {"attempt", "copying", "backoff", "done", "failed"}
  PROVE  /\ DOMAIN task' = DOMAIN task
         /\ task' \in [DOMAIN task' -> TaskType]
         /\ task'[o] = [task[o] EXCEPT !.st = st]
         /\ task'[o].st = st
         /\ \A p \in DOMAIN task : p # o => task'[p] = task[p]
<1>1. task' = [task EXCEPT ![o] = [task[o] EXCEPT !.st = st]]
  BY DEF SetTask
<1>2. [task[o] EXCEPT !.st = st] \in TaskType
  BY DEF TypeOK, TaskType
<1> QED
  BY <1>1, <1>2, PutTask DEF TypeOK, TaskType

LEMMA InitControl == Init => Control
<1> SUFFICES ASSUME Init PROVE Control
  OBVIOUS
<1>1. DOMAIN task = {} /\ task \in [{} -> TaskType]
  BY DEF Init
<1>2. interrupted \in BOOLEAN /\ cancelled \in BOOLEAN
  BY DEF Init
<1>3. TypeOK
  BY <1>1, <1>2, ConfigAssumption DEF Init, TypeOK
<1> QED
  BY <1>1, <1>3, SentinelAssumption
     DEF Init, Control, Phases, Launched, Causes, RootCause, Working, Idle

(* A goroutine that runs finds Download waiting for it. *)
LEMMA Busy ==
  ASSUME Phases, NEW o \in DOMAIN task, task[o].st \notin {"done", "failed"}
  PROVE  pc \in Working
  BY DEF Phases, Idle

LEMMA SameShape ==
  ASSUME Phases, Launched, head' = head, next' = next, pc' = pc,
         DOMAIN task' = DOMAIN task, pc \in Working
  PROVE  Phases' /\ Launched'
  BY DEF Phases, Launched, Working, Parallel, Total

(* Nothing but pc moves, and no goroutine runs before or after. *)
LEMMA SameTasks ==
  ASSUME Launched, head' = head, next' = next, task' = task
  PROVE  Launched'
  BY DEF Launched, Parallel, Total

LEMMA SizeType == \A v \in Versions : Size[v] \in Nat
  BY SizeAssumption

LEMMA NextControl == Control /\ [Next]_vars => Control'
<1> SUFFICES ASSUME TypeOK, Phases, Launched, Causes, [Next]_vars PROVE Control'
  BY DEF Control
<1> USE ConfigAssumption DEF environment, files
<1>1. CASE HeadObject
  <2>1. TypeOK' /\ Causes'
    BY <1>1 DEF HeadObject, TypeOK, Causes, RootCause
  <2> QED
    BY <1>1, <2>1, SentinelAssumption DEF HeadObject, Control, Phases, Launched, Idle, TypeOK, Working
<1>2. CASE HeadFails
  <2>1. TypeOK' /\ Causes'
    BY <1>2 DEF HeadFails, TypeOK, Causes, RootCause
  <2> QED
    BY <1>2, <2>1 DEF HeadFails, Control, Phases, Launched, Idle, Working
<1>3. CASE PrepareSingle
  <2>1. NewTask \in TaskType
    BY DEF NewTask, TaskType
  <2>2. DOMAIN task' = {0} /\ task' \in [{0} -> TaskType]
    BY <1>3, <2>1 DEF PrepareSingle
  <2>3. TypeOK' /\ Causes'
    BY <1>3, <2>2 DEF PrepareSingle, TypeOK, Causes, RootCause
  <2> QED
    BY <1>3, <2>2, <2>3
       DEF PrepareSingle, Control, Phases, Launched, Working, Parallel, Total
<1>4. CASE PrepareParallel
  <2>1. TypeOK' /\ Causes'
    BY <1>4 DEF PrepareParallel, TypeOK, Causes, RootCause
  <2> QED
    BY <1>4, <2>1
       DEF PrepareParallel, Control, Phases, Launched, Working, Parallel, Total
<1>5. CASE PrepareFails
  <2>1. TypeOK' /\ Causes'
    BY <1>5 DEF PrepareFails, MkdirFails, AllocFails, RemoveTmp, TypeOK, Causes, RootCause
  <2> QED
    BY <1>5, <2>1 DEF PrepareFails, MkdirFails, AllocFails, Control, Phases, Launched, Idle, Working
<1>6. CASE CheckLoop
  <2>1. TypeOK' /\ Causes'
    BY <1>6 DEF CheckLoop, TypeOK, Causes, RootCause
  <2>2. Phases'
    BY <1>6 DEF CheckLoop, Phases, Working, Parallel, Total
  <2> QED
    BY <1>6, <2>1, <2>2, SameTasks DEF CheckLoop, Control
<1>7. CASE Launch
  <2>1. NewTask \in TaskType
    BY DEF NewTask, TaskType
  <2>2. DOMAIN task' = DOMAIN task \cup {next} /\ task' \in [DOMAIN task' -> TaskType]
    BY <1>7, <2>1 DEF Launch, TypeOK
  <2>3. TypeOK' /\ Causes'
    BY <1>7, <2>2 DEF Launch, TypeOK, Causes, RootCause
  <2>4. Parallel /\ head \in Versions /\ next < Total
    BY <1>7 DEF Launch, Phases
  <2>5. Phases'
    BY <1>7, <2>4 DEF Launch, Phases, Working, Parallel, Total
  <2>6. Launched'
    <3>1. \A o \in DOMAIN task : o < Total /\ o + ChunkSize <= next
      BY <2>4 DEF Launched
    <3>2. next \in Nat /\ next' = next + ChunkSize /\ DOMAIN task \subseteq Nat
      BY <1>7 DEF Launch, TypeOK
    <3>3. Parallel' = Parallel /\ Total' = Total /\ head' = head
      BY <1>7 DEF Launch, Parallel, Total
    <3>4. \A o \in DOMAIN task' : o < Total /\ o + ChunkSize <= next'
      BY <2>2, <2>4, <3>1, <3>2
    <3>5. \A o1, o2 \in DOMAIN task' : o1 < o2 => o1 + ChunkSize <= o2
      BY <2>2, <2>4, <3>1, <3>2 DEF Launched
    <3> QED
      BY <2>4, <3>3, <3>4, <3>5 DEF Launched
  <2> QED
    BY <2>3, <2>5, <2>6 DEF Control
<1>8. CASE WaitDone \/ WaitFails
  <2>1. TypeOK' /\ Causes'
    BY <1>8 DEF WaitDone, WaitFails, RemoveTmp, Synced, TypeOK, Causes, RootCause
  <2>2. Phases'
    BY <1>8, IdleActive
       DEF WaitDone, WaitFails, AllReturned, Phases, Working, Parallel, Total, Idle
  <2> QED
    BY <1>8, <2>1, <2>2, SameTasks DEF WaitDone, WaitFails, Control
<1>9. CASE VerifyOk \/ VerifyFails \/ Rename \/ RenameFails
  <2>1. TypeOK' /\ Causes'
    BY <1>9 DEF VerifyOk, VerifyFails, Rename, RenameFails, CleanUp, RemoveTmp,
                TypeOK, Causes, RootCause
  <2>2. Phases'
    BY <1>9 DEF VerifyOk, VerifyFails, Rename, RenameFails, Phases, Working, Idle
  <2> QED
    BY <1>9, <2>1, <2>2, SameTasks
       DEF VerifyOk, VerifyFails, Rename, RenameFails, Control
<1>10. ASSUME NEW o \in DOMAIN task, RangeReply(o) \/ FullReply(o) \/ SingleReply(o)
       PROVE  Control'
  <2>1. /\ o \in Nat
        /\ server \in Versions
        /\ Size[server] \in Nat
        /\ task[o] \in TaskType
    BY SizeType DEF TypeOK
  <2>2. EndOf(o) \in Nat /\ Expected(o) \in Nat /\ Expected(o) = EndOf(o) - o
    BY <2>1, SizeType DEF Launched, EndOf, Expected, Parallel, Total
  <2>3. PICK lo \in Nat, len \in Nat :
           task' = [task EXCEPT ![o] =
              [@ EXCEPT !.st = "copying", !.ver = server, !.lo = lo, !.n = 0, !.len = len]]
    <3>1. CASE RangeReply(o)
      <4>1. Size[server] - o \in Nat
        BY <2>1, <3>1 DEF RangeReply
      <4>2. (IF EndOf(o) > Size[server] THEN Size[server] - o ELSE Expected(o)) \in Nat
        BY <2>2, <4>1
      <4> QED
        BY <2>1, <3>1, <4>2 DEF RangeReply
    <3>2. CASE FullReply(o) \/ SingleReply(o)
      BY <2>1, <3>2 DEF FullReply, SingleReply
    <3> QED
      BY <1>10, <3>1, <3>2
  <2> DEFINE r == [task[o] EXCEPT !.st = "copying", !.ver = server, !.lo = lo,
                                  !.n = 0, !.len = len]
  <2>4. r \in TaskType /\ task' = [task EXCEPT ![o] = r]
    BY <2>1, <2>3 DEF TaskType
  <2>5. DOMAIN task' = DOMAIN task /\ task' \in [DOMAIN task' -> TaskType]
    BY <2>4, PutTask
  <2>6. pc \in Working
    BY <1>10, Busy DEF RangeReply, FullReply, SingleReply
  <2>7. TypeOK' /\ Causes'
    BY <1>10, <2>5 DEF RangeReply, FullReply, SingleReply, TypeOK, Causes, RootCause
  <2> QED
    BY <1>10, <2>5, <2>6, <2>7, SameShape DEF RangeReply, FullReply, SingleReply, Control
<1>11. ASSUME NEW o \in DOMAIN task, CopyBlock(o) PROVE Control'
  <2> DEFINE r == [task[o] EXCEPT !.n = @ + 1]
  <2>1. o \in Nat /\ task[o] \in TaskType
    BY DEF TypeOK
  <2>2. r \in TaskType /\ task' = [task EXCEPT ![o] = r]
    BY <1>11, <2>1 DEF CopyBlock, TaskType
  <2>3. DOMAIN task' = DOMAIN task /\ task' \in [DOMAIN task' -> TaskType]
    BY <2>2, PutTask
  <2>4. WriteOffset(o) \in Nat
    BY <2>1 DEF WriteOffset, TaskType
  <2>5. TypeOK' /\ Causes'
    BY <1>11, <2>3, <2>4 DEF CopyBlock, TypeOK, Causes, RootCause
  <2>6. pc \in Working
    BY <1>11, Busy DEF CopyBlock
  <2> QED
    BY <1>11, <2>3, <2>5, <2>6, SameShape DEF CopyBlock, Control
<1>12. ASSUME NEW o \in DOMAIN task, ChunkDone(o) PROVE Control'
  <2>1. DOMAIN task' = DOMAIN task /\ task' \in [DOMAIN task' -> TaskType]
    BY <1>12, MarkTask DEF ChunkDone
  <2>2. task[o].n \in Nat
    BY DEF TypeOK, TaskType
  <2>3. TypeOK' /\ Causes'
    BY <1>12, <2>1, <2>2 DEF ChunkDone, TypeOK, Causes, RootCause
  <2>4. pc \in Working
    BY <1>12, Busy DEF ChunkDone
  <2> QED
    BY <1>12, <2>1, <2>3, <2>4, SameShape DEF ChunkDone, Control
<1>13. ASSUME NEW o \in DOMAIN task, SingleDone(o) PROVE Control'
  <2>1. /\ DOMAIN task' = DOMAIN task
        /\ task' \in [DOMAIN task' -> TaskType]
        /\ task'[o].st = "done"
    BY <1>13, MarkTask DEF SingleDone
  <2>2. task[o].n \in Nat
    BY DEF TypeOK, TaskType
  <2>3. TypeOK' /\ Causes'
    BY <1>13, <2>1, <2>2 DEF SingleDone, Synced, TypeOK, Causes, RootCause
  <2>4. DOMAIN task = {0}
    BY <1>13 DEF SingleDone, Phases
  <2>5. Phases'
    BY <1>13, <2>1, <2>4 DEF SingleDone, Phases, Working, Idle
  <2>6. Launched'
    BY <1>13, <2>1 DEF SingleDone, Launched, Parallel, Total
  <2> QED
    BY <2>3, <2>5, <2>6 DEF Control
<1>14. ASSUME NEW o \in DOMAIN task, AttemptRetried(o) PROVE Control'
  <2> DEFINE r == [NewTask EXCEPT !.st = "backoff", !.attempt = task[o].attempt + 1]
  <2>1. r \in TaskType /\ task' = [task EXCEPT ![o] = r]
    <3>1. task[o].attempt + 1 \in 0 .. MaxRetries
      BY <1>14 DEF AttemptRetried, MoreAttempts, TypeOK, TaskType
    <3> QED
      BY <1>14, <3>1 DEF AttemptRetried, NewTask, TaskType
  <2>2. DOMAIN task' = DOMAIN task /\ task' \in [DOMAIN task' -> TaskType]
    BY <2>1, PutTask
  <2>3. TypeOK' /\ Causes'
    BY <1>14, <2>2 DEF AttemptRetried, TypeOK, Causes, RootCause
  <2>4. pc \in Working
    BY <1>14, Busy DEF AttemptRetried, Running, Requesting
  <2> QED
    BY <1>14, <2>2, <2>3, <2>4, SameShape DEF AttemptRetried, Control
<1>15. ASSUME NEW o \in DOMAIN task,
              AttemptsExhausted(o) \/ AttemptAborted(o) \/ BackoffCancelled(o)
       PROVE  Control'
  <2>1. PICK e \in {"canceled", "exhausted"} :
           /\ TaskFails(o, e)
           /\ e = "canceled" => ctxDone
    BY <1>15 DEF AttemptsExhausted, AttemptAborted, BackoffCancelled
  <2>2. faults' \in Nat
    BY <1>15 DEF AttemptsExhausted, AttemptAborted, BackoffCancelled, TypeOK
  <2>3. /\ DOMAIN task' = DOMAIN task
        /\ task' \in [DOMAIN task' -> TaskType]
        /\ task'[o].st = "failed"
    BY <2>1, MarkTask DEF TaskFails
  <2>4. pc \in Working
    BY <1>15, Busy
       DEF AttemptsExhausted, AttemptAborted, BackoffCancelled, Running, Requesting
  <2>5. Causes'
    BY <2>1 DEF TaskFails, FirstError, ctxDone, Causes, RootCause
  <2>6. CASE Parallel
    <3>1. TypeOK'
      BY <2>1, <2>2, <2>3, <2>6 DEF TaskFails, FirstError, TypeOK
    <3> QED
      BY <2>1, <2>3, <2>4, <2>5, <2>6, <3>1, SameShape DEF TaskFails, Control
  <2>7. CASE ~Parallel
    <3>1. TypeOK'
      <4>1. cancelled' \in BOOLEAN
        BY <2>1 DEF TaskFails, Parallel
      <4> QED
        BY <2>1, <2>2, <2>3, <2>7, <4>1 DEF TaskFails, FirstError, RemoveTmp, TypeOK
    <3>2. DOMAIN task = {0} /\ o = 0
      BY <2>4, <2>7 DEF Phases, Working
    <3>3. Phases'
      BY <2>1, <2>3, <2>7, <3>2 DEF TaskFails, Phases, Working, Idle
    <3>4. Launched'
      BY <2>1, <2>3 DEF TaskFails, Launched, Parallel, Total
    <3> QED
      BY <2>5, <3>1, <3>3, <3>4 DEF Control
  <2> QED
    BY <2>6, <2>7
<1>16. ASSUME NEW o \in DOMAIN task, BackoffElapsed(o) PROVE Control'
  <2>1. DOMAIN task' = DOMAIN task /\ task' \in [DOMAIN task' -> TaskType]
    BY <1>16, MarkTask DEF BackoffElapsed
  <2>2. TypeOK' /\ Causes'
    BY <1>16, <2>1 DEF BackoffElapsed, RemoveTmp, TypeOK, Causes, RootCause
  <2>3. pc \in Working
    BY <1>16, Busy DEF BackoffElapsed
  <2> QED
    BY <1>16, <2>1, <2>2, <2>3, SameShape DEF BackoffElapsed, Control
<1>17. CASE Interrupt \/ Overwrite
  <2>1. TypeOK' /\ Causes'
    <3>1. interrupted' \in BOOLEAN
      BY <1>17 DEF Interrupt, Overwrite, TypeOK
    <3> QED
      BY <1>17, <3>1 DEF Interrupt, Overwrite, TypeOK, Causes, RootCause
  <2>2. Phases'
    BY <1>17 DEF Interrupt, Overwrite, Phases, Idle, Parallel, Total
  <2> QED
    BY <1>17, <2>1, <2>2, SameTasks DEF Interrupt, Overwrite, Control
<1>18. CASE Restart
  <2>1. DOMAIN task' = {} /\ task' \in [{} -> TaskType]
    BY <1>18 DEF Restart
  <2>2. interrupted' \in BOOLEAN /\ cancelled' \in BOOLEAN
    BY <1>18 DEF Restart
  <2>3. TypeOK'
    BY <1>18, <2>1, <2>2 DEF Restart, TypeOK
  <2> QED
    BY <1>18, <2>1, <2>3, SentinelAssumption
       DEF Restart, Control, Phases, Launched, Causes, RootCause, Working, Idle
<1>19. CASE UNCHANGED vars
  BY <1>19 DEF vars, Control, TypeOK, Phases, Launched, Causes, RootCause, Idle,
               Parallel, Total
<1> QED
  BY <1>1, <1>2, <1>3, <1>4, <1>5, <1>6, <1>7, <1>8, <1>9, <1>10, <1>11, <1>12,
     <1>13, <1>14, <1>15, <1>16, <1>17, <1>18, <1>19
     DEF Next, MainStep, TaskStep, AttemptFails, Exited

THEOREM ControlInvariant == Spec => []Control
<1> QED
  BY InitControl, NextControl, PTL DEF Spec

(* Every variable keeps its type; no task makes more than MaxRetries + 1   *)
(* attempts.                                                               *)
THEOREM TypeCorrect == Spec => []TypeOK
  BY ControlInvariant, PTL DEF Control

(* Download verifies, renames and returns only when its goroutines are done. *)
THEOREM QuiescentTailHolds == Spec => []QuiescentTail
<1>1. Control => QuiescentTail
  BY IdleActive DEF Control, Phases, QuiescentTail, Terminal, Working
<1> QED
  BY <1>1, ControlInvariant, PTL

(* The error reported as the cause is not the echo of a cancellation that  *)
(* an earlier error asked for.                                             *)
THEOREM RootCauseHolds == Spec => []RootCause
  BY ControlInvariant, PTL DEF Control, Causes

(* A call that got as far as knowing the object leaves no temporary file:  *)
(* every way out of Download removes or renames it, on a disk that works.  *)
THEOREM NoLitterHolds ==
  ASSUME DiskFaults = FALSE
  PROVE  Spec => []NoLitter
<1>1. Init => NoLitter
  BY DEF Init, NoLitter, Terminal
<1>2. Control /\ Control' /\ NoLitter /\ [Next]_vars => NoLitter'
  <2> SUFFICES ASSUME Control, NoLitter, [Next]_vars PROVE NoLitter'
    OBVIOUS
  <2> USE DEF environment, files, Terminal, RemoveTmp, CleanUp
  <2>1. CASE HeadFails
    BY <2>1 DEF HeadFails, Control, Phases, NoLitter
  <2>2. CASE PrepareFails \/ WaitFails \/ VerifyFails \/ Rename \/ RenameFails
    BY <2>2 DEF PrepareFails, MkdirFails, AllocFails, WaitFails, VerifyFails, Rename,
                RenameFails, NoLitter
  <2>3. CASE HeadObject \/ PrepareSingle \/ PrepareParallel \/ CheckLoop \/ Launch
             \/ WaitDone \/ VerifyOk \/ Restart
    BY <2>3 DEF HeadObject, PrepareSingle, PrepareParallel, CheckLoop, Launch,
                WaitDone, VerifyOk, Restart, NoLitter
  <2>4. ASSUME NEW o \in DOMAIN task, TaskStep(o) PROVE NoLitter'
    <3>1. pc \in Working
      BY <2>4, Busy
         DEF Control, TaskStep, RangeReply, FullReply, SingleReply, CopyBlock,
             ChunkDone, SingleDone, AttemptFails, AttemptRetried, AttemptsExhausted,
             AttemptAborted, BackoffElapsed, BackoffCancelled, Running, Requesting
    <3>2. pc' \in Working \cup {"verify"} \/ tmp' = NoFile
      BY <2>4, <3>1
         DEF TaskStep, RangeReply, FullReply, SingleReply, CopyBlock, ChunkDone, SingleDone,
             AttemptFails, AttemptRetried, AttemptsExhausted, AttemptAborted,
             BackoffElapsed, BackoffCancelled, TaskFails
    <3> QED
      BY <3>2 DEF Working, NoLitter
  <2>5. CASE Interrupt \/ Overwrite \/ Exited \/ UNCHANGED vars
    <3>1. pc' = pc /\ head' = head /\ tmp' = tmp
      BY <2>5 DEF Interrupt, Overwrite, Exited, vars
    <3> QED
      BY <3>1 DEF NoLitter
  <2> QED
    BY <2>1, <2>2, <2>3, <2>4, <2>5 DEF Next, MainStep
<1> QED
  BY <1>1, <1>2, ControlInvariant, PTL DEF Spec

-----------------------------------------------------------------------------
(* The servers for which the installed file is proved correct: one that    *)
(* answers a range GET with that range and whose object is not replaced,   *)
(* or one whose ETags are all checked.                                     *)
Honest == FullReplies = FALSE /\ MaxOverwrites = 0
AllChecked == SkipChecksumVerify = FALSE /\ Versions \subseteq SimpleETags

Covered == {i \in 0 .. Total - 1 :
               \E o \in DOMAIN task : task[o].st = "done" /\ o <= i /\ i < EndOf(o)}
Filled(f, v, o, k) == \A i \in o .. o + k - 1 : i \in DOMAIN f /\ f[i] = <<v, i>>
Downloading == Working \cup {"verify"}

(* The temporary file has the object's cells and no other. *)
Allocated ==
    pc \in {"loop", "acquire", "wait", "verify"} \/ (pc = "single" /\ task[0].st = "copying")
        => tmp \in [0 .. Total - 1 -> Cell]

(* With an honest server every copy is of the chunk itself, and what is    *)
(* already copied is in place.                                             *)
Copies ==
    \A o \in DOMAIN task :
       /\ task[o].st = "copying" =>
             /\ task[o].ver = head
             /\ task[o].lo = o
             /\ task[o].len = Expected(o)
             /\ task[o].n <= task[o].len
             /\ Filled(tmp, head, o, task[o].n)
       /\ (task[o].st = "done" /\ pc \in Downloading) => Filled(tmp, head, o, Expected(o))

(* totalWritten counts every cell of the finished chunks once. *)
Counted ==
    /\ pc = "head" => totalBytes = 0
    /\ pc \notin {"head", "failed"} => totalBytes = Cardinality(Covered)

SameObject == overwrites = 0 /\ (head # NoVersion => head = server)

HonestContent == SameObject /\ Allocated /\ Copies /\ Counted

(* The calls whose file is right for a reason: the server was honest, or   *)
(* the object at hand has an ETag that is checked.                         *)
Assured == Honest \/ Checked

(* What the checks leave for the rename. *)
Installing ==
    /\ (pc = "rename" /\ Assured) => tmp = Contents(head)
    /\ (pc = "ok" /\ Assured) => out = Contents(head)
    /\ pc \in {"verify", "rename", "ok"} => dirty = {}

-----------------------------------------------------------------------------
LEMMA TotalType == head \in Versions => Total \in Nat
  BY SizeType DEF Total

LEMMA ExpectedType ==
  ASSUME Control, NEW o \in DOMAIN task
  PROVE  /\ o \in Nat /\ EndOf(o) \in Nat
         /\ o <= EndOf(o) /\ EndOf(o) <= Total
         /\ Expected(o) = EndOf(o) - o /\ Expected(o) \in Nat
  BY TotalType, ConfigAssumption
     DEF Control, TypeOK, Launched, EndOf, Expected, Parallel

(* While the object is the same, so are the chunks. *)
LEMMA SameChunks ==
  ASSUME head' = head
  PROVE  /\ Total' = Total /\ (Parallel <=> Parallel')
         /\ \A o : EndOf(o)' = EndOf(o) /\ Expected(o)' = Expected(o)
  BY DEF Total, Parallel, EndOf, Expected

LEMMA SameCovered ==
  ASSUME head' = head,
         \A o : (o \in DOMAIN task' /\ task'[o].st = "done")
                <=> (o \in DOMAIN task /\ task[o].st = "done")
  PROVE  Covered' = Covered
  BY SameChunks DEF Covered

(* Once no goroutine runs and the file is checked, nothing is claimed of   *)
(* the goroutines any more.                                                *)
LEMMA NoCopies ==
  ASSUME Phases, pc \notin Downloading
  PROVE  Copies
  BY DEF Phases, Downloading, Idle, Copies

LEMMA CoveredFinite ==
  ASSUME head \in Versions
  PROVE  IsFiniteSet(Covered) /\ IsFiniteSet(0 .. Total - 1)
         /\ Cardinality(0 .. Total - 1) = Total
<1>1. Total \in Nat
  BY TotalType
<1>2. IsFiniteSet(0 .. Total - 1) /\ Cardinality(0 .. Total - 1) = Total
  BY <1>1, FS_Interval
<1>3. Covered \in SUBSET (0 .. Total - 1)
  BY DEF Covered
<1> QED
  BY <1>2, <1>3, FS_Subset

(* A chunk that ends adds its own cells to those that are counted. *)
LEMMA CountChunk ==
  ASSUME Control, Counted, head \in Versions, pc # "failed", pc # "head",
         NEW o \in DOMAIN task, task[o].st # "done",
         head' = head, DOMAIN task' = DOMAIN task, task'[o].st = "done",
         \A p \in DOMAIN task : p # o => task'[p] = task[p]
  PROVE  Cardinality(Covered') = totalBytes + Expected(o)
<1> DEFINE mine == o .. EndOf(o) - 1
<1>1. Total \in Nat /\ IsFiniteSet(Covered)
  BY TotalType, CoveredFinite
<1>2. o \in Nat /\ EndOf(o) \in Nat /\ o <= EndOf(o) /\ EndOf(o) <= Total
  BY ExpectedType
<1>3. IsFiniteSet(mine) /\ Cardinality(mine) = Expected(o)
  <2>1. o \in Int /\ EndOf(o) - 1 \in Int
    BY <1>2
  <2>2. /\ IsFiniteSet(mine)
        /\ Cardinality(mine) = IF o > EndOf(o) - 1 THEN 0 ELSE (EndOf(o) - 1) - o + 1
    BY <2>1, FS_Interval
  <2> QED
    BY <1>2, <2>2 DEF Expected
<1>4. Covered' = Covered \cup mine
  BY <1>1, <1>2, SameChunks DEF Covered
<1>5. Covered \cap mine = {}
  <2> SUFFICES ASSUME NEW p \in DOMAIN task, p # o, NEW i \in Int,
                      p <= i, i < EndOf(p), o <= i, i < EndOf(o)
               PROVE  FALSE
    BY <1>2 DEF Covered
  <2>1. p \in Nat /\ (Parallel => p < Total /\ o < Total) /\ (~Parallel => p = o)
    BY DEF Control, TypeOK, Launched
  <2>2. Parallel /\ (p + ChunkSize <= o \/ o + ChunkSize <= p)
    BY <1>2, <2>1 DEF Control, Launched
  <2>3. EndOf(p) <= p + ChunkSize /\ EndOf(o) <= o + ChunkSize
    BY <1>1, <1>2, <2>1, <2>2, ConfigAssumption DEF EndOf
  <2> QED
    BY <1>2, <2>1, <2>2, <2>3, ConfigAssumption, ExpectedType
<1>6. totalBytes = Cardinality(Covered)
  BY DEF Counted
<1>7. Cardinality(Covered) \in Nat /\ Cardinality(mine) \in Nat
  BY <1>1, <1>3, FS_CardinalityType
<1>8. Cardinality(Covered \cup mine)
         = Cardinality(Covered) + Cardinality(mine) - Cardinality(Covered \cap mine)
  BY <1>1, <1>3, FS_Union
<1>9. Cardinality(Covered \cap mine) = 0
  BY <1>5, FS_EmptySet
<1> HIDE DEF mine
<1> QED
  BY <1>3, <1>4, <1>6, <1>7, <1>8, <1>9

-----------------------------------------------------------------------------
LEMMA InitHonest == Init => HonestContent
<1> SUFFICES ASSUME Init PROVE HonestContent
  OBVIOUS
<1>1. pc = "head" /\ DOMAIN task = {} /\ overwrites = 0 /\ head = NoVersion /\ totalBytes = 0
  BY DEF Init
<1> QED
  BY <1>1 DEF HonestContent, SameObject, Allocated, Copies, Counted

(* An attempt that fails, waits or gives up leaves the other goroutines'   *)
(* cells and their count alone.                                            *)
LEMMA HonestPause ==
  ASSUME HonestContent, SameObject', Phases', NEW o \in DOMAIN task,
         task[o].st \notin {"done", "failed"}, pc \in {"loop", "acquire", "wait"},
         head' = head, tmp' = tmp, pc' = pc, totalBytes' = totalBytes,
         DOMAIN task' = DOMAIN task, task'[o].st \notin {"copying", "done"},
         \A p \in DOMAIN task : p # o => task'[p] = task[p]
  PROVE  HonestContent'
<1>1. Allocated'
  BY SameChunks DEF HonestContent, Allocated
<1>2. Copies'
  BY SameChunks DEF HonestContent, Copies, Downloading
<1>3. Covered' = Covered
  BY SameCovered
<1> QED
  BY <1>1, <1>2, <1>3 DEF HonestContent, Counted

LEMMA NextHonest ==
  ASSUME Honest, Control, HonestContent, Control', [Next]_vars
  PROVE  HonestContent'
<1> USE DEF environment, files
<1>0. Phases /\ Phases' /\ TypeOK
  BY DEF Control
<1>1. SameObject'
  <2>1. ~(overwrites < MaxOverwrites)
    BY DEF Honest, HonestContent, SameObject
  <2> QED
    BY <2>1 DEF HonestContent, SameObject, Next, vars, MainStep, TaskStep, HeadObject,
       HeadFails, PrepareSingle, PrepareParallel, PrepareFails, MkdirFails, AllocFails, CheckLoop, Launch, WaitDone,
       WaitFails, VerifyOk, VerifyFails, Rename, RenameFails, RangeReply, FullReply,
       SingleReply, CopyBlock, ChunkDone, SingleDone, AttemptFails, AttemptRetried,
       AttemptsExhausted, AttemptAborted, BackoffElapsed, BackoffCancelled, TaskFails,
       Interrupt, Overwrite, Restart, Exited
<1>2. CASE HeadObject
  <2>1. DOMAIN task' = {} /\ pc' = "prepare" /\ totalBytes' = 0 /\ head' \in Versions
    BY <1>0, <1>2 DEF HeadObject, Phases, TypeOK, HonestContent, Counted
  <2>2. Covered' = {}
    BY <2>1 DEF Covered
  <2> QED
    BY <1>1, <2>1, <2>2, FS_EmptySet DEF HonestContent, Allocated, Copies, Counted
<1>3. CASE HeadFails \/ PrepareFails \/ WaitFails \/ VerifyFails \/ RenameFails
  <2>1. pc' = "failed"
    BY <1>3 DEF HeadFails, PrepareFails, MkdirFails, AllocFails, WaitFails, VerifyFails, RenameFails
  <2>2. Copies'
    BY <1>0, <2>1 DEF Phases, Idle, Copies, Working, Downloading
  <2> QED
    BY <1>1, <2>1, <2>2 DEF HonestContent, Allocated, Counted
<1>4. CASE PrepareSingle
  <2>1. /\ pc' = "single" /\ head' = head /\ totalBytes' = totalBytes
        /\ DOMAIN task = {} /\ DOMAIN task' = {0} /\ task'[0].st = "attempt"
    BY <1>0, <1>4 DEF PrepareSingle, Phases, NewTask
  <2>2. Covered' = Covered
    BY <2>1, SameCovered
  <2> QED
    BY <1>1, <1>4, <2>1, <2>2
       DEF PrepareSingle, HonestContent, Allocated, Copies, Counted
<1>5. CASE PrepareParallel
  <2>1. pc' = "loop" /\ head' = head /\ totalBytes' = totalBytes /\ DOMAIN task = {}
        /\ task' = task /\ tmp' = Blank(Total)
    BY <1>0, <1>5 DEF PrepareParallel, Phases
  <2>2. Covered' = Covered
    BY <2>1, SameCovered
  <2>3. Allocated'
    BY <2>1, SameChunks DEF Allocated, Blank, Cell
  <2> QED
    BY <1>1, <1>5, <2>1, <2>2, <2>3 DEF PrepareParallel, HonestContent, Copies, Counted
<1>6. CASE CheckLoop \/ WaitDone \/ Interrupt \/ Exited \/ UNCHANGED vars
  <2>1. head' = head /\ task' = task /\ tmp' = tmp /\ totalBytes' = totalBytes
    BY <1>6 DEF CheckLoop, WaitDone, Interrupt, Exited, vars
  <2>2. \/ pc' = pc
        \/ pc \in {"loop", "wait"} /\ pc' \in {"loop", "acquire", "wait", "verify"}
    BY <1>6 DEF CheckLoop, WaitDone, Interrupt, Exited, vars
  <2>3. Covered' = Covered
    BY <2>1, SameCovered
  <2>4. Allocated'
    BY <2>1, <2>2, SameChunks DEF HonestContent, Allocated
  <2>5. Copies'
    BY <2>1, <2>2, SameChunks DEF HonestContent, Copies, Downloading, Working
  <2> QED
    BY <1>1, <2>1, <2>2, <2>3, <2>4, <2>5 DEF HonestContent, Counted
<1>7. CASE Launch
  <2>1. /\ pc = "acquire" /\ pc' = "loop" /\ head' = head /\ tmp' = tmp
        /\ totalBytes' = totalBytes /\ DOMAIN task' = DOMAIN task \cup {next}
        /\ next \notin DOMAIN task
        /\ task'[next].st = "attempt"
        /\ \A p \in DOMAIN task : task'[p] = task[p]
    <3>1. next \notin DOMAIN task
      BY <1>7, ConfigAssumption DEF Launch, Control, TypeOK, Phases, Launched
    <3> QED
      BY <1>7, <3>1 DEF Launch, NewTask
  <2>2. Covered' = Covered
    BY <2>1, SameCovered
  <2>3. Allocated'
    BY <2>1, SameChunks DEF HonestContent, Allocated
  <2>4. Copies'
    BY <2>1, SameChunks DEF HonestContent, Copies, Downloading, Working
  <2> QED
    BY <1>1, <2>1, <2>2, <2>3, <2>4 DEF HonestContent, Counted
<1>8. CASE VerifyOk \/ Rename
  <2>1. /\ pc' \in {"rename", "ok"} /\ pc \in {"verify", "rename"}
        /\ head' = head /\ task' = task /\ totalBytes' = totalBytes
    BY <1>8 DEF VerifyOk, Rename
  <2>2. Covered' = Covered
    BY <2>1, SameCovered
  <2>3. Copies'
    BY <1>0, <2>1 DEF Phases, Idle, Copies, Working, Downloading
  <2> QED
    BY <1>1, <2>1, <2>2, <2>3 DEF HonestContent, Allocated, Counted
<1>9. ASSUME NEW o \in DOMAIN task, task[o].st \notin {"done", "failed"}
      PROVE  /\ pc \in Working /\ head \in Versions /\ head = server
             /\ Parallel => pc \in {"loop", "acquire", "wait"}
             /\ ~Parallel => pc = "single" /\ DOMAIN task = {0} /\ o = 0
  <2>1. pc \in Working
    BY <1>0, <1>9, Busy
  <2>2. head \in Versions
    BY <1>9 DEF Control, Launched
  <2> QED
    BY <1>0, <2>1, <2>2, SentinelAssumption
       DEF Phases, Working, HonestContent, SameObject
<1>10. ASSUME NEW o \in DOMAIN task, RangeReply(o) PROVE HonestContent'
  <2>1. /\ task[o].st = "attempt" /\ Parallel /\ pc' = pc /\ head' = head /\ tmp' = tmp
        /\ totalBytes' = totalBytes
    BY <1>10 DEF RangeReply
  <2>2. pc \in {"loop", "acquire", "wait"} /\ head = server
    BY <1>9, <2>1
  <2>3. /\ o \in Nat /\ Expected(o) \in Nat
        /\ ~(EndOf(o) > Size[server])
    <3>1. EndOf(o) \in Nat /\ Total \in Nat /\ EndOf(o) <= Total /\ Total = Size[server]
      BY <1>9, <2>1, <2>2, ExpectedType, TotalType DEF Total
    <3> QED
      BY <3>1, ExpectedType
  <2>4. task' = [task EXCEPT ![o] = [@ EXCEPT !.st = "copying", !.ver = head, !.lo = o,
                                              !.n = 0, !.len = Expected(o)]]
    BY <1>10, <2>2, <2>3 DEF RangeReply
  <2>5. /\ DOMAIN task' = DOMAIN task
        /\ task'[o].st = "copying" /\ task'[o].ver = head /\ task'[o].lo = o
        /\ task'[o].n = 0 /\ task'[o].len = Expected(o)
        /\ \A p \in DOMAIN task : p # o => task'[p] = task[p]
    BY <1>0, <2>4 DEF TypeOK, TaskType
  <2>6. Covered' = Covered
    BY <2>1, <2>5, SameCovered
  <2>7. Filled(tmp, head, o, 0)
    BY <2>3 DEF Filled
  <2>8. Copies'
    BY <2>1, <2>3, <2>5, <2>7, SameChunks DEF HonestContent, Copies
  <2>9. Allocated'
    BY <2>1, <2>2, SameChunks DEF HonestContent, Allocated
  <2> QED
    BY <1>1, <2>1, <2>6, <2>8, <2>9 DEF HonestContent, Counted
<1>11. ASSUME NEW o \in DOMAIN task, SingleReply(o) PROVE HonestContent'
  <2>1. /\ task[o].st = "attempt" /\ pc = "single" /\ pc' = pc /\ head' = head
        /\ totalBytes' = totalBytes /\ tmp' = Blank(Total)
    BY <1>11 DEF SingleReply
  <2>2. head = server /\ head \in Versions /\ DOMAIN task = {0} /\ o = 0 /\ ~Parallel
    BY <1>0, <1>9, <2>1 DEF Phases
  <2>3. Total \in Nat /\ Expected(0) = Total /\ Size[server] = Total
    BY <2>2, TotalType DEF Expected, EndOf, Total
  <2>4. /\ DOMAIN task' = {0}
        /\ task'[0].st = "copying" /\ task'[0].ver = head /\ task'[0].lo = 0
        /\ task'[0].n = 0 /\ task'[0].len = Expected(0)
    BY <1>0, <1>11, <2>2, <2>3 DEF SingleReply, TypeOK, TaskType
  <2>5. Covered' = Covered
    BY <2>1, <2>2, <2>4, SameCovered
  <2>6. Copies'
    BY <2>1, <2>3, <2>4, SameChunks DEF Copies, Filled
  <2>7. Allocated'
    BY <2>1, SameChunks DEF Allocated, Blank, Cell
  <2> QED
    BY <1>1, <2>1, <2>5, <2>6, <2>7 DEF HonestContent, Counted
<1>12. ASSUME NEW o \in DOMAIN task, CopyBlock(o) PROVE HonestContent'
  <2> DEFINE p == WriteOffset(o)
  <2>1. /\ task[o].st = "copying" /\ task[o].n < task[o].len /\ pc' = pc /\ head' = head
        /\ totalBytes' = totalBytes
    BY <1>12 DEF CopyBlock
  <2>2. /\ task[o].ver = head /\ task[o].lo = o /\ task[o].len = Expected(o)
        /\ Filled(tmp, head, o, task[o].n) /\ task[o].n \in Nat /\ head \in Versions
    BY <1>0, <1>9, <2>1 DEF HonestContent, Copies, TypeOK, TaskType
  <2>3. o \in Nat /\ p = o + task[o].n /\ p \in 0 .. Total - 1 /\ Total \in Nat
    BY <2>1, <2>2, ExpectedType, TotalType DEF WriteOffset
  <2>4. tmp \in [0 .. Total - 1 -> Cell]
    BY <1>9, <2>1 DEF HonestContent, Allocated
  <2>5. tmp' = [i \in DOMAIN tmp \cup 0 .. p |->
                  IF i = p THEN <<head, p>> ELSE IF i \in DOMAIN tmp THEN tmp[i] ELSE Hole]
    BY <1>12, <2>2, <2>3 DEF CopyBlock
  <2>6. DOMAIN tmp \cup 0 .. p = 0 .. Total - 1
    BY <2>3, <2>4
  <2>7. <<head, p>> \in Cell
    BY <2>2, <2>3 DEF Cell
  <2> HIDE DEF p
  <2>8. tmp' \in [0 .. Total - 1 -> Cell] /\ tmp'[p] = <<head, p>>
        /\ \A i \in 0 .. Total - 1 : i # p => tmp'[i] = tmp[i]
    BY <2>3, <2>4, <2>5, <2>6, <2>7
  <2>9. /\ DOMAIN task' = DOMAIN task
        /\ task'[o].st = "copying" /\ task'[o].ver = head /\ task'[o].lo = o
        /\ task'[o].n = task[o].n + 1 /\ task'[o].len = Expected(o)
        /\ \A q \in DOMAIN task : q # o => task'[q] = task[q]
    BY <1>0, <1>12, <2>1, <2>2 DEF CopyBlock, TypeOK, TaskType
  <2>10. \A q, k : Filled(tmp, head, q, k) => Filled(tmp', head', q, k)
    BY <2>1, <2>4, <2>8 DEF Filled
  <2>11. Filled(tmp', head', o, task'[o].n)
    <3> SUFFICES ASSUME NEW i \in o .. o + (task[o].n + 1) - 1
                 PROVE  i \in DOMAIN tmp' /\ tmp'[i] = <<head, i>>
      BY <2>1, <2>9 DEF Filled
    <3>1. i = p \/ i \in o .. o + task[o].n - 1
      BY <2>2, <2>3
    <3>2. CASE i = p
      BY <2>3, <2>8, <3>2
    <3>3. CASE i # p /\ i \in o .. o + task[o].n - 1
      <4>1. i \in DOMAIN tmp /\ tmp[i] = <<head, i>>
        BY <2>2, <3>3 DEF Filled
      <4> QED
        BY <2>4, <2>8, <3>3, <4>1
    <3> QED
      BY <3>1, <3>2, <3>3
  <2>12. Covered' = Covered
    BY <2>1, <2>9, SameCovered
  <2>13. Copies'
    <3>1. task'[o].n <= task'[o].len
      BY <2>1, <2>2, <2>9, ExpectedType
    <3>2. \A q : Expected(q)' = Expected(q)
      BY <2>1, SameChunks
    <3> SUFFICES ASSUME NEW q \in DOMAIN task
                 PROVE  /\ task'[q].st = "copying" =>
                              /\ task'[q].ver = head'
                              /\ task'[q].lo = q
                              /\ task'[q].len = Expected(q)
                              /\ task'[q].n <= task'[q].len
                              /\ Filled(tmp', head', q, task'[q].n)
                        /\ (task'[q].st = "done" /\ pc' \in Downloading)
                              => Filled(tmp', head', q, Expected(q))
      BY <2>9, <3>2 DEF Copies
    <3>3. CASE q = o
      BY <2>1, <2>9, <2>11, <3>1, <3>3
    <3>4. CASE q # o
      <4>1. task'[q] = task[q]
        BY <2>9, <3>4
      <4>2. Filled(tmp, head, q, task[q].n) => Filled(tmp', head', q, task'[q].n)
        BY <2>10, <4>1
      <4>3. Filled(tmp, head, q, Expected(q)) => Filled(tmp', head', q, Expected(q))
        BY <2>10, <3>2
      <4> QED
        BY <2>1, <4>1, <4>2, <4>3 DEF HonestContent, Copies
    <3> QED
      BY <3>3, <3>4
  <2>14. Allocated'
    BY <2>1, <2>8, SameChunks DEF Allocated
  <2> QED
    BY <1>1, <2>1, <2>12, <2>13, <2>14 DEF HonestContent, Counted
<1>13. ASSUME NEW o \in DOMAIN task, ChunkDone(o) PROVE HonestContent'
  <2>1. /\ task[o].st = "copying" /\ task[o].n = Expected(o) /\ Parallel /\ pc' = pc
        /\ head' = head /\ tmp' = tmp /\ totalBytes' = totalBytes + Expected(o)
    BY <1>13 DEF ChunkDone
  <2>2. pc \in {"loop", "acquire", "wait"} /\ head \in Versions /\ Filled(tmp, head, o, Expected(o))
    BY <1>9, <2>1 DEF HonestContent, Copies
  <2>3. /\ DOMAIN task' = DOMAIN task /\ task'[o].st = "done"
        /\ \A q \in DOMAIN task : q # o => task'[q] = task[q]
    BY <1>0, <1>13, MarkTask DEF ChunkDone
  <2>4. Cardinality(Covered') = totalBytes + Expected(o)
    BY <2>1, <2>2, <2>3, CountChunk DEF HonestContent
  <2>5. Copies'
    BY <2>1, <2>2, <2>3, SameChunks DEF HonestContent, Copies
  <2>6. Allocated'
    BY <2>1, <2>2, SameChunks DEF HonestContent, Allocated
  <2> QED
    BY <1>1, <2>1, <2>2, <2>4, <2>5, <2>6 DEF HonestContent, Counted
<1>14. ASSUME NEW o \in DOMAIN task, SingleDone(o) PROVE HonestContent'
  <2>1. /\ task[o].st = "copying" /\ task[o].n = task[o].len /\ pc = "single"
        /\ pc' = "verify" /\ head' = head /\ tmp' = tmp /\ totalBytes' = task[o].n
    BY <1>14 DEF SingleDone
  <2>2. DOMAIN task = {0} /\ o = 0 /\ head \in Versions
    BY <1>0, <1>9, <2>1 DEF Phases
  <2>3. task[o].n = Expected(o) /\ Filled(tmp, head, o, Expected(o)) /\ Expected(o) \in Nat
    BY <2>1, ExpectedType DEF HonestContent, Copies
  <2>4. /\ DOMAIN task' = DOMAIN task /\ task'[o].st = "done"
        /\ \A q \in DOMAIN task : q # o => task'[q] = task[q]
    BY <1>0, <1>14, MarkTask DEF SingleDone
  <2>5. Covered = {}
    BY <2>1, <2>2 DEF Covered
  <2>6. totalBytes = 0
    BY <2>1, <2>5, FS_EmptySet DEF HonestContent, Counted
  <2>7. Cardinality(Covered') = Expected(o)
    BY <2>1, <2>2, <2>3, <2>4, <2>6, CountChunk DEF HonestContent
  <2>8. Copies'
    BY <2>1, <2>2, <2>3, <2>4, SameChunks DEF HonestContent, Copies
  <2>9. Allocated'
    BY <2>1, <2>2, SameChunks DEF HonestContent, Allocated
  <2> QED
    BY <1>1, <2>1, <2>3, <2>7, <2>8, <2>9 DEF HonestContent, Counted
<1>15. ASSUME NEW o \in DOMAIN task, AttemptRetried(o) \/ BackoffElapsed(o)
       PROVE  HonestContent'
  <2>1. /\ task[o].st \notin {"done", "failed"} /\ pc' = pc /\ head' = head
        /\ totalBytes' = totalBytes /\ (Parallel => tmp' = tmp)
    BY <1>15 DEF AttemptRetried, BackoffElapsed, Running, Requesting
  <2>2. /\ DOMAIN task' = DOMAIN task /\ task'[o].st \in {"backoff", "attempt"}
        /\ \A q \in DOMAIN task : q # o => task'[q] = task[q]
    <3>1. CASE AttemptRetried(o)
      BY <1>0, <3>1 DEF AttemptRetried, TypeOK, NewTask
    <3>2. CASE BackoffElapsed(o)
      BY <1>0, <3>2, MarkTask DEF BackoffElapsed
    <3> QED
      BY <1>15, <3>1, <3>2
  <2>3. CASE Parallel
    BY <1>0, <1>1, <1>9, <2>1, <2>2, <2>3, HonestPause
  <2>4. CASE ~Parallel
    <3>1. pc = "single" /\ DOMAIN task = {0} /\ o = 0
      BY <1>9, <2>1, <2>4
    <3>2. Covered' = Covered
      BY <2>1, <2>2, <3>1, SameCovered
    <3> QED
      BY <1>1, <2>1, <2>2, <3>1, <3>2 DEF HonestContent, Allocated, Copies, Counted
  <2> QED
    BY <2>3, <2>4
<1>16. ASSUME NEW o \in DOMAIN task,
              AttemptsExhausted(o) \/ AttemptAborted(o) \/ BackoffCancelled(o)
       PROVE  HonestContent'
  <2>1. PICK e \in {"canceled", "exhausted"} : TaskFails(o, e)
    BY <1>16 DEF AttemptsExhausted, AttemptAborted, BackoffCancelled
  <2>2. task[o].st \notin {"done", "failed"}
    BY <1>16 DEF AttemptsExhausted, AttemptAborted, BackoffCancelled, Running, Requesting
  <2>3. /\ DOMAIN task' = DOMAIN task /\ task'[o].st = "failed"
        /\ \A q \in DOMAIN task : q # o => task'[q] = task[q]
    BY <1>0, <2>1, MarkTask DEF TaskFails
  <2>4. CASE Parallel
    BY <1>0, <1>1, <1>9, <2>1, <2>2, <2>3, <2>4, HonestPause DEF TaskFails
  <2>5. CASE ~Parallel
    <3>1. pc' = "failed"
      BY <2>1, <2>5 DEF TaskFails
    <3>2. Copies'
      BY <1>0, <3>1 DEF Phases, Idle, Copies, Working, Downloading
    <3> QED
      BY <1>1, <3>1, <3>2 DEF HonestContent, Allocated, Counted
  <2> QED
    BY <2>4, <2>5
<1>17. CASE Restart
  <2>1. pc' = "head" /\ DOMAIN task' = {} /\ totalBytes' = 0
    BY <1>17 DEF Restart
  <2> QED
    BY <1>1, <2>1 DEF HonestContent, Allocated, Copies, Counted
<1>18. ~Overwrite
  BY DEF Honest, Overwrite, HonestContent, SameObject
<1>19. \A o \in DOMAIN task : ~FullReply(o)
  BY Zenon DEF Honest, FullReply
<1> QED
  BY <1>2, <1>3, <1>4, <1>5, <1>6, <1>7, <1>8, <1>10, <1>11, <1>12, <1>13, <1>14,
     <1>15, <1>16, <1>17, <1>18, <1>19 DEF Next, MainStep, TaskStep, AttemptFails

-----------------------------------------------------------------------------
(* All the bytes are counted only when every cell of the file is in place: *)
(* what the size check of Download is worth.                               *)
LEMMA CountedIsWhole ==
  ASSUME Control, HonestContent, pc = "verify", totalBytes = Total
  PROVE  tmp = Contents(head)
<1>1. head \in Versions /\ Total \in Nat
  BY TotalType DEF Control, Phases
<1>2. Covered \in SUBSET (0 .. Total - 1) /\ totalBytes = Cardinality(Covered)
  BY DEF Covered, HonestContent, Counted
<1>3. Covered = 0 .. Total - 1
  BY <1>1, <1>2, CoveredFinite, FS_Subset
<1>4. tmp \in [0 .. Total - 1 -> Cell]
  BY DEF HonestContent, Allocated
<1>5. ASSUME NEW i \in 0 .. Total - 1 PROVE tmp[i] = <<head, i>>
  <2>1. PICK o \in DOMAIN task : task[o].st = "done" /\ o <= i /\ i < EndOf(o)
    BY <1>3, <1>5 DEF Covered
  <2>2. Filled(tmp, head, o, Expected(o))
    BY <2>1 DEF HonestContent, Copies, Downloading
  <2>3. i \in o .. o + Expected(o) - 1
    BY <1>1, <1>5, <2>1, ExpectedType
  <2> QED
    BY <2>2, <2>3 DEF Filled
<1> QED
  BY <1>4, <1>5 DEF Contents, Total

LEMMA SameAssured ==
  ASSUME head' = head
  PROVE  Assured' = Assured
  BY DEF Assured, Honest, Checked

(* AllChecked is Checked for every object there is. *)
LEMMA AllAssured ==
  ASSUME Honest \/ AllChecked, head \in Versions
  PROVE  Assured
  BY Zenon DEF Assured, AllChecked, Checked

LEMMA NextInstalling ==
  ASSUME Control, Honest => HonestContent, Installing, [Next]_vars
  PROVE  Installing'
<1> USE DEF environment, files
<1>1. CASE VerifyOk
  <2>1. pc = "verify" /\ pc' = "rename" /\ tmp' = tmp /\ head' = head /\ dirty' = dirty
    BY <1>1 DEF VerifyOk
  <2>2. Assured => tmp = Contents(head)
    <3>1. CASE Honest
      BY <1>1, <2>1, <3>1, CountedIsWhole DEF VerifyOk, Verified
    <3>2. CASE Checked
      BY <1>1, <3>2 DEF VerifyOk, Verified
    <3> QED
      BY <3>1, <3>2 DEF Assured
  <2> QED
    BY <2>1, <2>2, SameAssured DEF Installing, Contents
<1>2. CASE Rename
  BY <1>2, SameAssured DEF Rename, Installing, Contents
<1>3. CASE WaitDone
  BY <1>3 DEF WaitDone, Installing, Synced
<1>4. ASSUME NEW o \in DOMAIN task, TaskStep(o) PROVE Installing'
  <2>1. pc \in Working
    BY <1>4, Busy
       DEF Control, TaskStep, RangeReply, FullReply, SingleReply, CopyBlock, ChunkDone,
           SingleDone, AttemptFails, AttemptRetried, AttemptsExhausted, AttemptAborted,
           BackoffElapsed, BackoffCancelled, Running, Requesting
  <2>2. CASE SingleDone(o)
    BY <2>2 DEF SingleDone, Installing, Synced
  <2>3. CASE ~SingleDone(o)
    <3>1. pc' \in Working \cup {"failed"}
      BY <1>4, <2>1, <2>3
         DEF TaskStep, RangeReply, FullReply, SingleReply, CopyBlock, ChunkDone,
             AttemptFails, AttemptRetried, AttemptsExhausted, AttemptAborted,
             BackoffElapsed, BackoffCancelled, TaskFails
    <3> QED
      BY <3>1 DEF Working, Installing
  <2> QED
    BY <2>2, <2>3
<1>5. CASE HeadObject \/ HeadFails \/ PrepareSingle \/ PrepareParallel \/ PrepareFails
           \/ CheckLoop \/ Launch \/ WaitFails \/ VerifyFails \/ RenameFails \/ Restart
  <2>1. pc' \notin {"verify", "rename", "ok"}
    BY <1>5 DEF HeadObject, HeadFails, PrepareSingle, PrepareParallel, PrepareFails, MkdirFails, AllocFails,
                CheckLoop, Launch, WaitFails, VerifyFails, RenameFails, Restart
  <2> QED
    BY <2>1 DEF Installing
<1>6. CASE Interrupt \/ Overwrite \/ Exited \/ UNCHANGED vars
  <2>1. pc' = pc /\ tmp' = tmp /\ out' = out /\ head' = head /\ dirty' = dirty
    BY <1>6 DEF Interrupt, Overwrite, Exited, vars
  <2> QED
    BY <2>1, SameAssured DEF Installing, Contents
<1> QED
  BY <1>1, <1>2, <1>3, <1>4, <1>5, <1>6 DEF Next, MainStep

(* The invariant behind the theorems about the installed file. *)
Installable == Control /\ (Honest => HonestContent) /\ Installing

THEOREM InstallableInvariant == Spec => []Installable
<1>1. Init => Installable
  BY InitControl, InitHonest DEF Installable, Installing, Init
<1>2. Installable /\ [Next]_vars => Installable'
  <2> SUFFICES ASSUME Installable, [Next]_vars PROVE Installable'
    OBVIOUS
  <2>1. Control' /\ Control
    BY NextControl DEF Installable
  <2>2. (Honest => HonestContent)'
    BY <2>1, NextHonest DEF Installable, Honest
  <2>3. Installing'
    BY NextInstalling DEF Installable
  <2> QED
    BY <2>1, <2>2, <2>3 DEF Installable
<1> QED
  BY <1>1, <1>2, PTL DEF Spec

(* Whatever the server does, a Result for an object whose MD5 was checked  *)
(* is returned only when the output path holds that object - and for every *)
(* object when the server is honest (Download, verifyFileMD5).             *)
THEOREM AssuredInstalls ==
  Spec => [](pc = "ok" /\ Assured => out = Contents(head))
<1>1. Installable => (pc = "ok" /\ Assured => out = Contents(head))
  BY DEF Installable, Installing
<1> QED
  BY <1>1, InstallableInvariant, PTL

(* Download renames a temporary file whose every byte was counted, whose   *)
(* checksum is right where it is checked, and which is on disk.            *)
Replaced ==
    /\ pc = "rename" /\ pc' = "ok"
    /\ out' = tmp
    /\ Verified
    /\ dirty = {} /\ dirty' = {}

(* The output path changes in no other way: no answer of the server, no    *)
(* retry and no crash puts anything else there, and a crash after the      *)
(* rename takes nothing away (Download: fsync, verify, rename, in that     *)
(* order).                                                                 *)
THEOREM OnlyVerifiedReplaces == Spec => [][out' # out => Replaced]_vars
<1> USE DEF environment, files
<1> DEFINE Ready == pc = "rename" => Verified
<1>1. Init => Ready
  BY DEF Init
<1>2. ASSUME Control, NEW o \in DOMAIN task, TaskStep(o)
      PROVE  pc \in Working /\ pc' \notin {"rename", "ok"} /\ out' = out
  <2>1. pc \in Working
    BY <1>2, Busy
       DEF Control, TaskStep, RangeReply, FullReply, SingleReply, CopyBlock, ChunkDone,
           SingleDone, AttemptFails, AttemptRetried, AttemptsExhausted, AttemptAborted,
           BackoffElapsed, BackoffCancelled, Running, Requesting
  <2> QED
    BY <1>2, <2>1
       DEF Working, TaskStep, RangeReply, FullReply, SingleReply, CopyBlock, ChunkDone,
           SingleDone, AttemptFails, AttemptRetried, AttemptsExhausted, AttemptAborted,
           BackoffElapsed, BackoffCancelled, TaskFails
<1>3. Control /\ Ready /\ [Next]_vars => Ready'
  <2> SUFFICES ASSUME Control, Ready, [Next]_vars, pc' = "rename" PROVE Verified'
    OBVIOUS
  <2>1. /\ Verified
        /\ totalBytes' = totalBytes /\ head' = head /\ tmp' = tmp
    <3>1. CASE VerifyOk
      BY <3>1 DEF VerifyOk
    <3>2. CASE Interrupt \/ Overwrite \/ Exited \/ UNCHANGED vars
      BY <3>2 DEF Interrupt, Overwrite, Exited, vars
    <3>3. ~(\/ HeadObject \/ HeadFails \/ PrepareSingle \/ PrepareParallel
            \/ PrepareFails \/ CheckLoop \/ Launch \/ WaitDone \/ WaitFails
            \/ VerifyFails \/ Rename \/ RenameFails \/ Restart)
      BY DEF HeadObject, HeadFails, PrepareSingle, PrepareParallel, PrepareFails, MkdirFails, AllocFails,
             CheckLoop, Launch, WaitDone, WaitFails, VerifyFails, Rename, RenameFails,
             Restart
    <3> QED
      BY <1>2, <3>1, <3>2, <3>3 DEF Next, MainStep
  <2> QED
    BY <2>1 DEF Verified, Checked, Total, Contents
<1>4. Installable /\ Ready /\ [Next]_vars => [out' # out => Replaced]_vars
  <2> SUFFICES ASSUME Installable, Ready, [Next]_vars, out' # out PROVE Replaced
    OBVIOUS
  <2>1. Control
    BY DEF Installable
  <2>2. CASE Rename
    BY <2>2 DEF Rename, Replaced, Installable, Installing
  <2>3. ~Restart
    BY DEF Restart, Surviving, Installable, Installing
  <2>4. ~(\/ HeadObject \/ HeadFails \/ PrepareSingle \/ PrepareParallel
          \/ PrepareFails \/ CheckLoop \/ Launch \/ WaitDone \/ WaitFails \/ VerifyOk
          \/ VerifyFails \/ RenameFails \/ Interrupt \/ Overwrite \/ Exited)
    BY DEF HeadObject, HeadFails, PrepareSingle, PrepareParallel, PrepareFails, MkdirFails, AllocFails, CheckLoop,
           Launch, WaitDone, WaitFails, VerifyOk, VerifyFails, RenameFails, Interrupt,
           Overwrite, Exited, vars
  <2> QED
    BY <1>2, <2>1, <2>2, <2>3, <2>4 DEF Next, MainStep, vars
<1> QED
  BY <1>1, <1>3, <1>4, ControlInvariant, InstallableInvariant, PTL DEF Spec

(* With a server that answers ranges and keeps its object, or with ETags   *)
(* that are all checked, a Result is returned only when the output path    *)
(* holds the object that HEAD described: every interleaving of goroutines, *)
(* every retry, cancellation, crash and number of chunks included.         *)
THEOREM InstalledIsHeadHolds ==
  ASSUME Honest \/ AllChecked
  PROVE  Spec => []InstalledIsHead
<1>1. Installable => InstalledIsHead
  BY AllAssured DEF Installable, Installing, InstalledIsHead, Control, Phases
<1> QED
  BY <1>1, InstallableInvariant, PTL

(* Under the same assumption Download implements AtomicDownload: the path  *)
(* changes in one step, to a complete object, or not at all.               *)
THEOREM AtomicInstallHolds ==
  ASSUME Honest \/ AllChecked
  PROVE  Spec => AtomicInstall
<1> USE DEF environment, files, Terminal
<1>1. Init => Atomic!Init
  BY DEF Init, Atomic!Init
<1>2. Installable /\ [Next]_vars => [Atomic!Next]_(Atomic!vars)
  <2> SUFFICES ASSUME Installable, [Next]_vars PROVE [Atomic!Next]_(Atomic!vars)
    OBVIOUS
  <2> USE DEF Atomic!Next, Atomic!vars
  <2>1. CASE Rename
    <3>1. /\ pc = "rename" /\ pc' = "ok" /\ out' = Contents(head) /\ head \in Versions
      BY <2>1, AllAssured DEF Rename, Installable, Installing, Control, Phases
    <3> QED
      BY <3>1 DEF Atomic!Install
  <2>2. CASE Restart
    <3>1. out' = out /\ pc' = "head"
      BY <2>2 DEF Restart, Surviving, Installable, Installing
    <3> QED
      BY <3>1 DEF Atomic!Restart
  <2>3. CASE HeadFails \/ PrepareFails \/ WaitFails \/ VerifyFails \/ RenameFails
    <3>1. pc \notin Terminal /\ pc' = "failed" /\ out' = out
      BY <2>3 DEF HeadFails, PrepareFails, MkdirFails, AllocFails, WaitFails, VerifyFails, RenameFails
    <3> QED
      BY <3>1 DEF Atomic!GiveUp
  <2>4. ASSUME NEW o \in DOMAIN task, TaskStep(o) PROVE [Atomic!Next]_(Atomic!vars)
    <3>1. pc \in Working
      BY <2>4, Busy
         DEF Installable, Control, TaskStep, RangeReply, FullReply, SingleReply, CopyBlock,
             ChunkDone, SingleDone, AttemptFails, AttemptRetried, AttemptsExhausted,
             AttemptAborted, BackoffElapsed, BackoffCancelled, Running, Requesting
    <3>2. out' = out /\ pc' \in Working \cup {"verify", "failed"}
      BY <2>4, <3>1
         DEF TaskStep, RangeReply, FullReply, SingleReply, CopyBlock, ChunkDone, SingleDone,
             AttemptFails, AttemptRetried, AttemptsExhausted, AttemptAborted,
             BackoffElapsed, BackoffCancelled, TaskFails
    <3> QED
      BY <3>1, <3>2 DEF Working, Atomic!GiveUp
  <2>5. CASE HeadObject \/ PrepareSingle \/ PrepareParallel \/ CheckLoop \/ Launch
             \/ WaitDone \/ VerifyOk \/ Interrupt \/ Overwrite \/ Exited \/ UNCHANGED vars
    <3>1. out' = out /\ (pc' = pc \/ (pc \notin Terminal /\ pc' \notin Terminal))
      BY <2>5 DEF HeadObject, PrepareSingle, PrepareParallel, CheckLoop, Launch, WaitDone,
                  VerifyOk, Interrupt, Overwrite, Exited, vars
    <3> QED
      BY <3>1
  <2> QED
    BY <2>1, <2>2, <2>3, <2>4, <2>5 DEF Next, MainStep
<1> QED
  BY <1>1, <1>2, InstallableInvariant, PTL DEF Spec, AtomicInstall, Atomic!Spec
-----------------------------------------------------------------------------
(* While chunks are downloaded the file has all the cells of the object,   *)
(* and a reply being copied has no more than its chunk asked for.          *)
Bounded ==
    /\ pc \in {"loop", "acquire", "wait"} => 0 .. Total - 1 \subseteq DOMAIN tmp
    /\ \A o \in DOMAIN task :
          (Parallel /\ task[o].st = "copying") => task[o].len <= Expected(o)

LEMMA InitBounded == Init => Bounded
  BY DEF Init, Bounded

LEMMA NextBounded ==
  ASSUME FullReplies = FALSE, Control, Bounded, [Next]_vars
  PROVE  Bounded'
<1> USE DEF environment, files
<1>1. CASE HeadObject \/ HeadFails \/ PrepareSingle \/ Restart
  <2>1. /\ pc' \notin {"loop", "acquire", "wait"}
        /\ \A o \in DOMAIN task' : task'[o].st # "copying"
    <3>1. CASE HeadObject \/ HeadFails
      BY <3>1 DEF HeadObject, HeadFails, Control, Phases
    <3>2. CASE PrepareSingle
      BY <3>2 DEF PrepareSingle, NewTask
    <3>3. CASE Restart
      BY <3>3 DEF Restart
    <3> QED
      BY <1>1, <3>1, <3>2, <3>3
  <2> QED
    BY <2>1 DEF Bounded
<1>2. CASE PrepareParallel
  <2>1. DOMAIN task' = {} /\ head' = head /\ DOMAIN tmp' = 0 .. Total - 1
    BY <1>2 DEF PrepareParallel, Control, Phases, Blank
  <2> QED
    BY <2>1, SameChunks DEF Bounded
<1>3. CASE Launch
  <2>1. /\ head' = head /\ tmp' = tmp /\ pc = "acquire"
        /\ DOMAIN task' = DOMAIN task \cup {next}
        /\ task'[next].st = "attempt"
        /\ \A o \in DOMAIN task : o # next => task'[o] = task[o]
    BY <1>3 DEF Launch, NewTask
  <2> QED
    BY <2>1, SameChunks DEF Bounded
<1>4. CASE \/ PrepareFails \/ CheckLoop \/ WaitDone \/ WaitFails \/ VerifyOk \/ VerifyFails
           \/ Rename \/ RenameFails \/ Interrupt \/ Overwrite \/ Exited \/ UNCHANGED vars
  <2>1. /\ task' = task /\ head' = head
        /\ pc' \in {"loop", "acquire", "wait"}
              => tmp' = tmp /\ pc \in {"loop", "acquire", "wait"}
    BY <1>4 DEF PrepareFails, MkdirFails, AllocFails, CheckLoop, WaitDone, WaitFails, VerifyOk, VerifyFails,
                Rename, RenameFails, Interrupt, Overwrite, Exited, vars
  <2> QED
    BY <2>1, SameChunks DEF Bounded
<1>5. ASSUME NEW o \in DOMAIN task, TaskStep(o) PROVE Bounded'
  <2>1. CASE RangeReply(o)
    <3>1. /\ task[o].st = "attempt" /\ Parallel /\ pc' = pc /\ tmp' = tmp /\ head' = head
          /\ DOMAIN task' = DOMAIN task
          /\ \A p \in DOMAIN task : p # o => task'[p] = task[p]
          /\ task'[o].len = IF EndOf(o) > Size[server] THEN Size[server] - o ELSE Expected(o)
      BY <2>1 DEF RangeReply, Control, TypeOK, TaskType
    <3>2. task'[o].len <= Expected(o)
      <4>1. Size[server] \in Nat
        BY SizeType DEF Control, TypeOK
      <4> QED
        BY <3>1, <4>1, ExpectedType
    <3> QED
      BY <3>1, <3>2, SameChunks DEF Bounded
  <2>2. CASE CopyBlock(o)
    <3>1. /\ pc' = pc /\ head' = head /\ DOMAIN task' = DOMAIN task
          /\ \A p \in DOMAIN task : task'[p].st = task[p].st /\ task'[p].len = task[p].len
          /\ DOMAIN tmp \subseteq DOMAIN tmp'
      BY <2>2 DEF CopyBlock, Control, TypeOK, TaskType
    <3> QED
      BY <3>1, SameChunks DEF Bounded
  <2>3. CASE SingleReply(o) \/ SingleDone(o)
    <3>1. ~Parallel /\ head' = head /\ pc' \in {"single", "verify"}
      BY <2>3 DEF SingleReply, SingleDone, Control, Phases
    <3> QED
      BY <3>1, SameChunks DEF Bounded
  <2>4. CASE ChunkDone(o) \/ AttemptFails(o) \/ BackoffElapsed(o) \/ BackoffCancelled(o)
    <3>0. TypeOK
      BY DEF Control
    <3>1. /\ head' = head /\ DOMAIN task' = DOMAIN task
          /\ \A p \in DOMAIN task : p # o => task'[p] = task[p]
          /\ task'[o].st # "copying"
      <4>1. CASE AttemptRetried(o)
        BY <3>0, <4>1 DEF AttemptRetried, TypeOK, NewTask
      <4>2. CASE SetTask(o, "done") \/ SetTask(o, "failed") \/ SetTask(o, "attempt")
        <5>1. PICK st \in {"done", "failed", "attempt"} : SetTask(o, st)
          BY <4>2
        <5>2. /\ DOMAIN task' = DOMAIN task /\ task'[o].st = st
              /\ \A p \in DOMAIN task : p # o => task'[p] = task[p]
          BY <3>0, <5>1, MarkTask
        <5>3. head' = head
          BY <2>4 DEF ChunkDone, AttemptFails, AttemptRetried, AttemptsExhausted,
                      AttemptAborted, BackoffElapsed, BackoffCancelled, TaskFails
        <5> QED
          BY <5>1, <5>2, <5>3
      <4> QED
        BY <2>4, <4>1, <4>2
           DEF ChunkDone, AttemptFails, AttemptsExhausted, AttemptAborted,
               BackoffElapsed, BackoffCancelled, TaskFails
    <3>2. Parallel => pc' = pc /\ tmp' = tmp
      BY <2>4 DEF ChunkDone, AttemptFails, AttemptRetried, AttemptsExhausted,
                  AttemptAborted, BackoffElapsed, BackoffCancelled, TaskFails
    <3>3. ~Parallel => pc \notin {"loop", "acquire", "wait"} /\ pc' \in {pc, "failed"}
      BY <2>4 DEF ChunkDone, AttemptFails, AttemptRetried, AttemptsExhausted,
                  AttemptAborted, BackoffElapsed, BackoffCancelled, TaskFails,
                  Control, Phases
    <3> QED
      BY <3>1, <3>2, <3>3, SameChunks DEF Bounded
  <2> QED
    BY <1>5, <2>1, <2>2, <2>3, <2>4 DEF TaskStep, FullReply
<1> QED
  BY <1>1, <1>2, <1>3, <1>4, <1>5 DEF Next, MainStep

(* Two chunks do not share a cell. *)
LEMMA DisjointChunks ==
  ASSUME Control, Parallel, NEW o \in DOMAIN task, NEW d \in DOMAIN task, o # d,
         NEW p \in o .. EndOf(o) - 1, NEW i \in d .. EndOf(d) - 1
  PROVE  p # i
<1>1. /\ o \in Nat /\ d \in Nat /\ EndOf(o) \in Nat /\ EndOf(d) \in Nat
      /\ EndOf(o) <= o + ChunkSize /\ EndOf(d) <= d + ChunkSize
  BY ExpectedType, TotalType, ConfigAssumption DEF Control, Launched, EndOf
<1>2. o + ChunkSize <= d \/ d + ChunkSize <= o
  BY <1>1 DEF Control, Launched
<1> QED
  BY <1>1, <1>2, ConfigAssumption

(* When range GETs are answered with ranges, the cells of a finished chunk *)
(* are written no more: "All goroutines write to different offsets"        *)
(* (downloadParallel), whatever the object becomes on the server.          *)
THEOREM DoneChunksStableHolds ==
  ASSUME FullReplies = FALSE
  PROVE  Spec => DoneChunksStable
<1> DEFINE Stable == \A i \in DoneChunkCells :
                        (Done \subseteq Done' /\ tmp' # NoFile) => tmp'[i] = tmp[i]
<1>1. Control /\ Bounded /\ [Next]_vars => [Stable]_vars
  <2> SUFFICES ASSUME Control, Bounded, [Next]_vars,
                      NEW i \in DoneChunkCells, Done \subseteq Done', tmp' # NoFile
               PROVE  tmp'[i] = tmp[i]
    OBVIOUS
  <2> USE DEF environment, files
  <2>1. PICK d \in DOMAIN task : Parallel /\ task[d].st = "done" /\ i \in d .. EndOf(d) - 1
    BY DEF DoneChunkCells, Done
  <2>2. CASE tmp' = tmp
    BY <2>2
  <2>3. CASE PrepareParallel
    BY <2>1, <2>3 DEF PrepareParallel, Control, Phases
  <2>4. CASE Restart
    <3>1. DOMAIN task' = {}
      BY <2>4 DEF Restart
    <3> QED
      BY <2>1, <3>1 DEF Done
  <2>5. ASSUME NEW o \in DOMAIN task, CopyBlock(o) PROVE tmp'[i] = tmp[i]
    <3>1. /\ task[o].st = "copying" /\ task[o].n < task[o].len
          /\ tmp' = [j \in DOMAIN tmp \cup 0 .. o + task[o].n |->
                       IF j = o + task[o].n THEN <<task[o].ver, task[o].lo + task[o].n>>
                       ELSE IF j \in DOMAIN tmp THEN tmp[j] ELSE Hole]
      BY <2>5 DEF CopyBlock, WriteOffset
    <3>2. task[o].n \in Nat /\ task[o].len \in Nat /\ task[o].len <= Expected(o)
      BY <2>1, <3>1 DEF Bounded, Control, TypeOK, TaskType
    <3>3. o + task[o].n \in o .. EndOf(o) - 1
      BY <3>1, <3>2, ExpectedType
    <3>4. i # o + task[o].n
      BY <2>1, <3>1, <3>3, DisjointChunks
    <3>5. i \in DOMAIN tmp
      <4>1. pc \in {"loop", "acquire", "wait"}
        BY <2>1, <3>1, Busy DEF Control, Phases, Working
      <4>2. i \in 0 .. Total - 1
        BY <2>1, ExpectedType, TotalType DEF Control, Launched
      <4> QED
        BY <4>1, <4>2 DEF Bounded
    <3> QED
      BY <3>1, <3>4, <3>5
  <2>6. ASSUME NEW o \in DOMAIN task, TaskStep(o), ~CopyBlock(o) PROVE tmp' = tmp
    BY <2>1, <2>6
       DEF TaskStep, RangeReply, FullReply, SingleReply, ChunkDone, SingleDone,
           AttemptFails, AttemptRetried, AttemptsExhausted, AttemptAborted,
           BackoffElapsed, BackoffCancelled, TaskFails, Control, Phases
  <2>7. CASE PrepareFails \/ WaitFails \/ VerifyFails \/ Rename \/ RenameFails
    BY <2>7 DEF PrepareFails, MkdirFails, AllocFails, WaitFails, VerifyFails, Rename, RenameFails, CleanUp, RemoveTmp
  <2>8. CASE HeadObject \/ HeadFails \/ PrepareSingle \/ CheckLoop \/ Launch \/ WaitDone
             \/ VerifyOk \/ Interrupt \/ Overwrite \/ Exited \/ UNCHANGED vars
    BY <2>8 DEF HeadObject, HeadFails, PrepareSingle, CheckLoop, Launch, WaitDone,
                VerifyOk, Interrupt, Overwrite, Exited, vars
  <2> QED
    BY <2>2, <2>3, <2>4, <2>5, <2>6, <2>7, <2>8 DEF Next, MainStep
<1>2. Spec => []Bounded
  <2>1. Control /\ Bounded /\ [Next]_vars => Bounded'
    BY NextBounded
  <2> QED
    BY <2>1, InitBounded, ControlInvariant, PTL DEF Spec
<1> QED
  BY <1>1, <1>2, ControlInvariant, PTL DEF Spec, DoneChunksStable
=============================================================================
