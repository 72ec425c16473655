--------------------------- MODULE ObjectDownload ---------------------------
(***************************************************************************)
(* One call of downloader.Download: HEAD, then either one GET (small       *)
(* object) or range GETs by a bounded pool of goroutines into one          *)
(* preallocated temporary file, with retries, then fsync, the size and MD5 *)
(* checks and the rename over the output path.                             *)
(*                                                                         *)
(* A file or an object is a function from cell numbers 0 .. n-1 to cells;  *)
(* a cell stands for any run of bytes that is always written together.     *)
(* The cell of an object says which version it belongs to and where, so    *)
(* two different contents are never equal.  A chunk is known by the offset *)
(* it starts at.  The single GET of a small object is the task at offset 0.*)
(***************************************************************************)
EXTENDS Integers, FiniteSets

CONSTANTS
    Versions,           \* contents the object has on the server at some time
    Size,               \* Size[v]: number of cells of version v
    SimpleETags,        \* versions whose ETag is an MD5 (isSimpleETag)
    ChunkSize,          \* cfg.ChunkSize, in cells
    Concurrency,        \* cfg.Concurrency
    MaxRetries,         \* cfg.MaxRetries
    SkipChecksumVerify, \* cfg.SkipChecksumVerify
    FullReplies,        \* may the server answer 200 to a range GET?
    HeadFaults,         \* may a HEAD request fail?
    DiskFaults,         \* may mkdir, fallocate, fsync, rename or remove fail?
    MaxOverwrites,      \* bound: times the object is replaced during runs
    MaxRuns,            \* bound: times the program is started
    NoVersion,          \* not known yet
    NoFile,             \* no file at that path
    Hole,               \* a cell that was allocated and not written
    Prior               \* what the output path holds before the first run

ASSUME SizeAssumption == Size \in [Versions -> Nat]
ASSUME ConfigAssumption ==
    /\ ChunkSize \in Nat \ {0}
    /\ Concurrency \in Nat \ {0}
    /\ MaxRetries \in Nat
    /\ MaxOverwrites \in Nat
    /\ MaxRuns \in Nat
    /\ SimpleETags \subseteq Versions
    /\ {SkipChecksumVerify, FullReplies, HeadFaults, DiskFaults} \subseteq BOOLEAN
ASSUME SentinelAssumption == NoVersion \notin Versions

VARIABLES
    server,     \* the version the server holds
    overwrites, \* times it was replaced while the program ran
    runs,       \* times the program was started
    interrupted,\* the parent context is cancelled (Ctrl-C)
    faults,     \* history: HEAD and GET attempts of this run that failed on their own
    pc,         \* where Download stands
    head,       \* the version the HEAD request described
    next,       \* downloadParallel: start of the next chunk to launch
    task,       \* the goroutines launched, by start offset
    firstErr,   \* downloadParallel's firstErr, or how the single GET ended
    cancelled,  \* downloadParallel called cancel()
    totalBytes, \* downloadParallel's totalWritten, downloadSingle's n
    tmp,        \* the temporary file
    dirty,      \* its cells that are written and not yet on disk
    out         \* the output path

environment == <<server, overwrites, runs, interrupted>>
files == <<tmp, dirty, out>>
vars == <<server, overwrites, runs, interrupted, faults, pc, head, next, task,
          firstErr, cancelled, totalBytes, tmp, dirty, out>>

Cell == {Hole} \cup (Versions \X Nat)
Contents(v) == [i \in 0 .. Size[v] - 1 |-> <<v, i>>]

(* preallocateFile empties a file that is already there (O_TRUNC).         *)
NotTruncated(n) ==                                          \* mutant
    [i \in (0 .. n - 1) \cup (IF tmp = NoFile THEN {} ELSE DOMAIN tmp) |->
        IF tmp # NoFile /\ i \in DOMAIN tmp THEN tmp[i] ELSE Hole]
Blank(n) == [i \in 0 .. n - 1 |-> Hole]

Total == Size[head]
Parallel == Total > ChunkSize
ctxDone == interrupted \/ cancelled

(* The cells task o asks for: a chunk [o, end), or the whole object. *)
EndOf(o) ==
    IF ~Parallel \/ o + ChunkSize > Total THEN Total ELSE o + ChunkSize
Expected(o) == EndOf(o) - o

Requesting == {"attempt", "copying"}
Running(o) == o \in DOMAIN task /\ task[o].st \in Requesting
Active == {o \in DOMAIN task : task[o].st \in {"attempt", "copying", "backoff"}}
Done == {o \in DOMAIN task : task[o].st = "done"}
Terminal == {"ok", "failed"}

NewTask == [st |-> "attempt", attempt |-> 0, ver |-> NoVersion,
            lo |-> 0, len |-> 0, n |-> 0]

SetTask(o, st) == task' = [task EXCEPT ![o].st = st]

-----------------------------------------------------------------------------
Init ==
    /\ server \in Versions
    /\ overwrites = 0
    /\ runs = 1
    /\ interrupted = FALSE
    /\ faults = 0
    /\ pc = "head"
    /\ head = NoVersion
    /\ next = 0
    /\ task = [o \in {} |-> NewTask]
    /\ firstErr = "none"
    /\ cancelled = FALSE
    /\ totalBytes = 0
    /\ tmp = NoFile
    /\ dirty = {}
    /\ out = Prior

(* os.Remove, whose error nobody looks at. *)
RemoveTmp ==
    \/ tmp' = NoFile /\ dirty' = {}
    \/ DiskFaults /\ UNCHANGED <<tmp, dirty>>

-----------------------------------------------------------------------------
(* Download: HEAD, and the choice between the two ways to download. *)

HeadObject ==
    /\ pc = "head"
    /\ pc' = "prepare"
    /\ head' = server
    /\ UNCHANGED <<environment, faults, next, task, firstErr, cancelled,
                   totalBytes, files>>

(* headObject is not retried, and its error leaves a stale temporary file. *)
HeadFails ==
    /\ pc = "head"
    /\ \/ interrupted /\ UNCHANGED faults
       \/ ~interrupted /\ HeadFaults /\ faults' = faults + 1
    /\ pc' = "failed"
    /\ UNCHANGED <<environment, head, next, task, firstErr, cancelled,
                   totalBytes, files>>

PrepareSingle ==
    /\ pc = "prepare"
    /\ ~Parallel
    /\ pc' = "single"
    /\ task' = [o \in {0} |-> NewTask]
    /\ UNCHANGED <<environment, faults, head, next, firstErr, cancelled,
                   totalBytes, files>>

PrepareParallel ==
    /\ pc = "prepare"
    /\ Parallel
    /\ pc' = "loop"
    /\ tmp' = Blank(Total)
    /\ dirty' = {}
    /\ UNCHANGED <<environment, faults, head, next, task, firstErr, cancelled,
                   totalBytes, out>>

(* MkdirAll's error is returned at once: a stale temporary file stays.     *)
MkdirFails ==
    /\ pc = "prepare"
    /\ DiskFaults
    /\ pc' = "failed"
    /\ UNCHANGED <<environment, faults, head, next, task, firstErr, cancelled,
                   totalBytes, files>>

(* The parallel download cannot open or preallocate its file.              *)
AllocFails ==
    /\ pc = "prepare"
    /\ Parallel
    /\ DiskFaults
    /\ pc' = "failed"
    /\ RemoveTmp
    /\ UNCHANGED <<environment, faults, head, next, task, firstErr, cancelled,
                   totalBytes, out>>

PrepareFails == MkdirFails \/ AllocFails

-----------------------------------------------------------------------------
(* downloadParallel: the launching loop and the wait for the goroutines. *)

CheckLoop ==
    /\ pc = "loop"
    /\ pc' = IF next < Total /\ ~ctxDone THEN "acquire" ELSE "wait"
    /\ UNCHANGED <<environment, faults, head, next, task, firstErr, cancelled,
                   totalBytes, files>>

(* The deferred receive gives the slot back however the goroutine ends. *)
LeakyHolders == {o \in DOMAIN task : task[o].st # "done"}   \* mutant
SlotHolders == Active

Launch ==
    /\ pc = "acquire"
    /\ Cardinality(SlotHolders) < Concurrency
    /\ pc' = "loop"
    /\ next' = next + ChunkSize
    /\ task' = [o \in DOMAIN task \cup {next} |->
                   IF o = next THEN NewTask ELSE task[o]]
    /\ UNCHANGED <<environment, faults, head, firstErr, cancelled, totalBytes,
                   files>>

AllButOneReturned == Cardinality(Active) <= 1               \* mutant
AllReturned == Active = {}

(* fsync: nothing written before it can be lost by a crash any more. *)
NoSync == dirty                                             \* mutant
Synced == {}

WaitDone ==
    /\ pc = "wait"
    /\ AllReturned
    /\ firstErr = "none"
    /\ pc' = "verify"
    /\ dirty' = Synced
    /\ UNCHANGED <<environment, faults, head, next, task, firstErr, cancelled,
                   totalBytes, tmp, out>>

WaitFails ==
    /\ pc = "wait"
    /\ AllReturned
    /\ firstErr # "none" \/ DiskFaults
    /\ pc' = "failed"
    /\ RemoveTmp
    /\ UNCHANGED <<environment, faults, head, next, task, firstErr, cancelled,
                   totalBytes, out>>

-----------------------------------------------------------------------------
(* downloadChunk and downloadSingle: one attempt. *)

(* 206: the part of the range that the object has. *)
RangeReply(o) ==
    /\ o \in DOMAIN task
    /\ Parallel
    /\ task[o].st = "attempt"
    /\ o < Size[server]
    /\ task' = [task EXCEPT ![o] =
          [@ EXCEPT !.st = "copying", !.ver = server, !.lo = o, !.n = 0,
                    !.len = IF EndOf(o) > Size[server]
                            THEN Size[server] - o ELSE Expected(o)]]
    /\ UNCHANGED <<environment, faults, pc, head, next, firstErr, cancelled,
                   totalBytes, files>>

(* 200: the whole object, which downloadChunk accepts like a 206. *)
FullReply(o) ==
    /\ o \in DOMAIN task
    /\ Parallel
    /\ FullReplies
    /\ task[o].st = "attempt"
    /\ task' = [task EXCEPT ![o] =
          [@ EXCEPT !.st = "copying", !.ver = server, !.lo = 0, !.n = 0,
                    !.len = Size[server]]]
    /\ UNCHANGED <<environment, faults, pc, head, next, firstErr, cancelled,
                   totalBytes, files>>

(* The single GET preallocates the file when it has an answer to put       *)
(* there.  The answer's length is the object's: that of an object replaced *)
(* after the HEAD is where it differs from what HEAD said.                 *)
SingleReply(o) ==
    /\ pc = "single"
    /\ o \in DOMAIN task
    /\ task[o].st = "attempt"
    /\ task' = [task EXCEPT ![o] =
          [@ EXCEPT !.st = "copying", !.ver = server, !.lo = 0, !.n = 0,
                    !.len = Size[server]]]
    /\ tmp' = Blank(Total)
    /\ dirty' = {}
    /\ UNCHANGED <<environment, faults, pc, head, next, firstErr, cancelled,
                   totalBytes, out>>

(* Where SectionWriter writes the next cell of task o's reply. *)
WriteAtFileStart(o) == task[o].n                            \* mutant
WriteOffset(o) == o + task[o].n

(* One read of the body and one WriteAt; writing past the end extends the  *)
(* file.                                                                   *)
CopyBlock(o) ==
    /\ o \in DOMAIN task
    /\ task[o].st = "copying"
    /\ task[o].n < task[o].len
    /\ LET p == WriteOffset(o)
           cell == <<task[o].ver, task[o].lo + task[o].n>>
       IN  /\ tmp' = [i \in DOMAIN tmp \cup 0 .. p |->
                         IF i = p THEN cell
                         ELSE IF i \in DOMAIN tmp THEN tmp[i] ELSE Hole]
           /\ dirty' = dirty \cup {p}
    /\ task' = [task EXCEPT ![o].n = @ + 1]
    /\ UNCHANGED <<environment, faults, pc, head, next, firstErr, cancelled,
                   totalBytes, out>>

ChunkDone(o) ==
    /\ o \in DOMAIN task
    /\ Parallel
    /\ task[o].st = "copying"
    /\ task[o].n = task[o].len
    /\ task[o].n = Expected(o)
    /\ SetTask(o, "done")
    /\ totalBytes' = totalBytes + task[o].n
    /\ UNCHANGED <<environment, faults, pc, head, next, firstErr, cancelled,
                   files>>

(* The single GET takes whatever length it gets; Download compares later. *)
SingleDone(o) ==
    /\ pc = "single"
    /\ o \in DOMAIN task
    /\ task[o].st = "copying"
    /\ task[o].n = task[o].len
    /\ SetTask(o, "done")
    /\ pc' = "verify"
    /\ totalBytes' = task[o].n
    /\ dirty' = Synced
    /\ UNCHANGED <<environment, faults, head, next, firstErr, cancelled, tmp,
                   out>>

-----------------------------------------------------------------------------
(* downloadChunkWithRetry and downloadSingleWithRetry. *)

LastError(e) == e                                           \* mutant
FirstError(e) == IF firstErr = "none" THEN e ELSE firstErr

(* The task returns an error: a chunk's cancels the others, the single     *)
(* GET's is returned, and Download removes the temporary file.             *)
TaskFails(o, e) ==
    /\ SetTask(o, "failed")
    /\ firstErr' = FirstError(e)
    /\ cancelled' = Parallel
    /\ \/ /\ Parallel
          /\ UNCHANGED <<pc, tmp, dirty>>
       \/ /\ ~Parallel
          /\ pc' = "failed"
          /\ RemoveTmp
    /\ UNCHANGED <<environment, head, next, totalBytes, out>>

OneRetryFewer(o) == task[o].attempt + 1 < MaxRetries        \* mutant
OneRetryMore(o) == task[o].attempt <= MaxRetries            \* mutant
MoreAttempts(o) == task[o].attempt < MaxRetries

(* An attempt ends with an error - a refused or broken connection, a       *)
(* status, a timeout, a disk error and, for a chunk, a body of the wrong   *)
(* size - and there is another attempt to make.                            *)
AttemptRetried(o) ==
    /\ Running(o)
    /\ ~ctxDone
    /\ MoreAttempts(o)
    /\ faults' = faults + 1
    /\ task' = [task EXCEPT ![o] =
          [NewTask EXCEPT !.st = "backoff", !.attempt = task[o].attempt + 1]]
    /\ UNCHANGED <<environment, pc, head, next, firstErr, cancelled,
                   totalBytes, files>>

AttemptsExhausted(o) ==
    /\ Running(o)
    /\ ~ctxDone
    /\ ~MoreAttempts(o)
    /\ faults' = faults + 1
    /\ TaskFails(o, "exhausted")

(* ... or the context is done and the error is ctx.Err(). *)
AttemptAborted(o) ==
    /\ Running(o)
    /\ ctxDone
    /\ TaskFails(o, "canceled")
    /\ UNCHANGED faults

AttemptFails(o) == AttemptRetried(o) \/ AttemptsExhausted(o) \/ AttemptAborted(o)

BackoffElapsed(o) ==
    /\ o \in DOMAIN task
    /\ task[o].st = "backoff"
    /\ SetTask(o, "attempt")
    /\ IF Parallel THEN UNCHANGED <<tmp, dirty>> ELSE RemoveTmp
    /\ UNCHANGED <<environment, faults, pc, head, next, firstErr, cancelled,
                   totalBytes, out>>

BackoffCancelled(o) ==
    /\ o \in DOMAIN task
    /\ task[o].st = "backoff"
    /\ ctxDone
    /\ TaskFails(o, "canceled")
    /\ UNCHANGED faults

-----------------------------------------------------------------------------
(* Download: the checks and the rename. *)

Checked == ~SkipChecksumVerify /\ head \in SimpleETags

ChecksumOnly == Checked => tmp = Contents(head)             \* mutant
SizeOnly == totalBytes = Total                              \* mutant
Verified == totalBytes = Total /\ (Checked => tmp = Contents(head))

VerifyOk ==
    /\ pc = "verify"
    /\ Verified
    /\ pc' = "rename"
    /\ UNCHANGED <<environment, faults, head, next, task, firstErr, cancelled,
                   totalBytes, files>>

LeaveTmp == UNCHANGED <<tmp, dirty>>                        \* mutant
CleanUp == RemoveTmp

(* ... or the file cannot be read for the checksum. *)
VerifyFails ==
    /\ pc = "verify"
    /\ ~Verified \/ (Checked /\ DiskFaults)
    /\ pc' = "failed"
    /\ CleanUp
    /\ UNCHANGED <<environment, faults, head, next, task, firstErr, cancelled,
                   totalBytes, out>>

Rename ==
    /\ pc = "rename"
    /\ pc' = "ok"
    /\ out' = tmp
    /\ tmp' = NoFile
    /\ UNCHANGED <<environment, faults, head, next, task, firstErr, cancelled,
                   totalBytes, dirty>>

RenameFails ==
    /\ pc = "rename"
    /\ DiskFaults
    /\ pc' = "failed"
    /\ CleanUp
    /\ UNCHANGED <<environment, faults, head, next, task, firstErr, cancelled,
                   totalBytes, out>>

-----------------------------------------------------------------------------
(* What happens around the call. *)

Interrupt ==
    /\ pc \notin Terminal
    /\ ~interrupted
    /\ interrupted' = TRUE
    /\ UNCHANGED <<server, overwrites, runs, faults, pc, head, next, task,
                   firstErr, cancelled, totalBytes, files>>

(* Another client replaces the object. *)
Overwrite ==
    /\ overwrites < MaxOverwrites
    /\ overwrites' = overwrites + 1
    /\ server' \in Versions \ {server}
    /\ UNCHANGED <<runs, interrupted, faults, pc, head, next, task, firstErr,
                   cancelled, totalBytes, files>>

Surviving(f, lost) ==
    IF lost = {} THEN f ELSE [i \in DOMAIN f |-> IF i \in lost THEN Hole ELSE f[i]]

(* The program returned, or it dies at any point, and it is started again. *)
(* A power failure loses cells of the file being written that were not     *)
(* synced; that file is tmp, or out once it is renamed.  By then the       *)
(* object may be another one.                                              *)
Restart ==
    /\ runs < MaxRuns
    /\ runs' = runs + 1
    /\ server' \in Versions
    /\ \E lost \in SUBSET dirty :
          \/ pc # "ok" /\ tmp' = Surviving(tmp, lost) /\ UNCHANGED out
          \/ pc = "ok" /\ out' = Surviving(out, lost) /\ UNCHANGED tmp
    /\ dirty' = {}
    /\ interrupted' = FALSE
    /\ faults' = 0
    /\ pc' = "head"
    /\ head' = NoVersion
    /\ next' = 0
    /\ task' = [o \in {} |-> NewTask]
    /\ firstErr' = "none"
    /\ cancelled' = FALSE
    /\ totalBytes' = 0
    /\ UNCHANGED overwrites

(* The process has exited and is not started again. *)
Exited == pc \in Terminal /\ UNCHANGED vars

-----------------------------------------------------------------------------
(* The goroutine of Download itself. *)
MainStep ==
    \/ HeadObject \/ HeadFails
    \/ PrepareSingle \/ PrepareParallel \/ PrepareFails
    \/ CheckLoop \/ Launch \/ WaitDone \/ WaitFails
    \/ VerifyOk \/ VerifyFails \/ Rename \/ RenameFails

TaskStep(o) ==
    \/ RangeReply(o) \/ FullReply(o) \/ SingleReply(o)
    \/ CopyBlock(o) \/ ChunkDone(o) \/ SingleDone(o)
    \/ AttemptFails(o) \/ BackoffElapsed(o) \/ BackoffCancelled(o)

Next ==
    \/ MainStep
    \/ \E o \in DOMAIN task : TaskStep(o)
    \/ Interrupt \/ Overwrite \/ Restart \/ Exited

Spec == Init /\ [][Next]_vars

(* A chunk attempt runs under context.WithTimeout(ctx, ChunkTimeout); the  *)
(* single GET has only the transport's ResponseHeaderTimeout and ctx.      *)
NoContext(o) ==                                             \* mutant
    /\ o \in DOMAIN task
    /\ Parallel \/ task[o].st = "attempt"
    /\ AttemptFails(o)
TimesOut(o) ==
    /\ o \in DOMAIN task
    /\ Parallel \/ task[o].st = "attempt" \/ ctxDone
    /\ AttemptFails(o)

Offsets == UNION {0 .. Size[v] : v \in Versions}

(* Download's own steps, the end of a copy, the backoff timer and the      *)
(* timeouts happen; nothing is assumed of the server's answers or of the   *)
(* speed of a body.                                                        *)
Fairness ==
    /\ WF_vars(MainStep)
    /\ \A o \in Offsets :
          /\ WF_vars(ChunkDone(o) \/ SingleDone(o))
          /\ WF_vars(TimesOut(o))
          /\ WF_vars(BackoffElapsed(o) \/ BackoffCancelled(o))

FairSpec == Spec /\ Fairness

-----------------------------------------------------------------------------
TaskType == [st : {"attempt", "copying", "backoff", "done", "failed"},
             attempt : 0 .. MaxRetries, ver : Versions \cup {NoVersion},
             lo : Nat, len : Nat, n : Nat]

(* Every variable has its type; a chunk makes at most MaxRetries + 1       *)
(* attempts, numbered from 0 (downloadChunkWithRetry).                     *)
TypeOK ==
    /\ server \in Versions
    /\ overwrites \in 0 .. MaxOverwrites
    /\ runs \in Nat
    /\ interrupted \in BOOLEAN
    /\ faults \in Nat
    /\ pc \in {"head", "prepare", "single", "loop", "acquire", "wait",
               "verify", "rename", "ok", "failed"}
    /\ head \in Versions \cup {NoVersion}
    /\ next \in Nat
    /\ DOMAIN task \subseteq Nat
    /\ task \in [DOMAIN task -> TaskType]
    /\ firstErr \in {"none", "canceled", "exhausted"}
    /\ cancelled \in BOOLEAN
    /\ totalBytes \in Nat
    /\ dirty \subseteq Nat

(* A Result is returned only when the output path holds, cell for cell,    *)
(* the object that HEAD described (Download returns nil after the rename). *)
InstalledIsHead == pc = "ok" => out = Contents(head)

(* Once Download verifies, renames or returns, no goroutine of it can      *)
(* still write to the file (wg.Wait, the deferred releases).               *)
QuiescentTail == pc \in {"verify", "rename"} \cup Terminal => Active = {}

(* "context canceled" is reported as the cause only when the caller did    *)
(* cancel: the errors of the chunks that cancel() stops never hide the     *)
(* error that made a chunk call it (firstErr under mu).                    *)
RootCause == firstErr = "canceled" => interrupted

(* A download that was not interrupted fails only after more failed        *)
(* attempts than the retries it was allowed (--max-retries, "Automatic     *)
(* retries with jitter for transient errors").                             *)
TransientFaultsTolerated == pc = "failed" /\ ~interrupted => faults > MaxRetries

(* Once the object is known, Download never returns with the temporary     *)
(* file left behind ("Clean up on failure", and the rename); of a disk     *)
(* that works, for a failing os.Remove is not noticed.                     *)
NoLitter == pc \in Terminal /\ head # NoVersion => tmp = NoFile

(* No step of a run changes a cell of a chunk that is already downloaded:  *)
(* goroutines write to different offsets of the file.                      *)
DoneChunkCells == {i \in UNION {o .. EndOf(o) - 1 : o \in Done} : Parallel}
DoneChunksStable ==
    [][\A i \in DoneChunkCells :
          (Done \subseteq Done' /\ tmp' # NoFile) => tmp'[i] = tmp[i]]_vars

(* Download implements the promise of AtomicDownload: the output path      *)
(* changes only to the complete contents of some version, in one step.     *)
Atomic == INSTANCE AtomicDownload WITH
    Objects <- {Contents(v) : v \in Versions},
    outcome <- IF pc \in Terminal THEN pc ELSE "running"
AtomicInstall == Atomic!Spec

(* A download by chunks returns, whatever the server does, unless the      *)
(* process dies first.                                                     *)
ParallelTerminates == pc = "loop" ~> pc \in Terminal \cup {"head"}

(* ... and so does every download ("individual requests manage their own   *)
(* [timeout] via context", newHTTPClient).                                 *)
Termination == pc = "head" ~> pc \in Terminal

(* After Ctrl-C Download returns, unless the process dies first. *)
CancelTerminates == interrupted ~> pc \in Terminal \/ ~interrupted
=============================================================================
