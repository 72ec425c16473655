--------------------------- MODULE PrefixDownload ---------------------------
(***************************************************************************)
(* DownloadPrefix: list the objects under a prefix, then download each of  *)
(* them in a goroutine of its own, FileConcurrency at a time, skipping the *)
(* files that are there already with the right size; stop at the first     *)
(* error (FailFast) or go on and report.  The program may be killed and    *)
(* started again at any time.                                              *)
(*                                                                         *)
(* It is composed with the goroutine of ObjectListing, whose channels it   *)
(* reads; of Download it keeps what AtomicDownload says: the object is put *)
(* at the output path in one step, or the path is left alone.  The local   *)
(* file of a key is one variable's value at that key: that keys have paths *)
(* of their own is a premise, PathsApart below, which the code does not    *)
(* check.                                                                  *)
(***************************************************************************)
EXTENDS ObjectListing, LocalPaths, Functions

CONSTANTS
    Small,              \* objects of at most ChunkSize: one GET, its body without deadline
    FileConcurrency,    \* mcfg.FileConcurrency
    Interrupts,         \* may the user press Ctrl-C?
    MaxFaults,          \* bound: downloads of a run that fail on their own
    MaxRuns             \* bound: times the program is started

ASSUME PrefixAssumption ==
    /\ Small \subseteq Keys
    /\ FileConcurrency \in Int
    /\ Interrupts \in BOOLEAN
    /\ MaxFaults \in Nat
    /\ MaxRuns \in Nat

VARIABLES
    failFast,       \* mcfg.FailFast
    pc,             \* where DownloadPrefix stands
    objects,        \* what it received from the listing, in order
    file,           \* the goroutine of each key
    firstErr,       \* FailFast: "none", "canceled" or "real"
    cancelled,      \* FailFast: cancel() was called
    faults,         \* downloads of this run that failed on their own
    runs,           \* times the program was started
    err,            \* the error DownloadPrefix returned
    out             \* the local file of each key

vars == <<interrupted, bucket, listing, failFast, pc, objects, file, firstErr, cancelled,
          faults, runs, err, out>>
ctl == <<interrupted, bucket, listing, failFast, objects, runs>>

(* A local file: none, one of another size, the user's own of the same     *)
(* size, one of the object's size that was not completely written, or the  *)
(* object.                                                                 *)
FileStates == {"none", "other", "lookalike", "partial", "object"}
SameSize(f) == f \in {"lookalike", "partial", "object"}
Complete(f) == f \in {"lookalike", "object"}

(* What is downloaded: not the directory markers. *)
Objects == Keys \ Markers

(* What S3 lists: keys of their own that begin with the prefix, in which   *)
(* some segment is a name.                                                 *)
ASSUME KeysAssumption ==
    /\ Prefix \in Seq(STRING) /\ \E i \in 1 .. Len(Prefix) : Plain(Prefix[i])
    /\ \A k \in Objects :
          /\ KeyName[k] \in Seq(STRING) /\ Len(KeyName[k]) > Len(Prefix)
          /\ \A i \in 1 .. Len(Prefix) : KeyName[k][i] = Prefix[i]
    /\ \A j, k \in Objects : KeyName[j] = KeyName[k] => j = k

Ended == {"skipped", "ok", "error"}
Active == {k \in Objects : file[k] \in {"stat", "download", "canceled", "failed"}}
ctxDone == interrupted \/ cancelled
Move(k, place) == file' = [file EXCEPT ![k] = place]

Init ==
    /\ bucket \in SUBSET Keys
    /\ InitListing
    /\ failFast \in BOOLEAN
    /\ pc = "start"
    /\ objects = <<>>
    /\ file = [k \in Objects |-> "waiting"]
    /\ firstErr = "none"
    /\ cancelled = FALSE
    /\ interrupted = FALSE
    /\ faults = 0
    /\ runs = 1
    /\ err = "none"
    /\ out \in [Objects -> {"none", "other", "lookalike"}]

-----------------------------------------------------------------------------
(* if mcfg.FileConcurrency < 1 { mcfg.FileConcurrency = 4 } *)
Slots == IF FileConcurrency < 1 THEN 4 ELSE FileConcurrency

(* The output directory cannot be made; or the listing begins. *)
Start ==
    /\ pc = "start"
    /\ \/ pc' = "list" /\ UNCHANGED err
       \/ pc' = "returned" /\ err' = "setup"
    /\ UNCHANGED <<ctl, file, firstErr, cancelled, faults, out>>

Listing ==
    /\ pc = "list"
    /\ ListerStep \/ PageReply \/ PageFails
    /\ UNCHANGED <<interrupted, bucket, failFast, pc, objects, file, firstErr, cancelled,
                   faults, runs, err, out>>

(* for obj := range objectCh { objects = append(objects, obj) } *)
Receive ==
    /\ pc = "list"
    /\ objectCh # <<>>
    /\ objects' = Append(objects, Head(objectCh))
    /\ objectCh' = Tail(objectCh)
    /\ UNCHANGED <<interrupted, bucket, lister, token, page, more, errCh, failFast, pc, file,
                   firstErr, cancelled, faults, runs, err, out>>

(* objectCh is closed and drained; then errCh is looked at. *)
ListEnds ==
    /\ pc = "list"
    /\ lister = "closed"
    /\ objectCh = <<>>
    /\ err' = IF errCh # "none" THEN "list" ELSE IF objects = <<>> THEN "empty" ELSE "none"
    /\ pc' = IF err' = "none" THEN "loop" ELSE "returned"
    /\ UNCHANGED <<ctl, file, firstErr, cancelled, faults, out>>

(* The objects of this run whose goroutine is not yet launched. *)
Listed == Range(objects)
Remaining == {k \in Listed : file[k] = "waiting"}

CheckLoop ==
    /\ pc = "loop"
    /\ pc' = IF Remaining # {} /\ ~ctxDone THEN "acquire" ELSE "wait"
    /\ UNCHANGED <<ctl, file, firstErr, cancelled, faults, err, out>>

(* The deferred receive gives the slot back whatever the file's fate. *)
LeakyHolders == Active \cup {k \in Objects : file[k] = "error"}    \* mutant
Downloading == {k \in Objects : file[k] = "download"}              \* mutant
SlotHolders == Active

Launch(k) ==
    /\ pc = "acquire"
    /\ \E i \in DOMAIN objects :
          /\ k = objects[i]
          /\ \A j \in 1 .. i - 1 : file[objects[j]] # "waiting"
    /\ file[k] = "waiting"
    /\ Cardinality(SlotHolders) < Slots
    /\ Move(k, "stat")
    /\ pc' = "loop"
    /\ UNCHANGED <<ctl, firstErr, cancelled, faults, err, out>>

(* The file is there with the object's size: it is counted as skipped. *)
SkipAny(k) == out[k] # "none"                                   \* mutant
SkipSmaller(k) == out[k] = "other"                              \* mutant
Skippable(k) == SameSize(out[k])

Skip(k) ==
    /\ file[k] = "stat"
    /\ Skippable(k)
    /\ Move(k, "skipped")
    /\ UNCHANGED <<ctl, pc, firstErr, cancelled, faults, err, out>>

(* What is at the output path while Download works on a temporary file. *)
InPlace(k) == "partial"                                         \* mutant
ToTemporary(k) == out[k]

StartDownload(k) ==
    /\ file[k] = "stat"
    /\ ~Skippable(k)
    /\ Move(k, "download")
    /\ out' = [out EXCEPT ![k] = ToTemporary(k)]
    /\ UNCHANGED <<ctl, pc, firstErr, cancelled, faults, err>>

(* AtomicDownload's Install. *)
DownloadOk(k) ==
    /\ file[k] = "download"
    /\ Move(k, "ok")
    /\ out' = [out EXCEPT ![k] = "object"]
    /\ UNCHANGED <<ctl, pc, firstErr, cancelled, faults, err>>

(* AtomicDownload's GiveUp: for a reason of its own, or because of ctx. *)
DownloadFails(k) ==
    /\ file[k] = "download"
    /\ \/ /\ faults < MaxFaults
          /\ faults' = faults + 1
          /\ Move(k, "failed")
       \/ /\ ctxDone
          /\ Move(k, "canceled")
          /\ UNCHANGED faults
    /\ UNCHANGED <<ctl, pc, firstErr, cancelled, err, out>>

(* The goroutine records the error; with FailFast, under mu, the first one *)
(* is kept and cancels the others.                                         *)
AlwaysStops == TRUE                                             \* mutant
StopsOthers == failFast
LastError(e) == e                                               \* mutant
FirstError(e) == IF firstErr = "none" THEN e ELSE firstErr

RecordError(k) ==
    /\ file[k] \in {"failed", "canceled"}
    /\ IF StopsOthers
       THEN /\ firstErr' = FirstError(IF file[k] = "failed" THEN "real" ELSE "canceled")
            /\ cancelled' = TRUE
       ELSE UNCHANGED <<firstErr, cancelled>>
    /\ Move(k, "error")
    /\ UNCHANGED <<ctl, pc, faults, err, out>>

(* wg.Wait, and the result: the first error, "n of m files failed" or nil. *)
AllButOneReturned == Cardinality(Active) <= 1                   \* mutant
AllReturned == Active = {}

Errors == {k \in Objects : file[k] = "error"}
FailFastOnly == IF firstErr # "none" THEN firstErr ELSE "nil"   \* mutant
Outcome ==
    IF failFast /\ firstErr # "none" THEN firstErr
    ELSE IF Errors # {} THEN "some" ELSE "nil"

Return ==
    /\ pc = "wait"
    /\ AllReturned
    /\ pc' = "returned"
    /\ err' = Outcome
    /\ UNCHANGED <<ctl, file, firstErr, cancelled, faults, out>>

-----------------------------------------------------------------------------
Interrupt ==
    /\ Interrupts
    /\ pc # "returned"
    /\ ~interrupted
    /\ interrupted' = TRUE
    /\ UNCHANGED <<bucket, listing, failFast, pc, objects, file, firstErr, cancelled, faults,
                   runs, err, out>>

(* The program has returned or is killed, and is started again; what is at *)
(* the output paths survives, and the bucket is as it was.                 *)
Restart ==
    /\ runs < MaxRuns
    /\ runs' = runs + 1
    /\ UNCHANGED bucket
    /\ ResetListing
    /\ pc' = "start"
    /\ objects' = <<>>
    /\ file' = [k \in Objects |-> "waiting"]
    /\ firstErr' = "none"
    /\ cancelled' = FALSE
    /\ interrupted' = FALSE
    /\ faults' = 0
    /\ err' = "none"
    /\ UNCHANGED <<failFast, out>>

Exited == pc = "returned" /\ UNCHANGED vars

MainStep ==
    \/ Start \/ Receive \/ ListEnds
    \/ CheckLoop \/ (\E k \in Objects : Launch(k)) \/ Return

FileStep(k) ==
    \/ Skip(k) \/ StartDownload(k) \/ DownloadOk(k) \/ DownloadFails(k) \/ RecordError(k)

Next ==
    \/ MainStep
    \/ Listing
    \/ \E k \in Objects : FileStep(k)
    \/ Interrupt \/ Restart \/ Exited

Spec == Init /\ [][Next]_vars

(* A Download by chunks returns (ObjectDownload's ParallelTerminates), and *)
(* so does every Download when its context is done (CancelTerminates); the *)
(* body of the single GET of a small object may stall for ever.            *)
Bounded(k) == k \notin Small \/ ctxDone
FileProgress(k) ==
    \/ Skip(k) \/ StartDownload(k) \/ RecordError(k)
    \/ Bounded(k) /\ (DownloadOk(k) \/ DownloadFails(k))

(* The goroutines make progress.  Of a page nothing is assumed: its        *)
(* request ends when the context does.                                     *)
FairSpec ==
    /\ Spec
    /\ WF_vars(MainStep)
    /\ WF_vars(Listing /\ ListerStep)
    /\ \A k \in Objects : WF_vars(FileProgress(k))

-----------------------------------------------------------------------------
(* Types; the semaphore's channel never holds more than its capacity: at   *)
(* most FileConcurrency files are stat'ed or downloaded at once.           *)
TypeOK ==
    /\ ListingTypeOK
    /\ failFast \in BOOLEAN
    /\ pc \in {"start", "list", "loop", "acquire", "wait", "returned"}
    /\ objects \in Seq(Objects)
    /\ file \in [Objects -> Ended \cup {"waiting", "stat", "download", "canceled", "failed"}]
    /\ firstErr \in {"none", "canceled", "real"}
    /\ cancelled \in BOOLEAN
    /\ faults \in 0 .. MaxFaults
    /\ runs \in Nat
    /\ err \in {"none", "setup", "list", "empty", "nil", "some", "canceled", "real"}
    /\ out \in [Objects -> FileStates]
    /\ Cardinality(Active) <= Slots

(* A listing that ends without an error has brought every object that is   *)
(* under the prefix, and an empty one means that there is none: no page,   *)
(* rest of a page or object in the channel is lost, a cancellation in any  *)
(* of these places included.                                               *)
ListingComplete ==
    (pc \notin {"start", "list"} /\ err \notin {"setup", "list"}) => Listed = bucket \ Markers

(* The listing implements OrderedListing: the objects arrive in the        *)
(* bucket's order, each of them once, over the borders of pages, so that   *)
(* two goroutines never download one key; and its channels are closed      *)
(* without an error only behind the last object.                           *)
Ordered == INSTANCE OrderedListing WITH
    wanted <- bucket \ Markers,
    listed <- objects \o objectCh,
    outcome <- IF lister # "closed" THEN "running"
               ELSE IF errCh = "none" THEN "done" ELSE "failed"
ListsInOrder == Ordered!Spec

(* Two goroutines never write the same file, neither as output nor as      *)
(* temporary file (the clone of the configuration in DownloadPrefix:       *)
(* "to avoid races on Key/OutputPath").  There are keys of which this is   *)
(* not so; the instances have none of them.                                *)
PathsApart == \A j, k \in Listed : j # k => Files(j) \cap Files(k) = {}

(* nil is returned only when every object under the prefix is there,       *)
(* complete: "lists all objects under a prefix and downloads them".        *)
NilMeansComplete == err = "nil" => \A k \in bucket \ Markers : Complete(out[k])

(* That is so when there was no Ctrl-C. *)
NilMeansAll == ~interrupted => NilMeansComplete

(* A file that is skipped is complete: its size is all that is looked at,  *)
(* and that is enough because no run of the program, however it ended,     *)
(* leaves a file of that size there that it did not finish.                *)
SkippedIsComplete == \A k \in Objects : file[k] = "skipped" => Complete(out[k])

NotListed == {"setup", "list", "empty"}

(* An error is returned when, and only when, a file failed: neither lost   *)
(* nor invented by the fail-fast path.                                     *)
ErrorsReported ==
    (pc = "returned" /\ err \notin NotListed) => (err = "nil" <=> Errors = {})

(* With FailFast the error returned is not the echo of the cancellation    *)
(* that it caused itself.                                                  *)
RootCause == err = "canceled" => interrupted

(* Without FailFast one file's error keeps no other from being tried.      *)
OthersGoOn ==
    (pc = "returned" /\ err \notin NotListed /\ ~failFast /\ ~interrupted)
        => \A k \in Listed : file[k] \in Ended

(* No goroutine touches a file after DownloadPrefix returned. *)
QuietAfterReturn == pc = "returned" => Active = {}

(* What a run completed, no later run downloads again or loses: prefix     *)
(* downloads resume.                                                       *)
Resumes ==
    [][\A k \in Objects : out[k] = "object" =>
          out'[k] = "object" /\ (file[k] = "stat" => file'[k] # "download")]_vars

(* Once the objects are known DownloadPrefix returns, unless it is killed, *)
(* or a small object's GET stalls for ever (ObjectDownload's Termination   *)
(* is violated): neither errors nor slots nor the early end of the loop    *)
(* make it wait for ever.                                                  *)
Returns ==
    (\A k \in Small \cap Objects : []<>(file[k] # "download"))
        => (pc = "loop" ~> pc \in {"returned", "start"})

(* Ctrl-C ends it wherever it is, a page that never arrives included.      *)
CancelReturns == interrupted ~> (pc = "returned" \/ ~interrupted)
=============================================================================
