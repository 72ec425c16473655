------------------------------ MODULE Progress ------------------------------
(***************************************************************************)
(* The progress counters of one object downloaded by chunks: the counter   *)
(* that Download's goroutines share (countingReader, and the rollback of a *)
(* failed attempt in downloadChunkWithRetry), the callback that            *)
(* DownloadPrefix gives to Download to turn it into an aggregate, and the  *)
(* callback with which main.go publishes what it displays.                 *)
(*                                                                         *)
(* Every atomic operation of sync/atomic is a step, and so is every access *)
(* to lastReported, which is a plain variable.  A read of the body brings  *)
(* one unit.                                                               *)
(***************************************************************************)
EXTENDS Integers, FiniteSets

CONSTANTS
    Chunks,         \* the chunks of the object
    ChunkUnits,     \* reads that a chunk takes
    Pools,          \* the values of cfg.Concurrency that are considered
    MaxRetries,     \* cfg.MaxRetries
    MaxFaults,      \* bound: attempts that fail
    Modes           \* "single" (main.go's callback) and "prefix" (multi.go's)

ASSUME ProgressAssumption ==
    /\ IsFiniteSet(Chunks)
    /\ ChunkUnits \in Nat
    /\ Pools \subseteq Nat \ {0}
    /\ MaxRetries \in Nat
    /\ MaxFaults \in Nat
    /\ Modes \subseteq {"single", "prefix"}

VARIABLES
    mode,           \* whose OnProgress is called
    pool,           \* cfg.Concurrency
    counter,        \* Download's bytesCounter
    lastReported,   \* the closure variable of multi.go's OnProgress
    global,         \* DownloadPrefix's globalBytesCounter, this file's part
    liveBytes,      \* what main.go's ticker displays
    faults,         \* attempts that failed
    chunk           \* the goroutine of each chunk

vars == <<mode, pool, counter, lastReported, global, liveBytes, faults, chunk>>

(* A goroutine: where it stands, its attempt, the units of this attempt    *)
(* that the counter has, preAttemptCounter, currentCounter, the value it   *)
(* is reporting and the delta it computed.                                 *)
NewChunk == [at |-> "waiting", attempt |-> 0, got |-> 0, pre |-> 0,
             current |-> 0, val |-> 0, delta |-> 0]

Places == {"waiting", "attempt", "read", "report", "store", "add", "show",
           "rollback", "done", "failed"}
Running == {g \in Chunks : chunk[g].at \notin {"waiting", "done", "failed"}}
SomeFailed == \E g \in Chunks : chunk[g].at = "failed"
Move(g, place) == chunk' = [chunk EXCEPT ![g].at = place]
Total == ChunkUnits * Cardinality(Chunks)

Init ==
    /\ mode \in Modes
    /\ pool \in Pools
    /\ counter = 0
    /\ lastReported = 0
    /\ global = 0
    /\ liveBytes = 0
    /\ faults = 0
    /\ chunk = [g \in Chunks |-> NewChunk]

-----------------------------------------------------------------------------
(* downloadChunkWithRetry *)

Launch(g) ==
    /\ chunk[g].at = "waiting"
    /\ Cardinality(Running) < pool
    /\ Move(g, "attempt")
    /\ UNCHANGED <<mode, pool, counter, lastReported, global, liveBytes, faults>>

(* preAttemptCounter := atomic.LoadInt64(counter) *)
StartAttempt(g) ==
    /\ chunk[g].at = "attempt"
    /\ chunk' = [chunk EXCEPT ![g] = [@ EXCEPT !.at = "read", !.pre = counter, !.got = 0]]
    /\ UNCHANGED <<mode, pool, counter, lastReported, global, liveBytes, faults>>

(* countingReader.Read: newTotal := atomic.AddInt64(counter, n) *)
AddToStale(g) == chunk[g].pre + chunk[g].got + 1            \* mutant
NewTotal(g) == counter + 1

ReadBlock(g) ==
    /\ chunk[g].at = "read"
    /\ chunk[g].got < ChunkUnits
    /\ counter' = NewTotal(g)
    /\ chunk' = [chunk EXCEPT ![g] =
          [@ EXCEPT !.at = "report", !.got = chunk[g].got + 1, !.val = NewTotal(g)]]
    /\ UNCHANGED <<mode, pool, lastReported, global, liveBytes, faults>>

ChunkDone(g) ==
    /\ chunk[g].at = "read"
    /\ chunk[g].got = ChunkUnits
    /\ Move(g, "done")
    /\ UNCHANGED <<mode, pool, counter, lastReported, global, liveBytes, faults>>

(* The attempt fails, or is cancelled after a chunk failed:                *)
(* currentCounter := atomic.LoadInt64(counter).                            *)
AttemptFails(g) ==
    /\ chunk[g].at = "read"
    /\ \/ faults < MaxFaults /\ faults' = faults + 1
       \/ SomeFailed /\ UNCHANGED faults
    /\ chunk' = [chunk EXCEPT ![g] = [@ EXCEPT !.at = "rollback", !.current = counter]]
    /\ UNCHANGED <<mode, pool, counter, lastReported, global, liveBytes>>

(* if partialBytes > 0 { atomic.AddInt64(counter, -partialBytes) } *)
NoRollback(g) == 0                                          \* mutant
RollBackAll(g) == chunk[g].current                          \* mutant
Partial(g) == LET n == chunk[g].current - chunk[g].pre IN IF n > 0 THEN n ELSE 0

OneRetryMore(g) == chunk[g].attempt <= MaxRetries           \* mutant
MoreAttempts(g) == chunk[g].attempt < MaxRetries

RollBackAndRetry(g) ==
    /\ chunk[g].at = "rollback"
    /\ MoreAttempts(g)
    /\ counter' = counter - Partial(g)
    /\ chunk' = [chunk EXCEPT ![g] =
          [@ EXCEPT !.at = "attempt", !.got = 0, !.attempt = chunk[g].attempt + 1]]
    /\ UNCHANGED <<mode, pool, lastReported, global, liveBytes, faults>>

(* No attempt is left, or a chunk that failed has cancelled this one. *)
RollBackAndFail(g) ==
    /\ chunk[g].at = "rollback"
    /\ ~MoreAttempts(g) \/ SomeFailed
    /\ counter' = counter - Partial(g)
    /\ chunk' = [chunk EXCEPT ![g] = [@ EXCEPT !.at = "failed", !.got = 0]]
    /\ UNCHANGED <<mode, pool, lastReported, global, liveBytes, faults>>

-----------------------------------------------------------------------------
(* The OnProgress callbacks, called by countingReader.Read. *)

(* main.go, single file: atomic.StoreInt64(&liveBytes, newTotal) *)
ShowSingle(g) ==
    /\ chunk[g].at = "report"
    /\ mode = "single"
    /\ liveBytes' = chunk[g].val
    /\ Move(g, "read")
    /\ UNCHANGED <<mode, pool, counter, lastReported, global, faults>>

(* multi.go: delta := perFileBytes - lastReported; if delta > 0 ... *)
DeltaAlways(g) == TRUE                                      \* mutant
Increases(g) == chunk[g].val > lastReported

ReadLastReported(g) ==
    /\ chunk[g].at = "report"
    /\ mode = "prefix"
    /\ chunk' = [chunk EXCEPT ![g] =
          [@ EXCEPT !.at = IF Increases(g) THEN "store" ELSE "read",
                    !.delta = chunk[g].val - lastReported]]
    /\ UNCHANGED <<mode, pool, counter, lastReported, global, liveBytes, faults>>

(* lastReported = perFileBytes *)
KeepLast(g) == lastReported                                 \* mutant
LastFromCounter(g) == counter                               \* mutant
NewLast(g) == chunk[g].val

StoreLastReported(g) ==
    /\ chunk[g].at = "store"
    /\ lastReported' = NewLast(g)
    /\ Move(g, "add")
    /\ UNCHANGED <<mode, pool, counter, global, liveBytes, faults>>

(* newGlobal := atomic.AddInt64(&globalBytesCounter, delta) *)
AddDelta(g) ==
    /\ chunk[g].at = "add"
    /\ global' = global + chunk[g].delta
    /\ chunk' = [chunk EXCEPT ![g] = [@ EXCEPT !.at = "show", !.val = global + chunk[g].delta]]
    /\ UNCHANGED <<mode, pool, counter, lastReported, liveBytes, faults>>

(* main.go, prefix: atomic.StoreInt64(&liveBytes, newGlobal) *)
ShowPrefix(g) ==
    /\ chunk[g].at = "show"
    /\ liveBytes' = chunk[g].val
    /\ Move(g, "read")
    /\ UNCHANGED <<mode, pool, counter, lastReported, global, faults>>

(* Every goroutine has returned; none is launched after a failure. *)
Returned == Running = {} /\ (SomeFailed \/ \A g \in Chunks : chunk[g].at # "waiting")
Terminated == Returned /\ UNCHANGED vars

Next ==
    \/ \E g \in Chunks :
          \/ Launch(g) \/ StartAttempt(g) \/ ReadBlock(g) \/ ChunkDone(g)
          \/ AttemptFails(g) \/ RollBackAndRetry(g) \/ RollBackAndFail(g)
          \/ ShowSingle(g)
          \/ ReadLastReported(g) \/ StoreLastReported(g) \/ AddDelta(g) \/ ShowPrefix(g)
    \/ Terminated

Spec == Init /\ [][Next]_vars

-----------------------------------------------------------------------------
(* Types; nothing is assumed of the sign of the counters. *)
TypeOK ==
    /\ mode \in Modes
    /\ pool \in Pools
    /\ {counter, lastReported, global, liveBytes} \subseteq Int
    /\ faults \in 0 .. MaxFaults
    /\ chunk \in [Chunks -> [at : Places, attempt : 0 .. MaxRetries, got : 0 .. ChunkUnits,
                             pre : Int, current : Int, val : Int, delta : Int]]

(* The counter is the number of units that finished chunks and attempts    *)
(* under way have read: a rollback takes back what its own attempt counted *)
(* and nothing else (the comment on downloadChunkWithRetry).               *)
UnitsRead == {u \in Chunks \X (1 .. ChunkUnits) : u[2] <= chunk[u[1]].got}
CounterExact == counter = Cardinality(UnitsRead)

(* That is so with one goroutine at a time, and as long as nothing fails.  *)
Undisturbed == pool = 1 \/ faults = 0
CounterMatches == Undisturbed => CounterExact

(* The aggregate never counts more than the object has (the percentage     *)
(* that main.go displays stays within 100).                                *)
AggregateWithinTotal == global <= Total

(* That is so with one goroutine at a time.                                *)
AggregateBounded == pool = 1 => AggregateWithinTotal

(* When the chunks have all been downloaded the aggregate has them all:    *)
(* the deltas of multi.go's callback lose nothing.                         *)
AggregateComplete ==
    (Undisturbed /\ mode = "prefix" /\ \A g \in Chunks : chunk[g].at = "done")
        => global >= Total

(* The aggregate never goes back, although the counter under it does.      *)
AggregateMonotone == [][global' >= global]_vars

(* At the end of a download by one goroutine at a time main.go shows all   *)
(* of it, after failed attempts too.                                       *)
DisplayComplete ==
    (pool = 1 /\ \A g \in Chunks : chunk[g].at = "done") => liveBytes = Total
=============================================================================
