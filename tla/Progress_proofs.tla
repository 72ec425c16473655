-------------------------- MODULE Progress_proofs --------------------------
(***************************************************************************)
(* Theorems of Progress: types, an aggregate that never goes back, and     *)
(* what is counted and displayed with one goroutine at a time, for any     *)
(* number of chunks, reads, attempts and failures.                         *)
(***************************************************************************)
EXTENDS Progress, FiniteSetTheorems, TLAPS

ChunkType == [at : Places, attempt : 0 .. MaxRetries, got : 0 .. ChunkUnits,
              pre : Int, current : Int, val : Int, delta : Int]

(* A delta that waits to be added is positive.                             *)
Growing == \A g \in Chunks : chunk[g].at \in {"store", "add"} => chunk[g].delta > 0

Types == TypeOK /\ Growing

-----------------------------------------------------------------------------
(* One goroutine's step.                                                   *)
LEMMA PutChunk ==
    ASSUME Types, NEW g \in Chunks, NEW q \in ChunkType, chunk' = [chunk EXCEPT ![g] = q],
           q.at \in {"store", "add"} => q.delta > 0
    PROVE  chunk' \in [Chunks -> ChunkType] /\ Growing'
<1>1. chunk \in [Chunks -> ChunkType]
  BY DEF Types, TypeOK, ChunkType
<1>2. chunk' \in [Chunks -> ChunkType]
  BY <1>1
<1>3. \A h \in Chunks : chunk'[h] = IF h = g THEN q ELSE chunk[h]
  BY <1>1
<1> QED
  BY <1>2, <1>3 DEF Types, Growing

LEMMA TypesInitial == Init => Types
<1> SUFFICES ASSUME Init PROVE Types
  OBVIOUS
<1>1. NewChunk \in ChunkType
  BY ProgressAssumption DEF NewChunk, ChunkType, Places
<1>2. chunk \in [Chunks -> ChunkType] /\ \A g \in Chunks : chunk[g].at = "waiting"
  BY <1>1 DEF Init, NewChunk
<1>3. faults \in 0 .. MaxFaults
  BY ProgressAssumption DEF Init
<1> QED
  BY <1>2, <1>3 DEF Init, Types, TypeOK, ChunkType, Growing

(* Every action of a goroutine: what it puts into its record and how it    *)
(* moves the counters.                                                     *)
ChunkStep(g) ==
    \/ Launch(g) \/ StartAttempt(g) \/ ReadBlock(g) \/ ChunkDone(g)
    \/ AttemptFails(g) \/ RollBackAndRetry(g) \/ RollBackAndFail(g)
    \/ ShowSingle(g)
    \/ ReadLastReported(g) \/ StoreLastReported(g) \/ AddDelta(g) \/ ShowPrefix(g)

LEMMA TypesStep == Types /\ [Next]_vars => Types'
<1> SUFFICES ASSUME Types, [Next]_vars PROVE Types'
  OBVIOUS
<1>0. /\ mode \in Modes /\ pool \in Pools /\ counter \in Int /\ lastReported \in Int
      /\ global \in Int /\ liveBytes \in Int /\ faults \in 0 .. MaxFaults
      /\ chunk \in [Chunks -> ChunkType] /\ Growing
  BY DEF Types, TypeOK, ChunkType
<1>1. ASSUME UNCHANGED <<mode, pool>>, counter' \in Int, lastReported' \in Int, global' \in Int,
             liveBytes' \in Int, faults' \in 0 .. MaxFaults, chunk' \in [Chunks -> ChunkType],
             Growing'
      PROVE  Types'
  BY <1>0, <1>1 DEF Types, TypeOK, ChunkType
<1>2. ASSUME NEW g \in Chunks, ChunkStep(g) PROVE Types'
  <2>0. chunk[g] \in ChunkType
    BY <1>0
  <2>1. CASE Launch(g)
    <3> DEFINE q == [chunk[g] EXCEPT !.at = "attempt"]
    <3>1. chunk' = [chunk EXCEPT ![g] = q]
      BY <2>1, <1>0 DEF Launch, Move, ChunkType
    <3>2. q \in ChunkType /\ q.at = "attempt"
      BY <2>0 DEF ChunkType, Places
    <3> HIDE DEF q
    <3> QED
      BY <1>0, <1>1, <2>1, <3>1, <3>2, PutChunk DEF Launch
  <2>2. CASE StartAttempt(g)
    <3> DEFINE q == [chunk[g] EXCEPT !.at = "read", !.pre = counter, !.got = 0]
    <3>1. chunk' = [chunk EXCEPT ![g] = q]
      BY <2>2 DEF StartAttempt
    <3>2. 0 \in 0 .. ChunkUnits
      BY ProgressAssumption
    <3>3. q \in ChunkType /\ q.at = "read"
      BY <1>0, <2>0, <3>2 DEF ChunkType, Places
    <3> HIDE DEF q
    <3> QED
      BY <1>0, <1>1, <2>2, <3>1, <3>3, PutChunk DEF StartAttempt
  <2>3. CASE ReadBlock(g)
    <3> DEFINE q == [chunk[g] EXCEPT !.at = "report", !.got = chunk[g].got + 1, !.val = NewTotal(g)]
    <3>1. chunk' = [chunk EXCEPT ![g] = q]
      BY <2>3 DEF ReadBlock
    <3>2. chunk[g].got + 1 \in 0 .. ChunkUnits /\ NewTotal(g) \in Int
      BY <1>0, <2>0, <2>3, ProgressAssumption DEF ReadBlock, NewTotal, ChunkType
    <3>3. q \in ChunkType /\ q.at = "report"
      BY <2>0, <3>2 DEF ChunkType, Places
    <3> HIDE DEF q
    <3> QED
      BY <1>0, <1>1, <2>3, <3>1, <3>2, <3>3, PutChunk DEF ReadBlock
  <2>4. CASE ChunkDone(g)
    <3> DEFINE q == [chunk[g] EXCEPT !.at = "done"]
    <3>1. chunk' = [chunk EXCEPT ![g] = q]
      BY <2>4, <1>0 DEF ChunkDone, Move, ChunkType
    <3>2. q \in ChunkType /\ q.at = "done"
      BY <2>0 DEF ChunkType, Places
    <3> HIDE DEF q
    <3> QED
      BY <1>0, <1>1, <2>4, <3>1, <3>2, PutChunk DEF ChunkDone
  <2>5. CASE AttemptFails(g)
    <3> DEFINE q == [chunk[g] EXCEPT !.at = "rollback", !.current = counter]
    <3>1. chunk' = [chunk EXCEPT ![g] = q]
      BY <2>5 DEF AttemptFails
    <3>2. q \in ChunkType /\ q.at = "rollback"
      BY <1>0, <2>0 DEF ChunkType, Places
    <3>3. faults' \in 0 .. MaxFaults
      BY <1>0, <2>5, ProgressAssumption DEF AttemptFails
    <3> HIDE DEF q
    <3> QED
      BY <1>0, <1>1, <2>5, <3>1, <3>2, <3>3, PutChunk DEF AttemptFails
  <2>6. Partial(g) \in Int /\ Partial(g) >= 0
    BY <2>0 DEF Partial, ChunkType
  <2>7. CASE RollBackAndRetry(g)
    <3> DEFINE q == [chunk[g] EXCEPT !.at = "attempt", !.got = 0, !.attempt = chunk[g].attempt + 1]
    <3>1. chunk' = [chunk EXCEPT ![g] = q]
      BY <2>7 DEF RollBackAndRetry
    <3>2. 0 \in 0 .. ChunkUnits /\ chunk[g].attempt + 1 \in 0 .. MaxRetries
      BY <2>0, <2>7, ProgressAssumption DEF RollBackAndRetry, MoreAttempts, ChunkType
    <3>3. q \in ChunkType /\ q.at = "attempt"
      BY <2>0, <3>2 DEF ChunkType, Places
    <3>4. counter' \in Int
      BY <1>0, <2>6, <2>7 DEF RollBackAndRetry
    <3> HIDE DEF q
    <3> QED
      BY <1>0, <1>1, <2>7, <3>1, <3>3, <3>4, PutChunk DEF RollBackAndRetry
  <2>8. CASE RollBackAndFail(g)
    <3> DEFINE q == [chunk[g] EXCEPT !.at = "failed", !.got = 0]
    <3>1. chunk' = [chunk EXCEPT ![g] = q]
      BY <2>8 DEF RollBackAndFail
    <3>2. 0 \in 0 .. ChunkUnits
      BY ProgressAssumption
    <3>3. q \in ChunkType /\ q.at = "failed"
      BY <2>0, <3>2 DEF ChunkType, Places
    <3>4. counter' \in Int
      BY <1>0, <2>6, <2>8 DEF RollBackAndFail
    <3> HIDE DEF q
    <3> QED
      BY <1>0, <1>1, <2>8, <3>1, <3>3, <3>4, PutChunk DEF RollBackAndFail
  <2>9. CASE ShowSingle(g) \/ ShowPrefix(g)
    <3> DEFINE q == [chunk[g] EXCEPT !.at = "read"]
    <3>1. chunk' = [chunk EXCEPT ![g] = q] /\ liveBytes' = chunk[g].val
          /\ UNCHANGED <<mode, pool, counter, lastReported, global, faults>>
      BY <2>9, <1>0 DEF ShowSingle, ShowPrefix, Move, ChunkType
    <3>2. q \in ChunkType /\ q.at = "read" /\ chunk[g].val \in Int
      BY <2>0 DEF ChunkType, Places
    <3> HIDE DEF q
    <3> QED
      BY <1>0, <1>1, <3>1, <3>2, PutChunk
  <2>10. CASE ReadLastReported(g)
    <3> DEFINE q == [chunk[g] EXCEPT !.at = IF Increases(g) THEN "store" ELSE "read",
                                     !.delta = chunk[g].val - lastReported]
    <3>1. chunk' = [chunk EXCEPT ![g] = q]
      BY <2>10 DEF ReadLastReported
    <3>2. chunk[g].val \in Int /\ chunk[g].val - lastReported \in Int
      BY <1>0, <2>0 DEF ChunkType
    <3>3. q \in ChunkType /\ q.delta = chunk[g].val - lastReported
          /\ q.at = IF Increases(g) THEN "store" ELSE "read"
      BY <2>0, <3>2 DEF ChunkType, Places
    <3> HIDE DEF q
    <3>4. q.at \in {"store", "add"} => q.delta > 0
      BY <1>0, <3>2, <3>3 DEF Increases
    <3> QED
      BY <1>0, <1>1, <2>10, <3>1, <3>3, <3>4, PutChunk DEF ReadLastReported
  <2>11. CASE StoreLastReported(g)
    <3> DEFINE q == [chunk[g] EXCEPT !.at = "add"]
    <3>1. chunk' = [chunk EXCEPT ![g] = q]
      BY <2>11, <1>0 DEF StoreLastReported, Move, ChunkType
    <3>2. q \in ChunkType /\ q.delta = chunk[g].delta /\ chunk[g].val \in Int
      BY <2>0 DEF ChunkType, Places
    <3>3. chunk[g].delta > 0
      BY <1>0, <2>11 DEF StoreLastReported, Growing
    <3> HIDE DEF q
    <3> QED
      BY <1>0, <1>1, <2>11, <3>1, <3>2, <3>3, PutChunk DEF StoreLastReported, NewLast
  <2>12. CASE AddDelta(g)
    <3> DEFINE q == [chunk[g] EXCEPT !.at = "show", !.val = global + chunk[g].delta]
    <3>1. chunk' = [chunk EXCEPT ![g] = q]
      BY <2>12 DEF AddDelta
    <3>2. global + chunk[g].delta \in Int
      BY <1>0, <2>0 DEF ChunkType
    <3>3. q \in ChunkType /\ q.at = "show"
      BY <2>0, <3>2 DEF ChunkType, Places
    <3> HIDE DEF q
    <3> QED
      BY <1>0, <1>1, <2>12, <3>1, <3>2, <3>3, PutChunk DEF AddDelta
  <2> QED
    BY <1>2, <2>1, <2>2, <2>3, <2>4, <2>5, <2>7, <2>8, <2>9, <2>10, <2>11, <2>12 DEF ChunkStep
<1>3. CASE UNCHANGED vars
  BY <1>3 DEF vars, Types, TypeOK, Growing
<1> QED
  BY <1>2, <1>3 DEF Next, ChunkStep, Terminated

LEMMA TypesInvariant == Spec => []Types
  BY TypesInitial, TypesStep, PTL DEF Spec

(* Every variable keeps its type; no chunk is attempted more than          *)
(* MaxRetries + 1 times.                                                   *)
THEOREM ProgressTypes == Spec => []TypeOK
<1>1. Types => TypeOK
  BY DEF Types
<1> QED
  BY <1>1, TypesInvariant, PTL

(* The aggregate never goes back, for any number of goroutines that race   *)
(* on lastReported and any number of rollbacks of the counter under it.    *)
THEOREM AggregateMonotoneHolds == Spec => AggregateMonotone
<1>1. Types /\ [Next]_vars => [global' >= global]_vars
  <2> SUFFICES ASSUME Types, [Next]_vars PROVE global' >= global
    OBVIOUS
  <2>1. global \in Int /\ chunk \in [Chunks -> ChunkType]
    BY DEF Types, TypeOK, ChunkType
  <2>2. ASSUME NEW g \in Chunks, AddDelta(g) PROVE global' >= global
    <3>1. chunk[g].delta \in Int /\ chunk[g].delta > 0
      BY <2>1, <2>2 DEF AddDelta, Types, Growing, ChunkType
    <3> QED
      BY <2>1, <2>2, <3>1 DEF AddDelta
  <2>3. CASE ~ \E g \in Chunks : AddDelta(g)
    <3>1. global' = global
      BY <2>3 DEF Next, Launch, StartAttempt, ReadBlock, ChunkDone, AttemptFails,
         RollBackAndRetry, RollBackAndFail, ShowSingle, ReadLastReported, StoreLastReported,
         ShowPrefix, Terminated, vars
    <3> QED
      BY <2>1, <3>1
  <2> QED
    BY <2>2, <2>3
<1> QED
  BY <1>1, TypesInvariant, PTL DEF Spec, AggregateMonotone

-----------------------------------------------------------------------------
(* One goroutine at a time: the accounts.                                  *)

Done == {g \in Chunks : chunk[g].at = "done"}
Base == ChunkUnits * Cardinality(Done)
Runs(q) == q.at \notin {"waiting", "done", "failed"}

(* The goroutine that runs: counter c is what finished chunks and its own  *)
(* attempt have read; what was published, n, and the last report, l, are   *)
(* equal but for the delta it carries.                                     *)
Accounts(q, c, base, l, n) ==
    /\ c = base + q.got
    /\ q.at = "attempt" => q.got = 0
    /\ q.at # "attempt" => q.pre = base
    /\ q.at = "rollback" => q.current = c
    /\ q.at \in {"report", "store"} => q.val = c
    /\ q.at = "store" => q.delta = q.val - l
    /\ q.at = "add" => n + q.delta = l
    /\ q.at # "add" => n = l

Solo ==
    /\ \A g, h \in Running : g = h
    /\ \A g \in Chunks : chunk[g].at = "waiting" => chunk[g].got = 0
    /\ Running = {} => counter = Base /\ global = lastReported
    /\ \A g \in Running : Accounts(chunk[g], counter, Base, lastReported, global)
    /\ lastReported <= Total /\ global <= Total

SoloInv == pool = 1 => Solo

LEMMA Multiples ==
    ASSUME NEW c \in Nat, NEW m \in Nat, NEW n \in Nat
    PROVE  c * m \in Nat /\ c * (m + 1) = c * m + c /\ (m <= n => c * m <= c * n)
<1>1. c * m \in Nat /\ c * (m + 1) = c * m + c
  OBVIOUS
<1>2. ASSUME m <= n PROVE c * m <= c * n
  <2> DEFINE d == n - m
  <2>1. d \in Nat /\ n = m + d
    BY <1>2
  <2> HIDE DEF d
  <2>2. c * n = c * m + c * d /\ c * d \in Nat
    BY <2>1
  <2> QED
    BY <1>1, <2>2
<1> QED
  BY <1>1, <1>2

(* What finished chunks have read, and room for the one that is not.       *)
LEMMA BaseFits ==
    /\ Base \in Nat /\ Total \in Nat /\ Base <= Total
    /\ \A g \in Chunks : chunk[g].at # "done" => Base + ChunkUnits <= Total
    /\ (\A g \in Chunks : chunk[g].at = "done") => Base = Total
<1>1. IsFiniteSet(Done) /\ Done \in SUBSET Chunks /\ Cardinality(Done) <= Cardinality(Chunks)
  BY ProgressAssumption, FS_Subset DEF Done
<1>2. Cardinality(Done) \in Nat /\ Cardinality(Chunks) \in Nat /\ ChunkUnits \in Nat
  BY <1>1, ProgressAssumption, FS_CardinalityType
<1>3. Base \in Nat /\ Total \in Nat /\ Base <= Total
  BY <1>1, <1>2, Multiples DEF Base, Total
<1>4. ASSUME NEW g \in Chunks, chunk[g].at # "done" PROVE Base + ChunkUnits <= Total
  <2>1. g \notin Done /\ Done \cup {g} \in SUBSET Chunks
    BY <1>4 DEF Done
  <2>2. Cardinality(Done \cup {g}) = Cardinality(Done) + 1
    BY <1>1, <2>1, FS_AddElement
  <2>3. Cardinality(Done) + 1 <= Cardinality(Chunks)
    BY <2>1, <2>2, ProgressAssumption, FS_Subset
  <2>4. ChunkUnits * (Cardinality(Done) + 1) <= Total
    BY <1>2, <2>3, Multiples DEF Total
  <2> QED
    BY <1>2, <2>4, Multiples DEF Base
<1>5. (\A g \in Chunks : chunk[g].at = "done") => Base = Total
  <2>1. (\A g \in Chunks : chunk[g].at = "done") => Done = Chunks
    BY DEF Done
  <2> QED
    BY <2>1 DEF Base, Total
<1> QED
  BY <1>3, <1>4, <1>5

LEMMA SoloInitial == Init => SoloInv
<1> SUFFICES ASSUME Init PROVE Solo
  BY DEF SoloInv
<1>1. \A g \in Chunks : chunk[g].at = "waiting" /\ chunk[g].got = 0
  BY DEF Init, NewChunk
<1>2. Running = {} /\ Done = {}
  BY <1>1 DEF Running, Done
<1>3. Base = 0
  BY <1>2, FS_EmptySet, ProgressAssumption DEF Base
<1> QED
  BY <1>1, <1>2, <1>3, BaseFits DEF Init, Solo

(* The goroutine that runs, or the one that is launched, takes a step.     *)
LEMMA PutSolo ==
    ASSUME Types, Solo, NEW g \in Chunks, NEW q \in ChunkType,
           chunk' = [chunk EXCEPT ![g] = q], Running \subseteq {g},
           chunk[g].at # "done", q.at # "waiting",
           lastReported' <= Total, global' <= Total,
           Runs(q) => Accounts(q, counter', Base, lastReported', global'),
           ~Runs(q) => global' = lastReported',
           q.at = "done" => counter' = Base + ChunkUnits,
           q.at = "failed" => counter' = Base
    PROVE  Solo'
<1>1. \A h \in Chunks : chunk'[h] = IF h = g THEN q ELSE chunk[h]
  BY DEF Types, TypeOK
<1>2. \A h \in Chunks : h # g => ~Runs(chunk[h])
  BY DEF Running, Runs
<1>3. Running' = IF Runs(q) THEN {g} ELSE {}
  BY <1>1, <1>2 DEF Running, Runs
<1>4. Done' = IF q.at = "done" THEN Done \cup {g} ELSE Done
  BY <1>1 DEF Done
<1>5. Base' = IF q.at = "done" THEN Base + ChunkUnits ELSE Base
  <2>1. IsFiniteSet(Done) /\ g \notin Done
    BY ProgressAssumption, FS_Subset DEF Done
  <2>2. Cardinality(Done \cup {g}) = Cardinality(Done) + 1 /\ Cardinality(Done) \in Nat
    BY <2>1, FS_AddElement, FS_CardinalityType
  <2> QED
    BY <1>4, <2>2, ProgressAssumption, Multiples DEF Base
<1>6. Running' = {} => q.at \in {"done", "failed"}
  BY <1>3 DEF Runs
<1>7. \A h \in Running' : Accounts(chunk'[h], counter', Base', lastReported', global')
  BY <1>1, <1>3, <1>5 DEF Runs
<1>8. \A h \in Chunks : chunk'[h].at = "waiting" => chunk'[h].got = 0
  BY <1>1 DEF Solo
<1>9. Running' = {} => counter' = Base' /\ global' = lastReported'
  BY <1>3, <1>5, <1>6 DEF Runs
<1>10. Total' = Total
  BY DEF Total
<1> QED
  BY <1>3, <1>7, <1>8, <1>9, <1>10 DEF Solo

(* The step of a goroutine that runs, to a place where it still runs.      *)
LEMMA SoloChunkStep ==
    ASSUME Types, Solo, pool = 1, NEW g \in Chunks, ChunkStep(g)
    PROVE  Solo'
<1>0. /\ counter \in Int /\ lastReported \in Int /\ global \in Int
      /\ chunk \in [Chunks -> ChunkType] /\ chunk[g] \in ChunkType
      /\ lastReported <= Total /\ global <= Total
  BY DEF Types, TypeOK, ChunkType, Solo
<1>1. Base \in Nat /\ Total \in Nat /\ ChunkUnits \in Nat
  BY BaseFits, ProgressAssumption
<1>2. chunk[g].at # "done" => Base + ChunkUnits <= Total
  BY BaseFits
<1>3. chunk[g].got \in Nat /\ chunk[g].got <= ChunkUnits
  BY <1>0, <1>1 DEF ChunkType
<1>4. Runs(chunk[g]) =>
         /\ Running \subseteq {g}
         /\ Accounts(chunk[g], counter, Base, lastReported, global)
  BY DEF Solo, Running, Runs
<1>5. Runs(chunk[g]) => counter = Base + chunk[g].got
                        /\ (chunk[g].at # "add" => global = lastReported)
  BY <1>4 DEF Accounts
<1> HIDE DEF Total, Base
<1>6. CASE Launch(g)
  <2> DEFINE q == [chunk[g] EXCEPT !.at = "attempt"]
  <2>1. chunk' = [chunk EXCEPT ![g] = q]
    BY <1>6, <1>0 DEF Launch, Move, ChunkType
  <2>2. q \in ChunkType /\ q.at = "attempt" /\ q.got = chunk[g].got
    BY <1>0 DEF ChunkType, Places
  <2>3. Running = {}
    <3>1. Running \in SUBSET Chunks /\ IsFiniteSet(Running)
      BY ProgressAssumption, FS_Subset DEF Running
    <3>2. Cardinality(Running) = 0
      BY <1>6, <3>1, FS_CardinalityType DEF Launch
    <3> QED
      BY <3>1, <3>2, FS_EmptySet
  <2>4. counter = Base /\ global = lastReported /\ chunk[g].got = 0 /\ chunk[g].at = "waiting"
        /\ UNCHANGED <<counter, lastReported, global>>
    BY <1>6, <2>3 DEF Solo, Launch
  <2> HIDE DEF q
  <2>5. Accounts(q, counter', Base, lastReported', global') /\ Runs(q)
    BY <1>1, <2>2, <2>4 DEF Accounts, Runs
  <2> QED
    BY <1>0, <2>1, <2>2, <2>3, <2>4, <2>5, PutSolo
<1>7. CASE StartAttempt(g)
  <2> DEFINE q == [chunk[g] EXCEPT !.at = "read", !.pre = counter, !.got = 0]
  <2>1. chunk' = [chunk EXCEPT ![g] = q] /\ chunk[g].at = "attempt"
        /\ UNCHANGED <<counter, lastReported, global>>
    BY <1>7 DEF StartAttempt
  <2>2. 0 \in 0 .. ChunkUnits
    BY <1>1
  <2>3. q \in ChunkType /\ q.at = "read" /\ q.pre = counter /\ q.got = 0
    BY <1>0, <2>2 DEF ChunkType, Places
  <2>4. counter = Base /\ global = lastReported /\ Runs(chunk[g])
    BY <1>1, <1>4, <2>1 DEF Accounts, Runs
  <2> HIDE DEF q
  <2>5. Accounts(q, counter', Base, lastReported', global') /\ Runs(q)
    BY <1>1, <2>1, <2>3, <2>4 DEF Accounts, Runs
  <2> QED
    BY <1>0, <1>4, <2>1, <2>3, <2>4, <2>5, PutSolo
<1>8. CASE ReadBlock(g)
  <2> DEFINE q == [chunk[g] EXCEPT !.at = "report", !.got = chunk[g].got + 1, !.val = NewTotal(g)]
  <2>1. chunk' = [chunk EXCEPT ![g] = q] /\ chunk[g].at = "read" /\ chunk[g].got < ChunkUnits
        /\ counter' = counter + 1 /\ UNCHANGED <<lastReported, global>>
    BY <1>8 DEF ReadBlock, NewTotal
  <2>2. chunk[g].got + 1 \in 0 .. ChunkUnits /\ NewTotal(g) = counter + 1 /\ counter + 1 \in Int
    BY <1>0, <1>1, <1>3, <2>1 DEF NewTotal
  <2>3. q \in ChunkType /\ q.at = "report" /\ q.got = chunk[g].got + 1 /\ q.val = counter + 1
        /\ q.pre = chunk[g].pre
    BY <1>0, <2>2 DEF ChunkType, Places
  <2>4. counter = Base + chunk[g].got /\ chunk[g].pre = Base /\ global = lastReported
        /\ Runs(chunk[g])
    BY <1>4, <2>1 DEF Accounts, Runs
  <2> HIDE DEF q
  <2>5. Accounts(q, counter', Base, lastReported', global') /\ Runs(q)
    BY <1>1, <1>3, <2>1, <2>3, <2>4 DEF Accounts, Runs
  <2> QED
    BY <1>0, <1>4, <2>1, <2>3, <2>4, <2>5, PutSolo
<1>9. CASE ChunkDone(g)
  <2> DEFINE q == [chunk[g] EXCEPT !.at = "done"]
  <2>1. chunk' = [chunk EXCEPT ![g] = q] /\ chunk[g].at = "read" /\ chunk[g].got = ChunkUnits
        /\ UNCHANGED <<counter, lastReported, global>>
    BY <1>9, <1>0 DEF ChunkDone, Move, ChunkType
  <2>2. q \in ChunkType /\ q.at = "done"
    BY <1>0 DEF ChunkType, Places
  <2>3. Runs(chunk[g])
    BY <2>1 DEF Runs
  <2> HIDE DEF q
  <2> QED
    BY <1>0, <1>4, <1>5, <2>1, <2>2, <2>3, PutSolo DEF Runs
<1>10. CASE AttemptFails(g)
  <2> DEFINE q == [chunk[g] EXCEPT !.at = "rollback", !.current = counter]
  <2>1. chunk' = [chunk EXCEPT ![g] = q] /\ chunk[g].at = "read"
        /\ UNCHANGED <<counter, lastReported, global>>
    BY <1>10 DEF AttemptFails
  <2>2. q \in ChunkType /\ q.at = "rollback" /\ q.current = counter /\ q.got = chunk[g].got
        /\ q.pre = chunk[g].pre
    BY <1>0 DEF ChunkType, Places
  <2>3. Runs(chunk[g]) /\ chunk[g].pre = Base
    BY <1>4, <2>1 DEF Runs, Accounts
  <2> HIDE DEF q
  <2>4. Accounts(q, counter', Base, lastReported', global') /\ Runs(q)
    BY <1>5, <2>1, <2>2, <2>3 DEF Accounts, Runs
  <2> QED
    BY <1>0, <1>4, <2>1, <2>2, <2>3, <2>4, PutSolo
<1>11. chunk[g].at = "rollback" => counter - Partial(g) = Base
  <2> SUFFICES ASSUME chunk[g].at = "rollback" PROVE counter - Partial(g) = Base
    OBVIOUS
  <2>1. /\ counter = Base + chunk[g].got /\ chunk[g].pre = Base /\ chunk[g].current = counter
    BY <1>4 DEF Accounts, Runs
  <2> QED
    BY <1>1, <1>3, <2>1 DEF Partial
<1>12. CASE RollBackAndRetry(g)
  <2> DEFINE q == [chunk[g] EXCEPT !.at = "attempt", !.got = 0, !.attempt = chunk[g].attempt + 1]
  <2>1. chunk' = [chunk EXCEPT ![g] = q] /\ chunk[g].at = "rollback"
        /\ counter' = counter - Partial(g) /\ UNCHANGED <<lastReported, global>>
    BY <1>12 DEF RollBackAndRetry
  <2>2. 0 \in 0 .. ChunkUnits /\ chunk[g].attempt + 1 \in 0 .. MaxRetries
    BY <1>0, <1>12, ProgressAssumption DEF RollBackAndRetry, MoreAttempts, ChunkType
  <2>3. q \in ChunkType /\ q.at = "attempt" /\ q.got = 0
    BY <1>0, <2>2 DEF ChunkType, Places
  <2>4. Runs(chunk[g])
    BY <2>1 DEF Runs
  <2> HIDE DEF q
  <2>5. Accounts(q, counter', Base, lastReported', global') /\ Runs(q)
    BY <1>1, <1>5, <1>11, <2>1, <2>3, <2>4 DEF Accounts, Runs
  <2> QED
    BY <1>0, <1>4, <2>1, <2>3, <2>4, <2>5, PutSolo
<1>13. CASE RollBackAndFail(g)
  <2> DEFINE q == [chunk[g] EXCEPT !.at = "failed", !.got = 0]
  <2>1. chunk' = [chunk EXCEPT ![g] = q] /\ chunk[g].at = "rollback"
        /\ counter' = counter - Partial(g) /\ UNCHANGED <<lastReported, global>>
    BY <1>13 DEF RollBackAndFail
  <2>2. 0 \in 0 .. ChunkUnits
    BY <1>1
  <2>3. q \in ChunkType /\ q.at = "failed"
    BY <1>0, <2>2 DEF ChunkType, Places
  <2>4. Runs(chunk[g])
    BY <2>1 DEF Runs
  <2> HIDE DEF q
  <2> QED
    BY <1>0, <1>4, <1>5, <1>11, <2>1, <2>3, <2>4, PutSolo DEF Runs
<1>14. CASE ShowSingle(g) \/ ShowPrefix(g)
  <2> DEFINE q == [chunk[g] EXCEPT !.at = "read"]
  <2>1. chunk' = [chunk EXCEPT ![g] = q] /\ chunk[g].at \in {"report", "show"}
        /\ UNCHANGED <<counter, lastReported, global>>
    BY <1>14, <1>0 DEF ShowSingle, ShowPrefix, Move, ChunkType
  <2>2. q \in ChunkType /\ q.at = "read" /\ q.got = chunk[g].got /\ q.pre = chunk[g].pre
    BY <1>0 DEF ChunkType, Places
  <2>3. Runs(chunk[g]) /\ chunk[g].pre = Base
    BY <1>4, <2>1 DEF Runs, Accounts
  <2> HIDE DEF q
  <2>4. Accounts(q, counter', Base, lastReported', global') /\ Runs(q)
    BY <1>5, <2>1, <2>2, <2>3 DEF Accounts, Runs
  <2> QED
    BY <1>0, <1>4, <2>1, <2>2, <2>3, <2>4, PutSolo
<1>15. CASE ReadLastReported(g)
  <2> DEFINE q == [chunk[g] EXCEPT !.at = IF Increases(g) THEN "store" ELSE "read",
                                   !.delta = chunk[g].val - lastReported]
  <2>1. chunk' = [chunk EXCEPT ![g] = q] /\ chunk[g].at = "report"
        /\ UNCHANGED <<counter, lastReported, global>>
    BY <1>15 DEF ReadLastReported
  <2>2. chunk[g].val \in Int /\ chunk[g].val - lastReported \in Int
    BY <1>0 DEF ChunkType
  <2>3. q \in ChunkType /\ q.delta = chunk[g].val - lastReported /\ q.got = chunk[g].got
        /\ q.at \in {"store", "read"} /\ q.pre = chunk[g].pre /\ q.val = chunk[g].val
    BY <1>0, <2>2 DEF ChunkType, Places
  <2>4. Runs(chunk[g]) /\ chunk[g].pre = Base /\ chunk[g].val = counter
    BY <1>4, <2>1 DEF Runs, Accounts
  <2> HIDE DEF q
  <2>5. Accounts(q, counter', Base, lastReported', global') /\ Runs(q)
    BY <1>5, <2>1, <2>3, <2>4 DEF Accounts, Runs
  <2> QED
    BY <1>0, <1>4, <2>1, <2>3, <2>4, <2>5, PutSolo
<1>16. CASE StoreLastReported(g)
  <2> DEFINE q == [chunk[g] EXCEPT !.at = "add"]
  <2>1. chunk' = [chunk EXCEPT ![g] = q] /\ chunk[g].at = "store"
        /\ lastReported' = chunk[g].val /\ UNCHANGED <<counter, global>>
    BY <1>16, <1>0 DEF StoreLastReported, NewLast, Move, ChunkType
  <2>2. q \in ChunkType /\ q.at = "add" /\ q.got = chunk[g].got /\ q.pre = chunk[g].pre
        /\ q.delta = chunk[g].delta /\ chunk[g].val \in Int
    BY <1>0 DEF ChunkType, Places
  <2>3. Runs(chunk[g]) /\ chunk[g].pre = Base /\ chunk[g].val = counter
        /\ chunk[g].delta = chunk[g].val - lastReported /\ global = lastReported
    BY <1>4, <2>1 DEF Runs, Accounts
  <2>4. lastReported' <= Total
    BY <1>0, <1>1, <1>2, <1>3, <1>5, <2>1, <2>3
  <2> HIDE DEF q
  <2>5. Accounts(q, counter', Base, lastReported', global') /\ Runs(q)
    BY <1>0, <1>5, <2>1, <2>2, <2>3 DEF Accounts, Runs
  <2> QED
    BY <1>0, <1>4, <2>1, <2>2, <2>3, <2>4, <2>5, PutSolo
<1>17. CASE AddDelta(g)
  <2> DEFINE q == [chunk[g] EXCEPT !.at = "show", !.val = global + chunk[g].delta]
  <2>1. chunk' = [chunk EXCEPT ![g] = q] /\ chunk[g].at = "add"
        /\ global' = global + chunk[g].delta /\ UNCHANGED <<counter, lastReported>>
    BY <1>17 DEF AddDelta
  <2>2. global + chunk[g].delta \in Int
    BY <1>0 DEF ChunkType
  <2>3. q \in ChunkType /\ q.at = "show" /\ q.got = chunk[g].got /\ q.pre = chunk[g].pre
    BY <1>0, <2>2 DEF ChunkType, Places
  <2>4. Runs(chunk[g]) /\ chunk[g].pre = Base /\ global + chunk[g].delta = lastReported
    BY <1>4, <2>1 DEF Runs, Accounts
  <2> HIDE DEF q
  <2>5. Accounts(q, counter', Base, lastReported', global') /\ Runs(q)
    BY <1>5, <2>1, <2>3, <2>4 DEF Accounts, Runs
  <2> QED
    BY <1>0, <1>4, <2>1, <2>3, <2>4, <2>5, PutSolo
<1> QED
  BY <1>6, <1>7, <1>8, <1>9, <1>10, <1>12, <1>13, <1>14, <1>15, <1>16, <1>17 DEF ChunkStep

LEMMA SoloStep == Types /\ SoloInv /\ [Next]_vars => SoloInv'
<1> SUFFICES ASSUME Types, SoloInv, [Next]_vars PROVE SoloInv'
  OBVIOUS
<1>1. ASSUME NEW g \in Chunks, ChunkStep(g) PROVE SoloInv'
  <2>1. pool' = pool
    BY <1>1 DEF ChunkStep, Launch, StartAttempt, ReadBlock, ChunkDone, AttemptFails,
       RollBackAndRetry, RollBackAndFail, ShowSingle, ReadLastReported, StoreLastReported,
       AddDelta, ShowPrefix
  <2> QED
    BY <1>1, <2>1, SoloChunkStep DEF SoloInv
<1>2. CASE UNCHANGED vars
  <2>1. Running' = Running /\ Base' = Base /\ Total' = Total
    BY <1>2 DEF vars, Running, Base, Done, Total
  <2> QED
    BY <1>2, <2>1 DEF vars, SoloInv, Solo
<1> QED
  BY <1>1, <1>2 DEF Next, ChunkStep, Terminated

LEMMA SoloInvariant == Spec => []SoloInv
  BY SoloInitial, SoloStep, TypesInvariant, PTL DEF Spec

(* With one goroutine at a time the aggregate, and with it the percentage  *)
(* on the terminal, never passes the size of the object.                   *)
THEOREM AggregateBoundedHolds == Spec => []AggregateBounded
<1>1. SoloInv => AggregateBounded
  BY DEF SoloInv, Solo, AggregateBounded, AggregateWithinTotal
<1> QED
  BY <1>1, SoloInvariant, PTL

-----------------------------------------------------------------------------
(* One goroutine at a time: what main.go shows.                            *)

(* While a goroutine runs: a single file's display is the counter once the *)
(* attempt has read anything; the display of a prefix is the aggregate,    *)
(* which is not behind the counter but for what is being reported.         *)
Screen(q, m, c, l, n, s) ==
    /\ q.at \in {"report", "store", "add", "show"} => q.got > 0
    /\ m = "single" =>
          /\ q.at \notin {"store", "add", "show"}
          /\ q.at = "read" /\ q.got > 0 => s = c
    /\ m = "prefix" =>
          /\ IF q.at = "show" THEN q.val = n ELSE s = n
          /\ q.at \notin {"report", "store", "add"} => n >= c
          /\ q.at = "add" => l >= c

(* Between goroutines; f: a chunk has failed.                              *)
Rest(m, c, n, s, f) ==
    /\ m = "single" => f \/ ChunkUnits = 0 \/ s = c
    /\ m = "prefix" => s = n /\ n >= c

Shown ==
    /\ ChunkUnits = 0 => liveBytes = 0
    /\ \A g \in Running : Screen(chunk[g], mode, counter, lastReported, global, liveBytes)
    /\ Running = {} => Rest(mode, counter, global, liveBytes, SomeFailed)

ShownInv == pool = 1 => Shown

LEMMA ShownInitial == Init => ShownInv
<1> SUFFICES ASSUME Init PROVE Shown
  BY DEF ShownInv
<1>1. Running = {}
  BY DEF Init, NewChunk, Running
<1> QED
  BY <1>1 DEF Init, Shown, Rest

LEMMA PutShown ==
    ASSUME Types, Shown, NEW g \in Chunks, NEW q \in ChunkType,
           chunk' = [chunk EXCEPT ![g] = q], Running \subseteq {g},
           chunk[g].at # "failed", q.at # "waiting", mode' = mode,
           ChunkUnits = 0 => liveBytes' = 0,
           Runs(q) => Screen(q, mode, counter', lastReported', global', liveBytes'),
           ~Runs(q) => Rest(mode, counter', global', liveBytes', q.at = "failed")
    PROVE  Shown'
<1>1. \A h \in Chunks : chunk'[h] = IF h = g THEN q ELSE chunk[h]
  BY DEF Types, TypeOK
<1>2. \A h \in Chunks : h # g => ~Runs(chunk[h])
  BY DEF Running, Runs
<1>3. Running' = IF Runs(q) THEN {g} ELSE {}
  BY <1>1, <1>2 DEF Running, Runs
<1>4. q.at = "failed" => SomeFailed'
  BY <1>1 DEF SomeFailed
<1>5. \A h \in Running' : Screen(chunk'[h], mode', counter', lastReported', global', liveBytes')
  BY <1>1, <1>3
<1>6. Running' = {} => Rest(mode', counter', global', liveBytes', SomeFailed')
  BY <1>3, <1>4 DEF Rest
<1> QED
  BY <1>5, <1>6 DEF Shown

LEMMA ShownChunkStep ==
    ASSUME Types, Solo, Shown, pool = 1, NEW g \in Chunks, ChunkStep(g)
    PROVE  Shown'
<1>0. /\ counter \in Int /\ lastReported \in Int /\ global \in Int /\ liveBytes \in Int
      /\ chunk \in [Chunks -> ChunkType] /\ chunk[g] \in ChunkType
      /\ mode \in {"single", "prefix"} /\ (ChunkUnits = 0 => liveBytes = 0)
  BY ProgressAssumption DEF Types, TypeOK, ChunkType, Shown
<1>1. Base \in Nat /\ ChunkUnits \in Nat
  BY BaseFits, ProgressAssumption
<1>2. chunk[g].got \in Nat /\ chunk[g].got <= ChunkUnits /\ chunk[g].val \in Int
      /\ chunk[g].delta \in Int
  BY <1>0, <1>1 DEF ChunkType
<1>3. Runs(chunk[g]) =>
         /\ Running \subseteq {g} /\ chunk[g].at # "failed"
         /\ Accounts(chunk[g], counter, Base, lastReported, global)
         /\ Screen(chunk[g], mode, counter, lastReported, global, liveBytes)
  BY DEF Solo, Shown, Running, Runs
<1> HIDE DEF Base
<1>4. CASE Launch(g)
  <2> DEFINE q == [chunk[g] EXCEPT !.at = "attempt"]
  <2>1. chunk' = [chunk EXCEPT ![g] = q] /\ chunk[g].at = "waiting"
        /\ UNCHANGED <<mode, counter, lastReported, global, liveBytes>>
    BY <1>4, <1>0 DEF Launch, Move, ChunkType
  <2>2. q \in ChunkType /\ q.at = "attempt"
    BY <1>0 DEF ChunkType, Places
  <2>3. Running = {}
    <3>1. Running \in SUBSET Chunks /\ IsFiniteSet(Running)
      BY ProgressAssumption, FS_Subset DEF Running
    <3>2. Cardinality(Running) = 0
      BY <1>4, <3>1, FS_CardinalityType DEF Launch
    <3> QED
      BY <3>1, <3>2, FS_EmptySet
  <2> HIDE DEF q
  <2>4. Screen(q, mode, counter', lastReported', global', liveBytes') /\ Runs(q)
    BY <2>1, <2>2, <2>3 DEF Shown, Rest, Screen, Runs
  <2> QED
    BY <1>0, <2>1, <2>2, <2>3, <2>4, PutShown
<1>5. CASE StartAttempt(g)
  <2> DEFINE q == [chunk[g] EXCEPT !.at = "read", !.pre = counter, !.got = 0]
  <2>1. chunk' = [chunk EXCEPT ![g] = q] /\ chunk[g].at = "attempt"
        /\ UNCHANGED <<mode, counter, lastReported, global, liveBytes>>
    BY <1>5 DEF StartAttempt
  <2>2. 0 \in 0 .. ChunkUnits
    BY <1>1
  <2>3. q \in ChunkType /\ q.at = "read" /\ q.got = 0
    BY <1>0, <2>2 DEF ChunkType, Places
  <2> HIDE DEF q
  <2>4. Screen(q, mode, counter', lastReported', global', liveBytes') /\ Runs(q) /\ Runs(chunk[g])
    BY <1>3, <2>1, <2>3 DEF Screen, Runs
  <2> QED
    BY <1>0, <1>3, <2>1, <2>3, <2>4, PutShown
<1>6. CASE ReadBlock(g)
  <2> DEFINE q == [chunk[g] EXCEPT !.at = "report", !.got = chunk[g].got + 1, !.val = NewTotal(g)]
  <2>1. chunk' = [chunk EXCEPT ![g] = q] /\ chunk[g].at = "read" /\ chunk[g].got < ChunkUnits
        /\ UNCHANGED <<mode, lastReported, global, liveBytes>>
    BY <1>6 DEF ReadBlock
  <2>2. chunk[g].got + 1 \in 0 .. ChunkUnits /\ NewTotal(g) \in Int
    BY <1>0, <1>1, <1>2, <2>1 DEF NewTotal
  <2>3. q \in ChunkType /\ q.at = "report" /\ q.got > 0
    <3>1. q \in ChunkType /\ q.at = "report" /\ q.got = chunk[g].got + 1
      BY <1>0, <2>2 DEF ChunkType, Places
    <3> QED
      BY <1>2, <3>1
  <2> HIDE DEF q
  <2>4. Screen(q, mode, counter', lastReported', global', liveBytes') /\ Runs(q) /\ Runs(chunk[g])
    BY <1>3, <2>1, <2>3 DEF Screen, Runs
  <2> QED
    BY <1>0, <1>3, <2>1, <2>3, <2>4, PutShown
<1>7. CASE ChunkDone(g)
  <2> DEFINE q == [chunk[g] EXCEPT !.at = "done"]
  <2>1. chunk' = [chunk EXCEPT ![g] = q] /\ chunk[g].at = "read" /\ chunk[g].got = ChunkUnits
        /\ UNCHANGED <<mode, counter, lastReported, global, liveBytes>>
    BY <1>7, <1>0 DEF ChunkDone, Move, ChunkType
  <2>2. q \in ChunkType /\ q.at = "done"
    BY <1>0 DEF ChunkType, Places
  <2>3. ChunkUnits = 0 \/ chunk[g].got > 0
    BY <1>1, <2>1
  <2> HIDE DEF q
  <2>4. Rest(mode, counter', global', liveBytes', q.at = "failed") /\ ~Runs(q) /\ Runs(chunk[g])
    BY <1>3, <2>1, <2>2, <2>3 DEF Screen, Rest, Runs
  <2> QED
    BY <1>0, <1>3, <2>1, <2>2, <2>4, PutShown
<1>8. CASE AttemptFails(g)
  <2> DEFINE q == [chunk[g] EXCEPT !.at = "rollback", !.current = counter]
  <2>1. chunk' = [chunk EXCEPT ![g] = q] /\ chunk[g].at = "read"
        /\ UNCHANGED <<mode, counter, lastReported, global, liveBytes>>
    BY <1>8 DEF AttemptFails
  <2>2. q \in ChunkType /\ q.at = "rollback"
    BY <1>0 DEF ChunkType, Places
  <2> HIDE DEF q
  <2>3. Screen(q, mode, counter', lastReported', global', liveBytes') /\ Runs(q) /\ Runs(chunk[g])
    BY <1>3, <2>1, <2>2 DEF Screen, Runs
  <2> QED
    BY <1>0, <1>3, <2>1, <2>2, <2>3, PutShown
<1>9. CASE RollBackAndRetry(g)
  <2> DEFINE q == [chunk[g] EXCEPT !.at = "attempt", !.got = 0, !.attempt = chunk[g].attempt + 1]
  <2>1. chunk' = [chunk EXCEPT ![g] = q] /\ chunk[g].at = "rollback"
        /\ counter' = counter - Partial(g) /\ UNCHANGED <<mode, lastReported, global, liveBytes>>
    BY <1>9 DEF RollBackAndRetry
  <2>2. 0 \in 0 .. ChunkUnits /\ chunk[g].attempt + 1 \in 0 .. MaxRetries
    BY <1>0, <1>9, ProgressAssumption DEF RollBackAndRetry, MoreAttempts, ChunkType
  <2>3. q \in ChunkType /\ q.at = "attempt"
    BY <1>0, <2>2 DEF ChunkType, Places
  <2>4. counter' <= counter /\ counter' \in Int
    BY <1>0, <2>1 DEF Partial, ChunkType
  <2> HIDE DEF q
  <2>5. Screen(q, mode, counter', lastReported', global', liveBytes') /\ Runs(q) /\ Runs(chunk[g])
    BY <1>0, <1>3, <2>1, <2>3, <2>4 DEF Screen, Runs
  <2> QED
    BY <1>0, <1>3, <2>1, <2>3, <2>5, PutShown
<1>10. CASE RollBackAndFail(g)
  <2> DEFINE q == [chunk[g] EXCEPT !.at = "failed", !.got = 0]
  <2>1. chunk' = [chunk EXCEPT ![g] = q] /\ chunk[g].at = "rollback"
        /\ counter' = counter - Partial(g) /\ UNCHANGED <<mode, lastReported, global, liveBytes>>
    BY <1>10 DEF RollBackAndFail
  <2>2. 0 \in 0 .. ChunkUnits
    BY <1>1
  <2>3. q \in ChunkType /\ q.at = "failed"
    BY <1>0, <2>2 DEF ChunkType, Places
  <2>4. counter' <= counter /\ counter' \in Int
    BY <1>0, <2>1 DEF Partial, ChunkType
  <2> HIDE DEF q
  <2>5. Rest(mode, counter', global', liveBytes', q.at = "failed") /\ ~Runs(q) /\ Runs(chunk[g])
    BY <1>0, <1>3, <2>1, <2>3, <2>4 DEF Screen, Rest, Runs
  <2> QED
    BY <1>0, <1>3, <2>1, <2>3, <2>5, PutShown
<1>11. CASE ShowSingle(g) \/ ShowPrefix(g)
  <2> DEFINE q == [chunk[g] EXCEPT !.at = "read"]
  <2>1. /\ chunk' = [chunk EXCEPT ![g] = q] /\ liveBytes' = chunk[g].val
        /\ (chunk[g].at = "report" /\ mode = "single") \/ chunk[g].at = "show"
        /\ UNCHANGED <<mode, counter, lastReported, global>>
    BY <1>11, <1>0 DEF ShowSingle, ShowPrefix, Move, ChunkType
  <2>2. q \in ChunkType /\ q.at = "read"
    BY <1>0 DEF ChunkType, Places
  <2>3. Runs(chunk[g]) /\ chunk[g].got > 0 /\ ChunkUnits # 0
    BY <1>1, <1>2, <1>3, <2>1 DEF Runs, Screen
  <2>4. (mode = "single" => chunk[g].val = counter)
        /\ (mode = "prefix" => chunk[g].val = global /\ global >= counter)
    BY <1>0, <1>3, <2>1, <2>3 DEF Screen, Accounts
  <2> HIDE DEF q
  <2>5. Screen(q, mode, counter', lastReported', global', liveBytes') /\ Runs(q)
    BY <2>1, <2>2, <2>4 DEF Screen, Runs
  <2> QED
    BY <1>3, <2>1, <2>2, <2>3, <2>5, PutShown
<1>12. CASE ReadLastReported(g)
  <2> DEFINE q == [chunk[g] EXCEPT !.at = IF Increases(g) THEN "store" ELSE "read",
                                   !.delta = chunk[g].val - lastReported]
  <2>1. chunk' = [chunk EXCEPT ![g] = q] /\ chunk[g].at = "report" /\ mode = "prefix"
        /\ UNCHANGED <<mode, counter, lastReported, global, liveBytes>>
    BY <1>12 DEF ReadLastReported
  <2>2. chunk[g].val - lastReported \in Int
    BY <1>0, <1>2
  <2>3. q \in ChunkType /\ q.at \in {"store", "read"} /\ q.got = chunk[g].got
        /\ (q.at = "read" => ~ chunk[g].val > lastReported)
    BY <1>0, <2>2 DEF ChunkType, Places, Increases
  <2>4. Runs(chunk[g]) /\ chunk[g].val = counter /\ global = lastReported
    BY <1>3, <2>1 DEF Runs, Accounts
  <2>5. ~ chunk[g].val > lastReported => global >= counter
    BY <1>0, <2>4
  <2> HIDE DEF q
  <2>6. Screen(q, mode, counter', lastReported', global', liveBytes') /\ Runs(q)
    BY <1>3, <2>1, <2>3, <2>4, <2>5 DEF Screen, Runs
  <2> QED
    BY <1>0, <1>3, <2>1, <2>3, <2>4, <2>6, PutShown
<1>13. CASE StoreLastReported(g)
  <2> DEFINE q == [chunk[g] EXCEPT !.at = "add"]
  <2>1. chunk' = [chunk EXCEPT ![g] = q] /\ chunk[g].at = "store"
        /\ lastReported' = chunk[g].val /\ UNCHANGED <<mode, counter, global, liveBytes>>
    BY <1>13, <1>0 DEF StoreLastReported, NewLast, Move, ChunkType
  <2>2. q \in ChunkType /\ q.at = "add" /\ q.got = chunk[g].got
    BY <1>0 DEF ChunkType, Places
  <2>3. Runs(chunk[g]) /\ chunk[g].val = counter
    BY <1>3, <2>1 DEF Runs, Accounts
  <2> HIDE DEF q
  <2>4. Screen(q, mode, counter', lastReported', global', liveBytes') /\ Runs(q)
    BY <1>0, <1>3, <2>1, <2>2, <2>3 DEF Screen, Runs
  <2> QED
    BY <1>0, <1>3, <2>1, <2>2, <2>3, <2>4, PutShown
<1>14. CASE AddDelta(g)
  <2> DEFINE q == [chunk[g] EXCEPT !.at = "show", !.val = global + chunk[g].delta]
  <2>1. chunk' = [chunk EXCEPT ![g] = q] /\ chunk[g].at = "add"
        /\ global' = global + chunk[g].delta /\ UNCHANGED <<mode, counter, lastReported, liveBytes>>
    BY <1>14 DEF AddDelta
  <2>2. global + chunk[g].delta \in Int
    BY <1>0, <1>2
  <2>3. q \in ChunkType /\ q.at = "show" /\ q.got = chunk[g].got
        /\ q.val = global + chunk[g].delta
    BY <1>0, <2>2 DEF ChunkType, Places
  <2>4. Runs(chunk[g]) /\ global + chunk[g].delta = lastReported
    BY <1>3, <2>1 DEF Runs, Accounts
  <2>5. mode = "prefix" /\ lastReported >= counter /\ chunk[g].got > 0
    BY <1>0, <1>3, <2>1, <2>4 DEF Screen
  <2> HIDE DEF q
  <2>6. Screen(q, mode, counter', lastReported', global', liveBytes') /\ Runs(q)
    BY <2>1, <2>3, <2>4, <2>5 DEF Screen, Runs
  <2> QED
    BY <1>0, <1>3, <2>1, <2>3, <2>4, <2>6, PutShown
<1> QED
  BY <1>4, <1>5, <1>6, <1>7, <1>8, <1>9, <1>10, <1>11, <1>12, <1>13, <1>14 DEF ChunkStep

LEMMA ShownStep == Types /\ SoloInv /\ ShownInv /\ [Next]_vars => ShownInv'
<1> SUFFICES ASSUME Types, SoloInv, ShownInv, [Next]_vars PROVE ShownInv'
  OBVIOUS
<1>1. ASSUME NEW g \in Chunks, ChunkStep(g) PROVE ShownInv'
  <2>1. pool' = pool
    BY <1>1 DEF ChunkStep, Launch, StartAttempt, ReadBlock, ChunkDone, AttemptFails,
       RollBackAndRetry, RollBackAndFail, ShowSingle, ReadLastReported, StoreLastReported,
       AddDelta, ShowPrefix
  <2> QED
    BY <1>1, <2>1, ShownChunkStep DEF SoloInv, ShownInv
<1>2. CASE UNCHANGED vars
  <2>1. Running' = Running /\ (SomeFailed' <=> SomeFailed)
    BY <1>2 DEF vars, Running, SomeFailed
  <2> QED
    BY <1>2, <2>1 DEF vars, ShownInv, Shown, Rest
<1> QED
  BY <1>1, <1>2 DEF Next, ChunkStep, Terminated

LEMMA ShownInvariant == Spec => []ShownInv
  BY ShownInitial, ShownStep, SoloInvariant, TypesInvariant, PTL DEF Spec

(* With one goroutine at a time main.go ends with all of the object on the *)
(* terminal, whatever attempts failed and were rolled back.                *)
THEOREM DisplayCompleteHolds == Spec => []DisplayComplete
<1>1. SoloInv /\ ShownInv /\ Types => DisplayComplete
  <2> SUFFICES ASSUME SoloInv, ShownInv, Types, pool = 1,
                      \A g \in Chunks : chunk[g].at = "done"
               PROVE  liveBytes = Total
    BY DEF DisplayComplete
  <2>1. Running = {} /\ ~SomeFailed
    BY DEF Running, SomeFailed
  <2>2. Base = Total /\ counter = Base /\ global <= Total /\ Rest(mode, counter, global, liveBytes, FALSE)
    BY <2>1, BaseFits DEF SoloInv, ShownInv, Solo, Shown, Rest
  <2>3. mode \in {"single", "prefix"} /\ Total \in Nat /\ global \in Int /\ liveBytes \in Int
    BY BaseFits, ProgressAssumption DEF Types, TypeOK
  <2>4. CASE mode = "single"
    <3>1. CASE ChunkUnits = 0
      <4>1. liveBytes = 0
        BY <3>1 DEF ShownInv, Shown
      <4>2. Cardinality(Chunks) \in Nat
        BY ProgressAssumption, FS_CardinalityType
      <4> QED
        BY <3>1, <4>1, <4>2 DEF Total
    <3>2. CASE ChunkUnits # 0
      BY <2>2, <2>4, <3>2 DEF Rest
    <3> QED
      BY <3>1, <3>2
  <2>5. CASE mode = "prefix"
    BY <2>2, <2>3, <2>5 DEF Rest
  <2> QED
    BY <2>3, <2>4, <2>5
<1> QED
  BY <1>1, ShownInvariant, SoloInvariant, TypesInvariant, PTL
=============================================================================
