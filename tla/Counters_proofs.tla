-------------------------- MODULE Counters_proofs --------------------------
(***************************************************************************)
(* Theorems of Progress that count: the counter is the number of units     *)
(* that have been read, and the aggregate of multi.go's callback ends with *)
(* all of them, while nothing fails or one goroutine runs at a time.       *)
(***************************************************************************)
EXTENDS Progress_proofs

-----------------------------------------------------------------------------
(* Sums as cardinalities: a function from S to 0 .. n has as many cells    *)
(* under it as its values add up to.                                       *)
Below(S, n, a) == {u \in S \X (1 .. n) : u[2] <= a[u[1]]}

LEMMA BelowFinite ==
    ASSUME NEW S, IsFiniteSet(S), NEW n \in Nat, NEW a
    PROVE  /\ IsFiniteSet(Below(S, n, a))
           /\ Cardinality(Below(S, n, a)) \in Nat
           /\ Cardinality(Below(S, n, a)) <= n * Cardinality(S)
<1>1. IsFiniteSet(1 .. n) /\ Cardinality(1 .. n) = n
  BY FS_Interval
<1>2. IsFiniteSet(S \X (1 .. n)) /\ Cardinality(S \X (1 .. n)) = Cardinality(S) * n
  BY <1>1, FS_Product
<1>3. Below(S, n, a) \in SUBSET (S \X (1 .. n))
  BY DEF Below
<1>4. Cardinality(S) \in Nat
  BY FS_CardinalityType
<1>5. Cardinality(S) * n = n * Cardinality(S)
  BY <1>4
<1> QED
  BY <1>2, <1>3, <1>5, FS_Subset, FS_CardinalityType

(* The cells of one argument.                                              *)
LEMMA ColumnSize ==
    ASSUME NEW g, NEW n \in Nat, NEW v \in 0 .. n
    PROVE  IsFiniteSet({g} \X (1 .. v)) /\ Cardinality({g} \X (1 .. v)) = v
<1>1. IsFiniteSet(1 .. v) /\ Cardinality(1 .. v) = v
  BY FS_Interval
<1>2. IsFiniteSet({g}) /\ Cardinality({g}) = 1
  BY FS_Singleton
<1>3. IsFiniteSet({g} \X (1 .. v)) /\ Cardinality({g} \X (1 .. v)) = Cardinality({g}) * Cardinality(1 .. v)
  BY <1>1, <1>2, FS_Product
<1>4. 1 * v = v
  OBVIOUS
<1> QED
  BY <1>1, <1>2, <1>3, <1>4

(* A value that changes changes the sum by as much.                        *)
LEMMA BelowPut ==
    ASSUME NEW S, IsFiniteSet(S), NEW n \in Nat, NEW a \in [S -> 0 .. n], NEW b \in [S -> 0 .. n],
           NEW g \in S, \A h \in S : h # g => b[h] = a[h]
    PROVE  Cardinality(Below(S, n, b)) = Cardinality(Below(S, n, a)) - a[g] + b[g]
<1> DEFINE Others(f) == {u \in Below(S, n, f) : u[1] # g}
<1>1. ASSUME NEW f \in [S -> 0 .. n]
      PROVE  /\ IsFiniteSet(Others(f)) /\ Cardinality(Others(f)) \in Nat
             /\ Cardinality(Below(S, n, f)) = Cardinality(Others(f)) + f[g]
  <2> DEFINE Column == {g} \X (1 .. f[g])
  <2>1. f[g] \in 0 .. n
    OBVIOUS
  <2>2. IsFiniteSet(Column) /\ Cardinality(Column) = f[g]
    BY <2>1, ColumnSize
  <2>3. IsFiniteSet(Below(S, n, f))
    BY BelowFinite
  <2>4. IsFiniteSet(Others(f)) /\ Cardinality(Others(f)) \in Nat
    <3>1. Others(f) \in SUBSET Below(S, n, f)
      OBVIOUS
    <3> QED
      BY <2>3, <3>1, FS_Subset, FS_CardinalityType
  <2>5. Others(f) \cap Column = {}
    OBVIOUS
  <2>6. Below(S, n, f) = Others(f) \cup Column
    <3>1. ASSUME NEW u \in Below(S, n, f) PROVE u \in Others(f) \cup Column
      <4>1. u \in S \X (1 .. n) /\ u[2] <= f[u[1]] /\ u = <<u[1], u[2]>>
        BY <3>1 DEF Below
      <4>2. CASE u[1] = g
        <5>1. u[2] \in 1 .. f[g]
          BY <2>1, <4>1, <4>2
        <5> QED
          BY <4>1, <4>2, <5>1
      <4> QED
        BY <3>1, <4>2
    <3>2. ASSUME NEW u \in Column PROVE u \in Below(S, n, f)
      <4>1. u[1] = g /\ u[2] \in 1 .. f[g] /\ u = <<g, u[2]>>
        BY <3>2
      <4>2. u[2] \in 1 .. n /\ u[2] <= f[g]
        BY <2>1, <4>1
      <4> QED
        BY <4>1, <4>2 DEF Below
    <3>3. Others(f) \subseteq Below(S, n, f)
      OBVIOUS
    <3> QED
      BY <3>1, <3>2, <3>3
  <2>7. Cardinality(Others(f) \cup Column) = Cardinality(Others(f)) + Cardinality(Column) - Cardinality({})
    <3> HIDE DEF Column, Others
    <3> QED
      BY <2>2, <2>4, <2>5, FS_Union
  <2> HIDE DEF Column, Others
  <2> QED
    BY <2>1, <2>2, <2>4, <2>6, <2>7, FS_EmptySet
<1>2. Others(a) = Others(b)
  BY DEF Below
<1> HIDE DEF Others
<1> QED
  BY <1>1, <1>2

LEMMA BelowZero ==
    ASSUME NEW S, NEW n \in Nat, NEW a, \A h \in S : a[h] = 0
    PROVE  Cardinality(Below(S, n, a)) = 0
<1>1. Below(S, n, a) = {}
  BY DEF Below
<1> QED
  BY <1>1, FS_EmptySet

LEMMA BelowFull ==
    ASSUME NEW S, IsFiniteSet(S), NEW n \in Nat, NEW a, \A h \in S : a[h] = n
    PROVE  Cardinality(Below(S, n, a)) = n * Cardinality(S)
<1>1. IsFiniteSet(1 .. n) /\ Cardinality(1 .. n) = n
  BY FS_Interval
<1>2. Cardinality(S \X (1 .. n)) = Cardinality(S) * n
  BY <1>1, FS_Product
<1>3. Below(S, n, a) = S \X (1 .. n)
  BY DEF Below
<1>4. Cardinality(S) \in Nat
  BY FS_CardinalityType
<1>5. Cardinality(S) * n = n * Cardinality(S)
  BY <1>4
<1> QED
  BY <1>2, <1>3, <1>5

-----------------------------------------------------------------------------
(* What has been read.                                                     *)

Got == [g \in Chunks |-> chunk[g].got]

(* An attempt that has not started has read nothing, a finished chunk has  *)
(* read all of its units, and no attempt is rolled back before one fails.  *)
Counted ==
    /\ \A g \in Chunks : chunk[g].at \in {"waiting", "attempt", "failed"} => chunk[g].got = 0
    /\ \A g \in Chunks : chunk[g].at = "done" => chunk[g].got = ChunkUnits
    /\ faults = 0 => \A g \in Chunks : chunk[g].at \notin {"rollback", "failed"}
    /\ CounterMatches

LEMMA UnitsReadBelow == UnitsRead = Below(Chunks, ChunkUnits, Got)
  BY DEF UnitsRead, Below, Got

LEMMA CountedInitial == Init => Counted
<1> SUFFICES ASSUME Init PROVE Counted
  OBVIOUS
<1>1. \A g \in Chunks : chunk[g].at = "waiting" /\ chunk[g].got = 0
  BY DEF Init, NewChunk
<1>2. Cardinality(UnitsRead) = 0
  BY <1>1, UnitsReadBelow, BelowZero, ProgressAssumption DEF Got
<1> QED
  BY <1>1, <1>2 DEF Init, Counted, CounterMatches, CounterExact

LEMMA PutCounted ==
    ASSUME Types, Counted, NEW g \in Chunks, NEW q \in ChunkType,
           chunk' = [chunk EXCEPT ![g] = q],
           q.at \in {"waiting", "attempt", "failed"} => q.got = 0,
           q.at = "done" => q.got = ChunkUnits,
           faults' = 0 => faults = 0 /\ q.at \notin {"rollback", "failed"},
           pool' = pool, counter \in Int,
           Undisturbed => counter' = counter - chunk[g].got + q.got
    PROVE  Counted'
<1>0. chunk \in [Chunks -> ChunkType] /\ \A h \in Chunks : chunk[h] \in ChunkType
  BY DEF Types, TypeOK, ChunkType
<1>1. \A h \in Chunks : chunk'[h] = IF h = g THEN q ELSE chunk[h]
  BY <1>0
<1>2. \A h \in Chunks : chunk[h].got \in 0 .. ChunkUnits /\ chunk'[h].got \in 0 .. ChunkUnits
  BY <1>0, <1>1 DEF ChunkType
<1>3. Got \in [Chunks -> 0 .. ChunkUnits] /\ Got' \in [Chunks -> 0 .. ChunkUnits]
  BY <1>2 DEF Got
<1>4. Got[g] = chunk[g].got /\ Got'[g] = q.got /\ \A h \in Chunks : h # g => Got'[h] = Got[h]
  BY <1>1 DEF Got
<1>5. Cardinality(Below(Chunks, ChunkUnits, Got'))
         = Cardinality(Below(Chunks, ChunkUnits, Got)) - chunk[g].got + q.got
  <2>1. Cardinality(Below(Chunks, ChunkUnits, Got'))
           = Cardinality(Below(Chunks, ChunkUnits, Got)) - Got[g] + Got'[g]
    <3> HIDE DEF Got
    <3> QED
      BY <1>3, <1>4, BelowPut, ProgressAssumption
  <2> QED
    BY <1>4, <2>1
<1>6. UnitsRead' = Below(Chunks, ChunkUnits, Got')
  BY DEF UnitsRead, Below, Got
<1>7. Undisturbed' => Undisturbed
  BY DEF Undisturbed
<1>8. Cardinality(UnitsRead') = Cardinality(UnitsRead) - chunk[g].got + q.got
  BY <1>5, <1>6, UnitsReadBelow
<1>9. CounterMatches'
  BY <1>7, <1>8 DEF Counted, CounterMatches, CounterExact
<1> QED
  BY <1>1, <1>9 DEF Counted

LEMMA CountedChunkStep ==
    ASSUME Types, SoloInv, Counted, NEW g \in Chunks, ChunkStep(g)
    PROVE  Counted'
<1>0. /\ counter \in Int /\ lastReported \in Int /\ global \in Int /\ faults \in Nat
      /\ chunk \in [Chunks -> ChunkType] /\ chunk[g] \in ChunkType
  BY ProgressAssumption DEF Types, TypeOK, ChunkType
<1>1. chunk[g].got \in Nat /\ chunk[g].got <= ChunkUnits /\ ChunkUnits \in Nat
  BY <1>0, ProgressAssumption DEF ChunkType
<1>2. /\ chunk[g].at \in {"waiting", "attempt"} => chunk[g].got = 0
      /\ faults = 0 => chunk[g].at # "rollback" /\ ~SomeFailed
  BY DEF Counted, SomeFailed
<1>3. CASE Launch(g)
  <2> DEFINE q == [chunk[g] EXCEPT !.at = "attempt"]
  <2>1. chunk' = [chunk EXCEPT ![g] = q] /\ chunk[g].at = "waiting"
        /\ UNCHANGED <<pool, counter, faults>>
    BY <1>3, <1>0 DEF Launch, Move, ChunkType
  <2>2. q \in ChunkType /\ q.at = "attempt" /\ q.got = chunk[g].got
    BY <1>0 DEF ChunkType, Places
  <2> HIDE DEF q
  <2>9. counter' = counter - chunk[g].got + q.got
    BY <1>0, <1>1, <1>2, <2>1, <2>2
  <2> QED
    BY <1>0, <1>1, <1>2, <2>1, <2>2, <2>9, PutCounted
<1>4. CASE StartAttempt(g)
  <2> DEFINE q == [chunk[g] EXCEPT !.at = "read", !.pre = counter, !.got = 0]
  <2>1. chunk' = [chunk EXCEPT ![g] = q] /\ chunk[g].at = "attempt"
        /\ UNCHANGED <<pool, counter, faults>>
    BY <1>4 DEF StartAttempt
  <2>2. 0 \in 0 .. ChunkUnits
    BY <1>1
  <2>3. q \in ChunkType /\ q.at = "read" /\ q.got = 0
    BY <1>0, <2>2 DEF ChunkType, Places
  <2> HIDE DEF q
  <2>9. counter' = counter - chunk[g].got + q.got
    BY <1>0, <1>1, <1>2, <2>1, <2>3
  <2> QED
    BY <1>0, <1>1, <1>2, <2>1, <2>3, <2>9, PutCounted
<1>5. CASE ReadBlock(g)
  <2> DEFINE q == [chunk[g] EXCEPT !.at = "report", !.got = chunk[g].got + 1, !.val = NewTotal(g)]
  <2>1. chunk' = [chunk EXCEPT ![g] = q] /\ chunk[g].at = "read" /\ chunk[g].got < ChunkUnits
        /\ counter' = counter + 1 /\ UNCHANGED <<pool, faults>>
    BY <1>5 DEF ReadBlock, NewTotal
  <2>2. chunk[g].got + 1 \in 0 .. ChunkUnits /\ NewTotal(g) \in Int
    BY <1>0, <1>1, <2>1 DEF NewTotal
  <2>3. q \in ChunkType /\ q.at = "report" /\ q.got = chunk[g].got + 1
    BY <1>0, <2>2 DEF ChunkType, Places
  <2> HIDE DEF q
  <2>9. counter' = counter - chunk[g].got + q.got
    BY <1>0, <1>1, <2>1, <2>3
  <2> QED
    BY <1>0, <1>1, <2>1, <2>3, <2>9, PutCounted
<1>6. CASE ChunkDone(g)
  <2> DEFINE q == [chunk[g] EXCEPT !.at = "done"]
  <2>1. chunk' = [chunk EXCEPT ![g] = q] /\ chunk[g].got = ChunkUnits
        /\ UNCHANGED <<pool, counter, faults>>
    BY <1>6, <1>0 DEF ChunkDone, Move, ChunkType
  <2>2. q \in ChunkType /\ q.at = "done" /\ q.got = chunk[g].got
    BY <1>0 DEF ChunkType, Places
  <2> HIDE DEF q
  <2>9. counter' = counter - chunk[g].got + q.got
    BY <1>0, <1>1, <2>1, <2>2
  <2> QED
    BY <1>0, <1>1, <2>1, <2>2, <2>9, PutCounted
<1>7. CASE AttemptFails(g)
  <2> DEFINE q == [chunk[g] EXCEPT !.at = "rollback", !.current = counter]
  <2>1. chunk' = [chunk EXCEPT ![g] = q] /\ UNCHANGED <<pool, counter>>
    BY <1>7 DEF AttemptFails
  <2>2. faults' # 0
    BY <1>0, <1>2, <1>7 DEF AttemptFails
  <2>3. q \in ChunkType /\ q.at = "rollback" /\ q.got = chunk[g].got
    BY <1>0 DEF ChunkType, Places
  <2> HIDE DEF q
  <2>9. counter' = counter - chunk[g].got + q.got
    BY <1>0, <1>1, <2>1, <2>2, <2>3
  <2> QED
    BY <1>0, <1>1, <2>1, <2>2, <2>3, <2>9, PutCounted
<1>8. chunk[g].at = "rollback" /\ Undisturbed => Partial(g) = chunk[g].got
  <2> SUFFICES ASSUME chunk[g].at = "rollback", pool = 1 PROVE Partial(g) = chunk[g].got
    BY <1>2 DEF Undisturbed
  <2>1. counter = Base + chunk[g].got /\ chunk[g].pre = Base /\ chunk[g].current = counter
    BY DEF SoloInv, Solo, Running, Accounts
  <2>2. Base \in Nat
    BY BaseFits
  <2> HIDE DEF Base
  <2> QED
    BY <1>1, <2>1, <2>2 DEF Partial
<1>9. CASE RollBackAndRetry(g)
  <2> DEFINE q == [chunk[g] EXCEPT !.at = "attempt", !.got = 0, !.attempt = chunk[g].attempt + 1]
  <2>1. chunk' = [chunk EXCEPT ![g] = q] /\ chunk[g].at = "rollback"
        /\ counter' = counter - Partial(g) /\ UNCHANGED <<pool, faults>>
    BY <1>9 DEF RollBackAndRetry
  <2>2. 0 \in 0 .. ChunkUnits /\ chunk[g].attempt + 1 \in 0 .. MaxRetries
    BY <1>0, <1>9, ProgressAssumption DEF RollBackAndRetry, MoreAttempts, ChunkType
  <2>3. q \in ChunkType /\ q.at = "attempt" /\ q.got = 0
    BY <1>0, <2>2 DEF ChunkType, Places
  <2>4. Undisturbed => counter' = counter - chunk[g].got + 0
    BY <1>0, <1>1, <1>8, <2>1
  <2> HIDE DEF q
  <2> QED
    BY <1>0, <1>1, <1>2, <2>1, <2>3, <2>4, PutCounted
<1>10. CASE RollBackAndFail(g)
  <2> DEFINE q == [chunk[g] EXCEPT !.at = "failed", !.got = 0]
  <2>1. chunk' = [chunk EXCEPT ![g] = q] /\ chunk[g].at = "rollback"
        /\ counter' = counter - Partial(g) /\ UNCHANGED <<pool, faults>>
    BY <1>10 DEF RollBackAndFail
  <2>2. 0 \in 0 .. ChunkUnits
    BY <1>1
  <2>3. q \in ChunkType /\ q.at = "failed" /\ q.got = 0
    BY <1>0, <2>2 DEF ChunkType, Places
  <2>4. Undisturbed => counter' = counter - chunk[g].got + 0
    BY <1>0, <1>1, <1>8, <2>1
  <2> HIDE DEF q
  <2> QED
    BY <1>0, <1>1, <1>2, <2>1, <2>3, <2>4, PutCounted
<1>11. CASE ShowSingle(g) \/ ShowPrefix(g)
  <2> DEFINE q == [chunk[g] EXCEPT !.at = "read"]
  <2>1. chunk' = [chunk EXCEPT ![g] = q] /\ UNCHANGED <<pool, counter, faults>>
    BY <1>11, <1>0 DEF ShowSingle, ShowPrefix, Move, ChunkType
  <2>2. q \in ChunkType /\ q.at = "read" /\ q.got = chunk[g].got
    BY <1>0 DEF ChunkType, Places
  <2> HIDE DEF q
  <2>9. counter' = counter - chunk[g].got + q.got
    BY <1>0, <1>1, <2>1, <2>2
  <2> QED
    BY <1>0, <1>1, <2>1, <2>2, <2>9, PutCounted
<1>12. CASE ReadLastReported(g)
  <2> DEFINE q == [chunk[g] EXCEPT !.at = IF Increases(g) THEN "store" ELSE "read",
                                   !.delta = chunk[g].val - lastReported]
  <2>1. chunk' = [chunk EXCEPT ![g] = q] /\ UNCHANGED <<pool, counter, faults>>
    BY <1>12 DEF ReadLastReported
  <2>2. chunk[g].val - lastReported \in Int
    BY <1>0 DEF ChunkType
  <2>3. q \in ChunkType /\ q.at \in {"store", "read"} /\ q.got = chunk[g].got
    BY <1>0, <2>2 DEF ChunkType, Places
  <2> HIDE DEF q
  <2>9. counter' = counter - chunk[g].got + q.got
    BY <1>0, <1>1, <2>1, <2>3
  <2> QED
    BY <1>0, <1>1, <2>1, <2>3, <2>9, PutCounted
<1>13. CASE StoreLastReported(g)
  <2> DEFINE q == [chunk[g] EXCEPT !.at = "add"]
  <2>1. chunk' = [chunk EXCEPT ![g] = q] /\ UNCHANGED <<pool, counter, faults>>
    BY <1>13, <1>0 DEF StoreLastReported, Move, ChunkType
  <2>2. q \in ChunkType /\ q.at = "add" /\ q.got = chunk[g].got
    BY <1>0 DEF ChunkType, Places
  <2> HIDE DEF q
  <2>9. counter' = counter - chunk[g].got + q.got
    BY <1>0, <1>1, <2>1, <2>2
  <2> QED
    BY <1>0, <1>1, <2>1, <2>2, <2>9, PutCounted
<1>14. CASE AddDelta(g)
  <2> DEFINE q == [chunk[g] EXCEPT !.at = "show", !.val = global + chunk[g].delta]
  <2>1. chunk' = [chunk EXCEPT ![g] = q] /\ UNCHANGED <<pool, counter, faults>>
    BY <1>14 DEF AddDelta
  <2>2. global + chunk[g].delta \in Int
    BY <1>0 DEF ChunkType
  <2>3. q \in ChunkType /\ q.at = "show" /\ q.got = chunk[g].got
    BY <1>0, <2>2 DEF ChunkType, Places
  <2> HIDE DEF q
  <2>9. counter' = counter - chunk[g].got + q.got
    BY <1>0, <1>1, <2>1, <2>3
  <2> QED
    BY <1>0, <1>1, <2>1, <2>3, <2>9, PutCounted
<1> QED
  BY <1>3, <1>4, <1>5, <1>6, <1>7, <1>9, <1>10, <1>11, <1>12, <1>13, <1>14 DEF ChunkStep

LEMMA CountedStep == Types /\ SoloInv /\ Counted /\ [Next]_vars => Counted'
<1> SUFFICES ASSUME Types, SoloInv, Counted, [Next]_vars PROVE Counted'
  OBVIOUS
<1>1. ASSUME NEW g \in Chunks, ChunkStep(g) PROVE Counted'
  BY <1>1, CountedChunkStep
<1>2. CASE UNCHANGED vars
  <2>1. UnitsRead' = UnitsRead
    BY <1>2 DEF vars, UnitsRead
  <2> QED
    BY <1>2, <2>1 DEF vars, Counted, CounterMatches, CounterExact, Undisturbed
<1> QED
  BY <1>1, <1>2 DEF Next, ChunkStep, Terminated

LEMMA CountedInvariant == Spec => []Counted
  BY CountedInitial, CountedStep, TypesInvariant, SoloInvariant, PTL DEF Spec

(* The counter is what finished chunks and attempts under way have read:   *)
(* with one goroutine at a time after any failures, each rollback taking   *)
(* back its own attempt and nothing else; and with any number of           *)
(* goroutines as long as nothing fails.                                    *)
THEOREM CounterMatchesHolds == Spec => []CounterMatches
<1>1. Counted => CounterMatches
  BY DEF Counted
<1> QED
  BY <1>1, CountedInvariant, PTL

-----------------------------------------------------------------------------
(* What the aggregate is due, with any number of goroutines while nothing  *)
(* fails: what it has and the deltas that wait to be added.                *)

Pend == [g \in Chunks |-> IF chunk[g].at = "add" THEN chunk[g].delta ELSE 0]
Due == global + Cardinality(Below(Chunks, Total, Pend))

Reporting(q) == q.at \in {"report", "store"}

(* Bounds of what is reported; every report so far is due, the last one    *)
(* and, less its delta, the one about to be stored; and the newest value   *)
(* of the counter is due unless a goroutine is still reporting it.         *)
Flow ==
    /\ 0 <= lastReported
    /\ \A g \in Chunks : Reporting(chunk[g]) => chunk[g].val <= counter
    /\ \A g \in Chunks : chunk[g].at = "store" => 0 <= chunk[g].val
    /\ \A g \in Chunks : chunk[g].at \in {"store", "add"} => chunk[g].delta <= counter
    /\ lastReported <= Due
    /\ \A g \in Chunks : chunk[g].at = "store" => chunk[g].val <= Due + chunk[g].delta
    /\ counter <= Due \/ \E g \in Chunks : Reporting(chunk[g]) /\ chunk[g].val = counter

FlowInv == faults = 0 /\ mode = "prefix" => Flow

(* The newest value of the counter is due, or another goroutine reports it. *)
NewestDue(g) ==
    counter <= Due \/ \E h \in Chunks : h # g /\ Reporting(chunk[h]) /\ chunk[h].val = counter

Adding(q) == IF q.at = "add" THEN q.delta ELSE 0

LEMMA CounterWithinTotal == Types /\ Counted /\ faults = 0 => counter <= Total
<1> SUFFICES ASSUME Counted, faults = 0 PROVE counter <= Total
  OBVIOUS
<1>1. counter = Cardinality(UnitsRead)
  BY DEF Counted, CounterMatches, CounterExact, Undisturbed
<1> QED
  BY <1>1, UnitsReadBelow, BelowFinite, ProgressAssumption DEF Total

LEMMA DueType ==
    /\ Types => Due \in Int
    /\ Types' => Due' \in Int
<1>1. Total \in Nat
  BY BaseFits
<1>2. \A f : Cardinality(Below(Chunks, Total, f)) \in Nat
  <2> HIDE DEF Total
  <2> QED
    BY <1>1, BelowFinite, ProgressAssumption
<1>3. (Types => global \in Int) /\ (Types' => global' \in Int)
  BY DEF Types, TypeOK
<1>4. Due = global + Cardinality(Below(Chunks, Total, Pend))
      /\ Due' = global' + Cardinality(Below(Chunks, Total, Pend'))
  BY DEF Due, Below, Total
<1> HIDE DEF Due, Pend, Total
<1> QED
  BY <1>2, <1>3, <1>4

(* A step moves what is due by what it adds to the aggregate and to the    *)
(* deltas that wait.                                                       *)
LEMMA DuePut ==
    ASSUME Types, Flow, counter <= Total, NEW g \in Chunks, NEW q \in ChunkType,
           chunk' = [chunk EXCEPT ![g] = q], Adding(q) \in 0 .. Total
    PROVE  Due' = Due + (global' - global) - Adding(chunk[g]) + Adding(q)
           \/ global' \notin Int
<1> SUFFICES ASSUME global' \in Int
             PROVE  Due' = Due + (global' - global) - Adding(chunk[g]) + Adding(q)
  OBVIOUS
<1>0. /\ chunk \in [Chunks -> ChunkType] /\ Total \in Nat /\ counter \in Int /\ global \in Int
  BY BaseFits DEF Types, TypeOK, ChunkType
<1>1. \A h \in Chunks : chunk'[h] = IF h = g THEN q ELSE chunk[h]
  BY <1>0
<1>2. \A h \in Chunks : Pend[h] = Adding(chunk[h]) /\ Pend'[h] = Adding(chunk'[h])
  BY DEF Pend, Adding
<1>3. ASSUME NEW h \in Chunks PROVE Adding(chunk[h]) \in 0 .. Total
  <2>1. chunk[h].delta \in Int
    BY <1>0 DEF ChunkType
  <2>2. CASE chunk[h].at = "add"
    <3>1. 0 < chunk[h].delta /\ chunk[h].delta <= counter
      BY <2>2 DEF Types, Growing, Flow
    <3> QED
      BY <1>0, <2>1, <2>2, <3>1 DEF Adding
  <2> QED
    BY <1>0, <2>2 DEF Adding
<1>4. \A h \in Chunks : Adding(chunk'[h]) \in 0 .. Total
  BY <1>1, <1>3
<1>5. Pend \in [Chunks -> 0 .. Total] /\ Pend' \in [Chunks -> 0 .. Total]
  <2>1. Pend = [h \in Chunks |-> Adding(chunk[h])] /\ Pend' = [h \in Chunks |-> Adding(chunk'[h])]
    BY DEF Pend, Adding
  <2> QED
    BY <1>3, <1>4, <2>1
<1>6. Pend[g] = Adding(chunk[g]) /\ Pend'[g] = Adding(q) /\ \A h \in Chunks : h # g => Pend'[h] = Pend[h]
  BY <1>1, <1>2
<1>7. Cardinality(Below(Chunks, Total, Pend'))
         = Cardinality(Below(Chunks, Total, Pend)) - Adding(chunk[g]) + Adding(q)
  <2>1. Cardinality(Below(Chunks, Total, Pend'))
           = Cardinality(Below(Chunks, Total, Pend)) - Pend[g] + Pend'[g]
    <3> HIDE DEF Pend, Total
    <3> QED
      BY <1>0, <1>5, <1>6, BelowPut, ProgressAssumption
  <2> QED
    BY <1>6, <2>1
<1>8. Due' = global' + Cardinality(Below(Chunks, Total, Pend'))
  BY DEF Due, Below, Total
<1>9. Cardinality(Below(Chunks, Total, Pend)) \in Nat
  <2> HIDE DEF Pend, Total
  <2> QED
    BY <1>0, BelowFinite, ProgressAssumption
<1>10. Adding(chunk[g]) \in Int /\ Adding(q) \in Int
  BY <1>3
<1> QED
  BY <1>0, <1>7, <1>8, <1>9, <1>10 DEF Due

LEMMA PutFlow ==
    ASSUME Types, Flow, NEW g \in Chunks, NEW q \in ChunkType,
           chunk' = [chunk EXCEPT ![g] = q],
           Due \in Int, Due' \in Int, Due <= Due', counter' \in Int, counter <= counter',
           0 <= lastReported', lastReported' <= Due',
           Reporting(q) => q.val <= counter',
           q.at \in {"store", "add"} => q.delta <= counter',
           q.at = "store" => 0 <= q.val /\ q.val <= Due' + q.delta,
           \/ counter' <= Due'
           \/ Reporting(q) /\ q.val = counter'
           \/ counter' = counter /\ NewestDue(g)
    PROVE  Flow'
<1>0. chunk \in [Chunks -> ChunkType] /\ counter \in Int
  BY DEF Types, TypeOK, ChunkType
<1>1. \A h \in Chunks : chunk'[h] = IF h = g THEN q ELSE chunk[h]
  BY <1>0
<1>2. \A h \in Chunks : chunk[h].val \in Int /\ chunk[h].delta \in Int
  BY <1>0 DEF ChunkType
<1>3. \A h \in Chunks : Reporting(chunk'[h]) => chunk'[h].val <= counter'
  BY <1>0, <1>1, <1>2 DEF Flow
<1>4. \A h \in Chunks : chunk'[h].at \in {"store", "add"} => chunk'[h].delta <= counter'
  BY <1>0, <1>1, <1>2 DEF Flow
<1>5. \A h \in Chunks : chunk'[h].at = "store" =>
         0 <= chunk'[h].val /\ chunk'[h].val <= Due' + chunk'[h].delta
  <2> HIDE DEF Due
  <2> QED
    BY <1>1, <1>2 DEF Flow
<1>6. counter' <= Due' \/ \E h \in Chunks : Reporting(chunk'[h]) /\ chunk'[h].val = counter'
  <2>1. CASE Reporting(q) /\ q.val = counter'
    BY <1>1, <2>1
  <2>2. CASE counter' = counter /\ NewestDue(g)
    <3> HIDE DEF Due
    <3>1. CASE counter <= Due
      BY <1>0, <2>2, <3>1
    <3>2. CASE \E h \in Chunks : h # g /\ Reporting(chunk[h]) /\ chunk[h].val = counter
      BY <1>1, <2>2, <3>2
    <3> QED
      BY <2>2, <3>1, <3>2 DEF NewestDue
  <2> QED
    BY <2>1, <2>2
<1> QED
  BY <1>3, <1>4, <1>5, <1>6 DEF Flow

LEMMA FlowInitial == Init => FlowInv
<1> SUFFICES ASSUME Init PROVE Flow
  BY DEF FlowInv
<1>1. \A g \in Chunks : chunk[g].at = "waiting"
  BY DEF Init, NewChunk
<1>2. Cardinality(Below(Chunks, Total, Pend)) = 0
  <2>1. \A g \in Chunks : Pend[g] = 0
    BY <1>1 DEF Pend
  <2> HIDE DEF Pend, Total
  <2> QED
    BY <2>1, BaseFits, BelowZero
<1>3. Due = 0
  BY <1>2 DEF Due, Init
<1>4. \A g \in Chunks : ~Reporting(chunk[g]) /\ chunk[g].at \notin {"store", "add"}
  BY <1>1 DEF Reporting
<1>5. \A g \in Chunks : chunk[g].at # "store"
  BY <1>1
<1> QED
  BY <1>3, <1>4, <1>5 DEF Init, Flow

LEMMA FlowChunkStep ==
    ASSUME Types, Types', Counted, Flow, faults' = 0, mode = "prefix", NEW g \in Chunks, ChunkStep(g)
    PROVE  Flow'
<1>0. /\ counter \in Int /\ lastReported \in Int /\ global \in Int /\ faults \in Nat
      /\ counter' \in Int /\ global' \in Int
      /\ chunk \in [Chunks -> ChunkType] /\ chunk[g] \in ChunkType
  BY ProgressAssumption DEF Types, TypeOK, ChunkType
<1>1. chunk[g].val \in Int /\ chunk[g].delta \in Int /\ chunk[g].got \in Nat /\ chunk[g].got <= ChunkUnits
      /\ ChunkUnits \in Nat /\ Total \in Nat
  BY <1>0, ProgressAssumption, BaseFits DEF ChunkType
<1>2. faults = 0
  BY <1>0 DEF ChunkStep, Launch, StartAttempt, ReadBlock, ChunkDone, AttemptFails,
     RollBackAndRetry, RollBackAndFail, ShowSingle, ReadLastReported, StoreLastReported,
     AddDelta, ShowPrefix
<1>3. counter <= Total /\ Due \in Int /\ Due' \in Int
  <2> QED
    BY <1>2, CounterWithinTotal, DueType
<1>4. chunk[g].at # "rollback" /\ ~SomeFailed
  BY <1>2 DEF Counted, SomeFailed
<1> HIDE DEF Total, Due
<1>5. ASSUME NEW q \in ChunkType, chunk' = [chunk EXCEPT ![g] = q], ~Reporting(chunk[g]),
             ~Reporting(q), chunk[g].at # "add", q.at # "add",
             UNCHANGED <<counter, lastReported, global>>
      PROVE  Flow'
  <2>1. Adding(q) = 0 /\ Adding(chunk[g]) = 0 /\ 0 \in 0 .. Total
    BY <1>1, <1>5 DEF Adding
  <2>2. Due' = Due
    <3>1. Due' = Due + (global' - global) - 0 + 0
      BY <1>0, <1>3, <1>5, <2>1, DuePut
    <3> QED
      BY <1>0, <1>3, <1>5, <3>1
  <2>3. 0 <= lastReported' /\ lastReported' <= Due'
    BY <1>5, <2>2 DEF Flow
  <2>4. q.at \notin {"store", "add"} /\ q.at # "store"
    BY <1>5 DEF Reporting
  <2>5. NewestDue(g) /\ counter' = counter
    BY <1>5 DEF Flow, NewestDue
  <2>6. counter <= counter' /\ Due <= Due'
    BY <1>0, <1>3, <2>2, <2>5
  <2> QED
    BY <1>0, <1>3, <1>5, <2>3, <2>4, <2>5, <2>6, PutFlow
<1>6. CASE Launch(g)
  <2> DEFINE q == [chunk[g] EXCEPT !.at = "attempt"]
  <2>1. chunk' = [chunk EXCEPT ![g] = q] /\ chunk[g].at = "waiting"
        /\ UNCHANGED <<counter, lastReported, global>>
    BY <1>6, <1>0 DEF Launch, Move, ChunkType
  <2>2. q \in ChunkType /\ q.at = "attempt"
    BY <1>0 DEF ChunkType, Places
  <2> HIDE DEF q
  <2> QED
    BY <1>5, <2>1, <2>2 DEF Reporting
<1>7. CASE StartAttempt(g)
  <2> DEFINE q == [chunk[g] EXCEPT !.at = "read", !.pre = counter, !.got = 0]
  <2>1. chunk' = [chunk EXCEPT ![g] = q] /\ chunk[g].at = "attempt"
        /\ UNCHANGED <<counter, lastReported, global>>
    BY <1>7 DEF StartAttempt
  <2>2. 0 \in 0 .. ChunkUnits
    BY <1>1
  <2>3. q \in ChunkType /\ q.at = "read"
    BY <1>0, <2>2 DEF ChunkType, Places
  <2> HIDE DEF q
  <2> QED
    BY <1>5, <2>1, <2>3 DEF Reporting
<1>8. CASE ReadBlock(g)
  <2> DEFINE q == [chunk[g] EXCEPT !.at = "report", !.got = chunk[g].got + 1, !.val = NewTotal(g)]
  <2>1. chunk' = [chunk EXCEPT ![g] = q] /\ chunk[g].at = "read" /\ chunk[g].got < ChunkUnits
        /\ counter' = counter + 1 /\ UNCHANGED <<lastReported, global>>
    BY <1>8 DEF ReadBlock, NewTotal
  <2>2. chunk[g].got + 1 \in 0 .. ChunkUnits /\ NewTotal(g) = counter + 1 /\ counter + 1 \in Int
    BY <1>0, <1>1, <2>1 DEF NewTotal
  <2>3. q \in ChunkType /\ q.at = "report" /\ q.val = counter + 1
    BY <1>0, <2>2 DEF ChunkType, Places
  <2> HIDE DEF q
  <2>4. Adding(q) = 0 /\ Adding(chunk[g]) = 0 /\ 0 \in 0 .. Total
    BY <1>1, <2>1, <2>3 DEF Adding
  <2>5. Due' = Due
    <3>1. Due' = Due + (global' - global) - 0 + 0
      BY <1>0, <1>3, <2>1, <2>3, <2>4, DuePut
    <3> QED
      BY <1>0, <1>3, <2>1, <3>1
  <2>6. 0 <= lastReported' /\ lastReported' <= Due' /\ Due <= Due' /\ counter <= counter'
    BY <1>0, <1>3, <2>1, <2>5 DEF Flow
  <2>7. Reporting(q) /\ q.val = counter' /\ q.val <= counter' /\ q.at \notin {"store", "add"} /\ q.at # "store"
    BY <1>0, <2>1, <2>3 DEF Reporting
  <2> QED
    BY <1>0, <1>3, <2>1, <2>3, <2>6, <2>7, PutFlow
<1>9. CASE ChunkDone(g)
  <2> DEFINE q == [chunk[g] EXCEPT !.at = "done"]
  <2>1. chunk' = [chunk EXCEPT ![g] = q] /\ chunk[g].at = "read"
        /\ UNCHANGED <<counter, lastReported, global>>
    BY <1>9, <1>0 DEF ChunkDone, Move, ChunkType
  <2>2. q \in ChunkType /\ q.at = "done"
    BY <1>0 DEF ChunkType, Places
  <2> HIDE DEF q
  <2> QED
    BY <1>5, <2>1, <2>2 DEF Reporting
<1>10. ~AttemptFails(g) /\ ~RollBackAndRetry(g) /\ ~RollBackAndFail(g) /\ ~ShowSingle(g)
  BY <1>0, <1>4 DEF AttemptFails, RollBackAndRetry, RollBackAndFail, ShowSingle
<1>11. CASE ShowPrefix(g)
  <2> DEFINE q == [chunk[g] EXCEPT !.at = "read"]
  <2>1. chunk' = [chunk EXCEPT ![g] = q] /\ chunk[g].at = "show"
        /\ UNCHANGED <<counter, lastReported, global>>
    BY <1>11, <1>0 DEF ShowPrefix, Move, ChunkType
  <2>2. q \in ChunkType /\ q.at = "read"
    BY <1>0 DEF ChunkType, Places
  <2> HIDE DEF q
  <2> QED
    BY <1>5, <2>1, <2>2 DEF Reporting
<1>12. CASE ReadLastReported(g)
  <2> DEFINE q == [chunk[g] EXCEPT !.at = IF Increases(g) THEN "store" ELSE "read",
                                   !.delta = chunk[g].val - lastReported]
  <2>1. chunk' = [chunk EXCEPT ![g] = q] /\ chunk[g].at = "report"
        /\ UNCHANGED <<counter, lastReported, global>>
    BY <1>12 DEF ReadLastReported
  <2>2. chunk[g].val - lastReported \in Int
    BY <1>0, <1>1
  <2>3. q \in ChunkType /\ q.delta = chunk[g].val - lastReported /\ q.val = chunk[g].val
        /\ q.at = (IF chunk[g].val > lastReported THEN "store" ELSE "read")
    BY <1>0, <2>2 DEF ChunkType, Places, Increases
  <2> HIDE DEF q
  <2>4. Adding(q) = 0 /\ Adding(chunk[g]) = 0 /\ 0 \in 0 .. Total
    BY <1>1, <2>1, <2>3 DEF Adding
  <2>5. Due' = Due
    <3>1. Due' = Due + (global' - global) - 0 + 0
      BY <1>0, <1>3, <2>1, <2>3, <2>4, DuePut
    <3> QED
      BY <1>0, <1>3, <2>1, <3>1
  <2>6. 0 <= lastReported /\ lastReported <= Due /\ chunk[g].val <= counter
    BY <2>1 DEF Flow, Reporting
  <2>7. q.val <= counter' /\ q.delta <= counter' /\ q.val <= Due' + q.delta
        /\ (q.at = "store" => 0 <= q.val)
    BY <1>0, <1>1, <1>3, <2>1, <2>3, <2>5, <2>6
  <2>8. \/ counter' <= Due'
        \/ Reporting(q) /\ q.val = counter'
        \/ counter' = counter /\ NewestDue(g)
    <3>1. CASE chunk[g].val = counter /\ chunk[g].val > lastReported
      BY <2>1, <2>3, <3>1 DEF Reporting
    <3>2. CASE chunk[g].val = counter /\ ~ chunk[g].val > lastReported
      BY <1>0, <1>3, <2>1, <2>5, <2>6, <3>2
    <3>3. CASE chunk[g].val # counter
      BY <2>1, <3>3 DEF Flow, NewestDue
    <3> QED
      BY <3>1, <3>2, <3>3
  <2>9. 0 <= lastReported' /\ lastReported' <= Due' /\ Due <= Due' /\ counter <= counter'
    BY <1>0, <1>3, <2>1, <2>5, <2>6
  <2>10. Reporting(q) => q.val <= counter'
    BY <2>7
  <2> QED
    BY <1>0, <1>3, <2>1, <2>3, <2>7, <2>8, <2>9, <2>10, PutFlow
<1>13. CASE StoreLastReported(g)
  <2> DEFINE q == [chunk[g] EXCEPT !.at = "add"]
  <2>1. chunk' = [chunk EXCEPT ![g] = q] /\ chunk[g].at = "store"
        /\ lastReported' = chunk[g].val /\ UNCHANGED <<counter, global>>
    BY <1>13, <1>0 DEF StoreLastReported, NewLast, Move, ChunkType
  <2>2. q \in ChunkType /\ q.at = "add" /\ q.delta = chunk[g].delta
    BY <1>0 DEF ChunkType, Places
  <2> HIDE DEF q
  <2>3. 0 < chunk[g].delta /\ chunk[g].delta <= counter /\ 0 <= chunk[g].val
        /\ chunk[g].val <= Due + chunk[g].delta
    BY <2>1 DEF Types, Growing, Flow
  <2>4. Adding(q) = chunk[g].delta /\ Adding(chunk[g]) = 0 /\ chunk[g].delta \in 0 .. Total
    BY <1>0, <1>1, <1>3, <2>1, <2>2, <2>3 DEF Adding
  <2>5. Due' = Due + chunk[g].delta
    <3>1. Due' = Due + (global' - global) - 0 + chunk[g].delta
      BY <1>0, <1>3, <2>1, <2>2, <2>4, DuePut
    <3> QED
      BY <1>0, <1>1, <1>3, <2>1, <3>1
  <2>6. 0 <= lastReported' /\ lastReported' <= Due' /\ Due <= Due' /\ counter <= counter'
    BY <1>0, <1>1, <1>3, <2>1, <2>3, <2>5
  <2>7. ~Reporting(q) /\ q.delta <= counter' /\ q.at # "store"
    BY <2>1, <2>2, <2>3 DEF Reporting
  <2>8. counter' <= Due' \/ (counter' = counter /\ NewestDue(g))
    <3>1. CASE chunk[g].val = counter
      <4>1. counter' = lastReported'
        BY <2>1, <3>1
      <4> QED
        BY <2>6, <4>1
    <3>2. CASE chunk[g].val # counter
      BY <2>1, <3>2 DEF Flow, NewestDue
    <3> QED
      BY <3>1, <3>2
  <2> QED
    BY <1>0, <1>3, <2>1, <2>2, <2>6, <2>7, <2>8, PutFlow
<1>14. CASE AddDelta(g)
  <2> DEFINE q == [chunk[g] EXCEPT !.at = "show", !.val = global + chunk[g].delta]
  <2>1. chunk' = [chunk EXCEPT ![g] = q] /\ chunk[g].at = "add"
        /\ global' = global + chunk[g].delta /\ UNCHANGED <<counter, lastReported>>
    BY <1>14 DEF AddDelta
  <2>2. global + chunk[g].delta \in Int
    BY <1>0, <1>1
  <2>3. q \in ChunkType /\ q.at = "show"
    BY <1>0, <2>2 DEF ChunkType, Places
  <2> HIDE DEF q
  <2>4. Adding(q) = 0 /\ Adding(chunk[g]) = chunk[g].delta /\ 0 \in 0 .. Total
    BY <1>1, <2>1, <2>3 DEF Adding
  <2>5. Due' = Due
    <3>1. Due' = Due + (global' - global) - chunk[g].delta + 0
      BY <1>0, <1>3, <2>1, <2>3, <2>4, DuePut
    <3> QED
      BY <1>0, <1>1, <1>3, <2>1, <3>1
  <2>6. 0 <= lastReported' /\ lastReported' <= Due' /\ Due <= Due' /\ counter <= counter'
    BY <1>0, <1>3, <2>1, <2>5 DEF Flow
  <2>7. ~Reporting(q) /\ q.at \notin {"store", "add"} /\ q.at # "store"
    BY <2>3 DEF Reporting
  <2>8. NewestDue(g)
    BY <2>1 DEF Flow, NewestDue, Reporting
  <2> QED
    BY <1>0, <1>3, <2>1, <2>3, <2>6, <2>7, <2>8, PutFlow
<1> QED
  BY <1>6, <1>7, <1>8, <1>9, <1>10, <1>11, <1>12, <1>13, <1>14 DEF ChunkStep

LEMMA FlowStep == Types /\ Types' /\ Counted /\ FlowInv /\ [Next]_vars => FlowInv'
<1> SUFFICES ASSUME Types, Types', Counted, FlowInv, [Next]_vars, faults' = 0, mode' = "prefix"
             PROVE  Flow'
  BY DEF FlowInv
<1>1. ASSUME NEW g \in Chunks, ChunkStep(g) PROVE Flow'
  <2>1. mode' = mode /\ (faults' = faults \/ faults' = faults + 1)
    BY <1>1 DEF ChunkStep, Launch, StartAttempt, ReadBlock, ChunkDone, AttemptFails,
       RollBackAndRetry, RollBackAndFail, ShowSingle, ReadLastReported, StoreLastReported,
       AddDelta, ShowPrefix
  <2>2. faults \in Nat
    BY ProgressAssumption DEF Types, TypeOK
  <2> QED
    BY <1>1, <2>1, <2>2, FlowChunkStep DEF FlowInv
<1>2. CASE UNCHANGED vars
  <2>1. Due' = Due
    BY <1>2 DEF vars, Due, Below, Total, Pend
  <2> QED
    BY <1>2, <2>1 DEF vars, FlowInv, Flow
<1> QED
  BY <1>1, <1>2 DEF Next, ChunkStep, Terminated

LEMMA FlowInvariant == Spec => []FlowInv
  BY FlowInitial, FlowStep, TypesInvariant, CountedInvariant, PTL DEF Spec

(* When every chunk has been downloaded the aggregate of multi.go's        *)
(* callback has all of the object: with one goroutine at a time after any  *)
(* failures, and with any number of goroutines, whose accesses to          *)
(* lastReported interleave, as long as nothing fails.                      *)
THEOREM AggregateCompleteHolds == Spec => []AggregateComplete
<1>1. Types /\ SoloInv /\ ShownInv /\ Counted /\ FlowInv => AggregateComplete
  <2> SUFFICES ASSUME Types, SoloInv, ShownInv, Counted, FlowInv, Undisturbed, mode = "prefix",
                      \A g \in Chunks : chunk[g].at = "done"
               PROVE  global >= Total
    BY DEF AggregateComplete
  <2>0. counter \in Int /\ global \in Int /\ Total \in Nat
    BY BaseFits DEF Types, TypeOK
  <2>1. counter = Total
    <3>1. Cardinality(Below(Chunks, ChunkUnits, Got)) = ChunkUnits * Cardinality(Chunks)
      <4>1. \A g \in Chunks : Got[g] = ChunkUnits
        BY DEF Counted, Got
      <4> QED
        BY <4>1, BelowFull, ProgressAssumption
    <3> QED
      BY <3>1, UnitsReadBelow DEF Counted, CounterMatches, CounterExact, Total
  <2>2. CASE faults = 0
    <3>1. Cardinality(Below(Chunks, Total, Pend)) = 0
      <4>1. \A g \in Chunks : Pend[g] = 0
        BY DEF Pend
      <4> HIDE DEF Pend, Total
      <4> QED
        BY <2>0, <4>1, BelowZero
    <3>2. Due = global
      BY <2>0, <3>1 DEF Due
    <3>3. counter <= Due
      BY <2>2 DEF FlowInv, Flow, Reporting
    <3> QED
      BY <2>0, <2>1, <3>2, <3>3
  <2>3. CASE pool = 1
    <3>1. Running = {}
      BY DEF Running
    <3>2. global >= counter
      BY <2>3, <3>1 DEF ShownInv, Shown, Rest
    <3> QED
      BY <2>0, <2>1, <3>2
  <2> QED
    BY <2>2, <2>3 DEF Undisturbed
<1> QED
  BY <1>1, TypesInvariant, SoloInvariant, ShownInvariant, CountedInvariant, FlowInvariant, PTL
=============================================================================
