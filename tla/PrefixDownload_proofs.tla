----------------------- MODULE PrefixDownload_proofs -----------------------
(***************************************************************************)
(* Theorems of PrefixDownload and of the listing it is composed with: for  *)
(* any number of keys and markers, page size, channel, files at a time,    *)
(* failures, interrupts and restarts.                                      *)
(***************************************************************************)
EXTENDS PrefixDownload, FiniteSetTheorems, SequenceTheorems, TLAPS

(* What DownloadPrefix has received, followed by what is on its way in the *)
(* channel: what the listing's goroutine has sent.                         *)
Arrived == objects \o objectCh

Sequences == objectCh \in Seq(Objects) /\ objects \in Seq(Objects)

(* What was sent is from the bucket, in its order, and comes before the    *)
(* rest of the page; the token is at the end of the page.                  *)
Sorted ==
    /\ \A i \in 1 .. Len(Arrived) :
          /\ Arrived[i] \in bucket /\ Arrived[i] <= token
          /\ \A k \in page : Arrived[i] < k
    /\ \A i, j \in 1 .. Len(Arrived) : i < j => Arrived[i] < Arrived[j]
    /\ \A k \in page : k <= token

(* Up to the token nothing is lost; a last page, and a channel closed      *)
(* without an error, have all of the bucket before them.                   *)
Brought(k) == k \in page \/ \E i \in 1 .. Len(Arrived) : Arrived[i] = k
Finished == lister = "closed" /\ errCh = "none"
Lossless ==
    /\ \A k \in bucket \ Markers : k <= token => Brought(k)
    /\ lister \in {"check", "request"} \/ Finished => page = {}
    /\ (lister = "send" /\ ~more) \/ Finished => \A k \in bucket : k <= token

(* DownloadPrefix goes on only when the listing has ended well and was     *)
(* received to its end.                                                    *)
AfterListing == pc \in {"loop", "acquire", "wait"} \/ (pc = "returned" /\ err \notin NotListed)
Waited ==
    /\ AfterListing \/ (pc = "returned" /\ err = "empty") => Finished /\ objectCh = <<>>
    /\ pc # "returned" => err = "none"

ListInv == ListingTypeOK /\ Sequences /\ Sorted /\ Lossless /\ Waited

-----------------------------------------------------------------------------
(* Sets of keys.                                                           *)

(* A finite set of numbers has a greatest element.  A set without one has  *)
(* a subset without one that is minimal, from which nothing can be taken.  *)
LEMMA MaxExists ==
    ASSUME NEW S, IsFiniteSet(S), S \subseteq Nat, S # {}
    PROVE  \E m \in S : \A j \in S : j <= m
<1> DEFINE Bad == {T \in FiniteSubsetsOf(S) : T # {} /\ \A m \in T : \E j \in T : ~ j <= m}
           R == StrictSubsetOrdering(S)
<1> SUFFICES ASSUME ~ \E m \in S : \A j \in S : j <= m PROVE FALSE
  OBVIOUS
<1>1. S \in Bad
  BY DEF FiniteSubsetsOf
<1>2. IsWellFoundedOn(R, FiniteSubsetsOf(S))
  BY FS_StrictSubsetOrderingWellFounded
<1>3. Bad \subseteq FiniteSubsetsOf(S) /\ Bad # {}
  BY <1>1
<1> HIDE DEF Bad, R
<1>4. PICK T \in Bad : \A U \in Bad : <<U, T>> \notin R
  BY <1>2, <1>3, WFMin
<1>5. T \subseteq S /\ IsFiniteSet(T) /\ T # {} /\ \A m \in T : \E j \in T : ~ j <= m
  BY <1>4 DEF Bad, FiniteSubsetsOf
<1>6. PICK x \in T : TRUE
  BY <1>5
<1>7. T \ {x} \in Bad
  <2>1. IsFiniteSet(T \ {x})
    BY <1>5, FS_RemoveElement
  <2>2. T \ {x} # {}
    BY <1>5, <1>6
  <2>3. ASSUME NEW m \in T \ {x}, \A j \in T \ {x} : j <= m PROVE FALSE
    BY <1>5, <1>6, <2>3
  <2> QED
    BY <1>5, <2>1, <2>2, <2>3 DEF Bad, FiniteSubsetsOf
<1>8. <<T \ {x}, T>> \in R
  BY <1>5, <1>6 DEF R, StrictSubsetOrdering
<1> QED
  BY <1>4, <1>7, <1>8

(* A set of numbers that is not empty has a least element.                 *)
LEMMA LeastElement ==
    ASSUME NEW S, S \subseteq Nat, IsFiniteSet(S), S # {}
    PROVE  Least(S) \in S /\ \A j \in S : Least(S) <= j
<1> DEFINE Bad == {T \in FiniteSubsetsOf(S) : T # {} /\ \A m \in T : \E j \in T : ~ m <= j}
           R == StrictSubsetOrdering(S)
<1>1. SUFFICES ASSUME ~ \E m \in S : \A j \in S : m <= j PROVE FALSE
  BY DEF Least
<1>2. S \in Bad
  BY <1>1 DEF FiniteSubsetsOf
<1>3. IsWellFoundedOn(R, FiniteSubsetsOf(S))
  BY FS_StrictSubsetOrderingWellFounded
<1>4. Bad \subseteq FiniteSubsetsOf(S) /\ Bad # {}
  BY <1>2
<1> HIDE DEF Bad, R
<1>5. PICK T \in Bad : \A U \in Bad : <<U, T>> \notin R
  BY <1>3, <1>4, WFMin
<1>6. T \subseteq S /\ IsFiniteSet(T) /\ T # {} /\ \A m \in T : \E j \in T : ~ m <= j
  BY <1>5 DEF Bad, FiniteSubsetsOf
<1>7. PICK x \in T : TRUE
  BY <1>6
<1>8. T \ {x} \in Bad
  <2>1. IsFiniteSet(T \ {x})
    BY <1>6, FS_RemoveElement
  <2>2. T \ {x} # {}
    BY <1>6, <1>7
  <2>3. ASSUME NEW m \in T \ {x}, \A j \in T \ {x} : m <= j PROVE FALSE
    BY <1>6, <1>7, <2>3
  <2> QED
    BY <1>6, <2>1, <2>2, <2>3 DEF Bad, FiniteSubsetsOf
<1>9. <<T \ {x}, T>> \in R
  BY <1>6, <1>7 DEF R, StrictSubsetOrdering
<1> QED
  BY <1>5, <1>8, <1>9

(* A page is a beginning of what comes after the token, and the next token *)
(* is at its end.                                                          *)
LEMMA PageOfKeys ==
    ASSUME bucket \subseteq Keys, token \in Nat, NEW P, P = PageAfter(token)
    PROVE  /\ P \subseteq bucket /\ \A k \in P : k > token /\ k <= NextToken(P)
           /\ NextToken(P) \in Nat /\ token <= NextToken(P)
           /\ \A k \in bucket : k <= NextToken(P) => k <= token \/ k \in P
           /\ P = After(token) => \A k \in bucket : k <= NextToken(P)
<1>1. bucket \subseteq Nat /\ IsFiniteSet(bucket)
  BY ListingAssumption, FS_Subset
<1>2. After(token) \subseteq bucket /\ P \subseteq After(token)
  BY DEF After, PageAfter
<1>3. IsFiniteSet(After(token)) /\ IsFiniteSet(P) /\ P \subseteq Nat
  BY <1>1, <1>2, FS_Subset
<1>4. \A k \in P : k > token
  BY <1>2 DEF After
<1>5. P = {} => NextToken(P) = token
  BY DEF NextToken
<1>6. P # {} => NextToken(P) \in P /\ \A k \in P : k <= NextToken(P)
  BY <1>3, MaxExists DEF NextToken
<1>7. ASSUME NEW k \in P, NEW j \in After(token), j < k PROVE j \in P
  <2> DEFINE Below(n) == {i \in After(token) : i < n}
  <2> After(token) \subseteq Nat /\ j \in Nat /\ k \in Nat
    BY <1>1, <1>2, <1>3, <1>7
  <2>0. \A i \in After(token) : i < j => i < k
    BY <1>7
  <2>1. Below(j) \subseteq Below(k)
    BY <2>0
  <2>2. IsFiniteSet(Below(k)) /\ Below(j) \in SUBSET Below(k)
    BY <1>3, <2>1, FS_Subset
  <2>3. Cardinality(Below(j)) <= Cardinality(Below(k))
        /\ Cardinality(Below(j)) \in Nat /\ Cardinality(Below(k)) \in Nat
    BY <2>2, FS_Subset, FS_CardinalityType
  <2>4. Cardinality(Below(k)) < PageSize
    BY DEF PageAfter
  <2>5. Cardinality(Below(j)) < PageSize
    BY <2>3, <2>4, ListingAssumption
  <2> QED
    BY <2>5 DEF PageAfter
<1>8. ASSUME NEW k \in bucket, k <= NextToken(P), ~ k <= token PROVE k \in P
  <2>1. k \in After(token)
    BY <1>1, <1>8 DEF After
  <2>2. P # {}
    BY <1>1, <1>5, <1>8
  <2>3. k = NextToken(P) \/ k < NextToken(P)
    BY <1>1, <1>3, <1>6, <1>8, <2>2
  <2> QED
    BY <1>6, <1>7, <2>1, <2>2, <2>3
<1>9. token <= NextToken(P) /\ NextToken(P) \in Nat
  BY <1>3, <1>4, <1>5, <1>6
<1>10. ASSUME P = After(token), NEW k \in bucket PROVE k <= NextToken(P)
  <2>1. CASE k \in P
    BY <1>6, <2>1
  <2>2. CASE k \notin P
    BY <1>1, <1>9, <1>10, <2>2 DEF After
  <2> QED
    BY <2>1, <2>2
<1> QED
  BY <1>2, <1>4, <1>6, <1>8, <1>9, <1>10

-----------------------------------------------------------------------------
(* Types of what the listing does not touch.                               *)

Places == Ended \cup {"waiting", "stat", "download", "canceled", "failed"}
Results == {"none", "setup", "list", "empty", "nil", "some", "canceled", "real"}
MainTypes ==
    /\ failFast \in BOOLEAN
    /\ pc \in {"start", "list", "loop", "acquire", "wait", "returned"}
    /\ file \in [Objects -> Places]
    /\ firstErr \in {"none", "canceled", "real"}
    /\ cancelled \in BOOLEAN
    /\ faults \in 0 .. MaxFaults
    /\ runs \in Nat
    /\ err \in Results
    /\ out \in [Objects -> FileStates]

LEMMA MainTypesInitial == Init => MainTypes
<1> SUFFICES ASSUME Init PROVE MainTypes
  OBVIOUS
<1>1. out \in [Objects -> FileStates]
  BY DEF Init, FileStates
<1>2. faults \in 0 .. MaxFaults
  BY PrefixAssumption DEF Init
<1> QED
  BY <1>1, <1>2 DEF Init, MainTypes, Places, Results

LEMMA MainTypesStep == MainTypes /\ [Next]_vars => MainTypes'
<1> SUFFICES ASSUME MainTypes, [Next]_vars PROVE MainTypes'
  OBVIOUS
<1> USE DEF ctl, Places, Results
<1>1. CASE Start
  BY <1>1 DEF Start, MainTypes
<1>2. CASE Listing
  BY <1>2 DEF Listing, MainTypes
<1>3. CASE Receive
  BY <1>3 DEF Receive, MainTypes
<1>4. CASE ListEnds
  BY <1>4 DEF ListEnds, MainTypes
<1>5. CASE CheckLoop
  BY <1>5 DEF CheckLoop, MainTypes
<1>6. ASSUME NEW k \in Objects, Launch(k) PROVE MainTypes'
  BY <1>6 DEF Launch, Move, MainTypes
<1>7. CASE Return
  BY <1>7 DEF Return, Outcome, MainTypes
<1>8. ASSUME NEW k \in Objects, Skip(k) PROVE MainTypes'
  BY <1>8 DEF Skip, Move, MainTypes, Ended
<1>9. ASSUME NEW k \in Objects, StartDownload(k) PROVE MainTypes'
  BY <1>9 DEF StartDownload, ToTemporary, Move, MainTypes
<1>10. ASSUME NEW k \in Objects, DownloadOk(k) PROVE MainTypes'
  BY <1>10 DEF DownloadOk, Move, MainTypes, Ended, FileStates
<1>11. ASSUME NEW k \in Objects, DownloadFails(k) PROVE MainTypes'
  <2>1. faults' \in 0 .. MaxFaults
    BY <1>11, PrefixAssumption DEF DownloadFails, MainTypes
  <2>2. file' \in [Objects -> Places]
    BY <1>11 DEF DownloadFails, Move, MainTypes
  <2> QED
    BY <1>11, <2>1, <2>2 DEF DownloadFails, MainTypes
<1>12. ASSUME NEW k \in Objects, RecordError(k) PROVE MainTypes'
  <2>1. firstErr' \in {"none", "canceled", "real"} /\ cancelled' \in BOOLEAN
    BY <1>12 DEF RecordError, FirstError, MainTypes
  <2>2. file' \in [Objects -> Places]
    BY <1>12 DEF RecordError, Move, MainTypes, Ended
  <2> QED
    BY <1>12, <2>1, <2>2 DEF RecordError, MainTypes
<1>13. CASE Interrupt
  BY <1>13 DEF Interrupt, MainTypes
<1>14. CASE Restart
  <2>1. faults' \in 0 .. MaxFaults /\ runs' \in Nat
    BY <1>14, PrefixAssumption DEF Restart, MainTypes
  <2> QED
    BY <1>14, <2>1 DEF Restart, MainTypes
<1>15. CASE UNCHANGED vars
  BY <1>15 DEF vars, MainTypes
<1> QED
  BY <1>1, <1>2, <1>3, <1>4, <1>5, <1>6, <1>7, <1>8, <1>9, <1>10, <1>11, <1>12, <1>13,
     <1>14, <1>15 DEF Next, MainStep, FileStep, Exited

-----------------------------------------------------------------------------
(* The listing.                                                            *)

LEMMA ListInitial == Init => ListInv
<1> SUFFICES ASSUME Init PROVE ListInv
  OBVIOUS
<1>1. ListingTypeOK /\ Sequences
  <2>1. objectCh = <<>> /\ objects = <<>> /\ page = {} /\ token = 0
    BY DEF Init, InitListing
  <2>2. objectCh \in Seq(Keys) /\ Len(objectCh) <= ChanCap /\ Sequences
    BY <2>1, ListingAssumption DEF Sequences
  <2>3. interrupted \in BOOLEAN /\ more \in BOOLEAN
    BY DEF Init, InitListing
  <2>4. bucket \subseteq Keys /\ lister = "check" /\ errCh = "none"
    BY DEF Init, InitListing
  <2> QED
    BY <2>1, <2>2, <2>3, <2>4 DEF ListingTypeOK
<1>2. Len(Arrived) = 0 /\ page = {} /\ lister = "check" /\ token = 0 /\ pc = "start"
      /\ err = "none"
  BY DEF Init, InitListing, Arrived
<1>3. Sorted
  <2>1. 1 .. Len(Arrived) = {}
    BY <1>2
  <2> QED
    BY <1>2, <2>1 DEF Sorted
<1>4. \A k \in bucket \ Markers : ~ k <= token
  BY <1>2, ListingAssumption DEF Init
<1>5. Lossless
  BY <1>2, <1>4 DEF Lossless, Finished
<1>6. Waited
  BY <1>2 DEF Waited, AfterListing
<1> QED
  BY <1>1, <1>3, <1>5, <1>6 DEF ListInv

(* The steps that neither list nor receive.                                *)
LEMMA ListUntouched ==
    ASSUME ListInv, interrupted' \in BOOLEAN, UNCHANGED <<bucket, listing, objects>>, Waited'
    PROVE  ListInv'
<1> USE DEF listing
<1>1. ListingTypeOK' /\ Sequences'
  BY DEF ListInv, ListingTypeOK, Sequences
<1>2. Arrived' = Arrived
  BY DEF Arrived
<1>3. Sorted'
  BY <1>2 DEF ListInv, Sorted
<1>4. Lossless'
  BY <1>2 DEF ListInv, Lossless, Brought, Finished
<1> QED
  BY <1>1, <1>3, <1>4 DEF ListInv

(* What the channel gives is the next of what arrived.                     *)
LEMMA ReceiveShows == Sequences /\ Receive => Arrived' = Arrived
<1> SUFFICES ASSUME Sequences, Receive PROVE Arrived' = Arrived
  OBVIOUS
<1> DEFINE h == <<Head(objectCh)>>
<1>1. objectCh \in Seq(Objects) /\ objects \in Seq(Objects) /\ objectCh # <<>>
  BY DEF Sequences, Receive
<1>2. Head(objectCh) \in Objects /\ Tail(objectCh) \in Seq(Objects)
  BY <1>1, HeadTailProperties
<1>3. h \in Seq(Objects)
  BY <1>2
<1>4. objects' = objects \o h
  BY <1>1, <1>2, AppendIsConcat DEF Receive
<1>5. h \o Tail(objectCh) = objectCh
  BY <1>1
<1> HIDE DEF h
<1>6. Arrived' = (objects \o h) \o Tail(objectCh)
  BY <1>4 DEF Arrived, Receive
<1>7. (objects \o h) \o Tail(objectCh) = objects \o (h \o Tail(objectCh))
  BY <1>1, <1>2, <1>3, ConcatAssociative
<1> QED
  BY <1>5, <1>6, <1>7 DEF Arrived

(* What is sent is the last of what arrived.                               *)
LEMMA SendShows ==
    ASSUME Sequences, NEW x \in Objects, objectCh' = Append(objectCh, x), objects' = objects
    PROVE  Arrived' = Append(Arrived, x)
<1>1. objectCh \in Seq(Objects) /\ objects \in Seq(Objects)
  BY DEF Sequences
<1>2. objectCh' = objectCh \o <<x>> /\ <<x>> \in Seq(Objects)
  BY <1>1, AppendIsConcat
<1>3. Arrived' = (objects \o objectCh) \o <<x>>
  BY <1>1, <1>2, ConcatAssociative DEF Arrived
<1>4. objects \o objectCh \in Seq(Objects)
  BY <1>1, ConcatProperties
<1> QED
  BY <1>3, <1>4, AppendIsConcat DEF Arrived

LEMMA ReceiveKeeps == ListInv /\ MainTypes /\ Receive => ListInv'
<1> SUFFICES ASSUME ListInv, MainTypes, Receive PROVE ListInv'
  OBVIOUS
<1>1. objectCh \in Seq(Objects) /\ objects \in Seq(Objects) /\ objectCh # <<>>
  BY DEF ListInv, Sequences, Receive
<1>2. /\ Head(objectCh) \in Objects /\ Tail(objectCh) \in Seq(Objects)
      /\ Len(Tail(objectCh)) = Len(objectCh) - 1
  BY <1>1, HeadTailProperties
<1>3. Sequences'
  BY <1>1, <1>2 DEF Sequences, Receive
<1>4. Arrived' = Arrived
  BY ReceiveShows DEF ListInv
<1>5. ListingTypeOK'
  <2>1. objectCh' \in Seq(Keys) /\ Len(objectCh') <= ChanCap
    BY <1>1, <1>2, LenProperties, ListingAssumption
       DEF Receive, ListInv, ListingTypeOK, Objects
  <2> QED
    BY <2>1 DEF Receive, ListInv, ListingTypeOK
<1>6. Sorted'
  BY <1>4 DEF ListInv, Sorted, Receive
<1>7. Lossless'
  BY <1>4 DEF ListInv, Lossless, Brought, Finished, Receive
<1>8. Waited'
  BY DEF ListInv, Waited, AfterListing, Receive
<1> QED
  BY <1>3, <1>5, <1>6, <1>7, <1>8 DEF ListInv

(* The rest of the page, as a set of numbers.                              *)
LEMMA PageFinite ==
    ASSUME ListInv PROVE IsFiniteSet(page) /\ page \subseteq Nat /\ bucket \subseteq Nat
<1>1. bucket \subseteq Keys /\ page \subseteq bucket
  BY DEF ListInv, ListingTypeOK
<1>2. IsFiniteSet(bucket) /\ bucket \subseteq Nat
  BY <1>1, ListingAssumption, FS_Subset
<1> QED
  BY <1>1, <1>2, FS_Subset

LEMMA SendKeeps ==
    ASSUME ListInv, pc = "list", SendObject, UNCHANGED <<interrupted, bucket, pc, objects, err>>
    PROVE  ListInv'
<1> DEFINE x == Least(page)
<1>1. x \in page /\ \A k \in page : x <= k
  BY PageFinite, LeastElement DEF SendObject
<1>2. page \subseteq bucket /\ page \subseteq Nat /\ bucket \subseteq Keys /\ bucket \subseteq Nat
  BY PageFinite DEF ListInv, ListingTypeOK
<1>3. /\ lister = "send" /\ x \notin Markers /\ Len(objectCh) < ChanCap
      /\ objectCh' = Append(objectCh, x) /\ page' = page \ {x}
      /\ UNCHANGED <<lister, token, more, errCh>>
  BY DEF SendObject
<1> HIDE DEF x
<1>4. x \in Objects /\ x \in Nat
  BY <1>1, <1>2, <1>3 DEF Objects
<1>5. objectCh \in Seq(Objects) /\ objects \in Seq(Objects)
  BY DEF ListInv, Sequences
<1>6. Arrived' = Append(Arrived, x)
  BY <1>3, <1>4, SendShows DEF ListInv
<1>7. Arrived \in Seq(Objects)
  BY <1>5, ConcatProperties DEF Arrived
<1>8. /\ Len(Arrived') = Len(Arrived) + 1 /\ Len(Arrived) \in Nat
      /\ \A i \in 1 .. Len(Arrived) : Arrived'[i] = Arrived[i]
      /\ Arrived'[Len(Arrived) + 1] = x
  BY <1>4, <1>6, <1>7, AppendProperties, LenProperties
<1>9. /\ \A i \in 1 .. Len(Arrived) : Arrived[i] \in bucket /\ Arrived[i] <= token
                                      /\ \A k \in page : Arrived[i] < k
      /\ \A i, j \in 1 .. Len(Arrived) : i < j => Arrived[i] < Arrived[j]
      /\ \A k \in page : k <= token
  BY DEF ListInv, Sorted
<1>10. Sequences'
  BY <1>3, <1>4, <1>5, AppendProperties DEF Sequences
<1>11. ListingTypeOK'
  <2>1. objectCh' \in Seq(Keys) /\ Len(objectCh') = Len(objectCh) + 1 /\ Len(objectCh) \in Nat
    BY <1>1, <1>2, <1>3, AppendProperties, LenProperties DEF ListInv, ListingTypeOK
  <2>2. Len(objectCh') <= ChanCap
    BY <1>3, <2>1, ListingAssumption
  <2> QED
    BY <1>3, <2>1, <2>2 DEF ListInv, ListingTypeOK
<1>12. Sorted'
  <2>1. ASSUME NEW i \in 1 .. Len(Arrived')
        PROVE  /\ Arrived'[i] \in bucket /\ Arrived'[i] <= token
               /\ \A k \in page' : Arrived'[i] < k
    <3>1. CASE i \in 1 .. Len(Arrived)
      BY <1>3, <1>8, <1>9, <3>1
    <3>2. CASE i = Len(Arrived) + 1
      BY <1>1, <1>2, <1>3, <1>8, <1>9, <3>2
    <3> QED
      BY <1>8, <2>1, <3>1, <3>2
  <2>2. ASSUME NEW i \in 1 .. Len(Arrived'), NEW j \in 1 .. Len(Arrived'), i < j
        PROVE  Arrived'[i] < Arrived'[j]
    <3>1. i \in 1 .. Len(Arrived)
      BY <1>8, <2>2
    <3>2. CASE j \in 1 .. Len(Arrived)
      BY <1>8, <1>9, <2>2, <3>1, <3>2
    <3>3. CASE j = Len(Arrived) + 1
      BY <1>1, <1>8, <1>9, <3>1, <3>3
    <3> QED
      BY <1>8, <2>2, <3>2, <3>3
  <2> QED
    BY <1>3, <1>9, <2>1, <2>2 DEF Sorted
<1>13. Lossless'
  <2>1. ASSUME NEW k \in bucket \ Markers, k <= token PROVE Brought(k)'
    <3>1. Brought(k)
      BY <2>1 DEF ListInv, Lossless
    <3>2. CASE k = x
      <4>1. Len(Arrived) + 1 \in 1 .. Len(Arrived')
        BY <1>8
      <4> QED
        BY <1>8, <3>2, <4>1 DEF Brought
    <3>3. CASE \E i \in 1 .. Len(Arrived) : Arrived[i] = k
      <4>1. \A i \in 1 .. Len(Arrived) : i \in 1 .. Len(Arrived')
        BY <1>8
      <4> QED
        BY <1>8, <3>3, <4>1 DEF Brought
    <3> QED
      BY <1>3, <3>1, <3>2, <3>3 DEF Brought
  <2>2. (~more => \A k \in bucket : k <= token)
    BY <1>3 DEF ListInv, Lossless
  <2> QED
    BY <1>3, <2>1, <2>2 DEF Lossless, Finished
<1>14. Waited'
  BY DEF ListInv, Waited, AfterListing
<1> QED
  BY <1>10, <1>11, <1>12, <1>13, <1>14 DEF ListInv

LEMMA ListingKeeps == ListInv /\ Listing => ListInv'
<1> SUFFICES ASSUME ListInv, Listing PROVE ListInv'
  OBVIOUS
<1>0. pc = "list" /\ UNCHANGED <<interrupted, bucket, pc, objects, err>>
  BY DEF Listing
<1>1. ListingTypeOK /\ Sequences /\ Sorted /\ Lossless /\ Waited
  BY DEF ListInv
<1>2. Waited'
  BY <1>0, <1>1 DEF Waited, AfterListing
<1>3. ASSUME UNCHANGED <<token, page, more, objectCh>>,
             \/ lister' = "closed" /\ errCh' \in {"canceled", "page"}
             \/ lister' \in {"request", "check", "closed"} /\ errCh' \in {"none", errCh}
                /\ page = {} /\ (lister' = "closed" => lister = "send" /\ ~more)
      PROVE  ListInv'
  <2>1. Arrived' = Arrived
    BY <1>0, <1>3 DEF Arrived
  <2>2. ListingTypeOK' /\ Sequences'
    BY <1>0, <1>1, <1>3 DEF ListingTypeOK, Sequences
  <2>3. Sorted'
    BY <1>0, <1>1, <1>3, <2>1 DEF Sorted
  <2>4. Lossless'
    BY <1>0, <1>1, <1>3, <2>1 DEF Lossless, Brought, Finished
  <2> QED
    BY <1>2, <2>2, <2>3, <2>4 DEF ListInv
<1>4. CASE CheckContext
  BY <1>1, <1>3, <1>4 DEF CheckContext, Close, CancelError, Lossless
<1>5. CASE PageFails
  BY <1>3, <1>5 DEF PageFails, Close
<1>6. CASE SendCancelled
  BY <1>3, <1>6 DEF SendCancelled, Close, CancelError
<1>7. CASE PageDone
  BY <1>3, <1>7 DEF PageDone, Close
<1>8. CASE SendObject
  BY <1>0, <1>8, SendKeeps
<1>9. CASE SkipMarker
  <2>1. Arrived' = Arrived
    BY <1>0, <1>9 DEF Arrived, SkipMarker
  <2>2. /\ page' \subseteq page /\ UNCHANGED <<lister, token, more, objectCh, errCh>>
        /\ lister = "send" /\ \A k \in page \ Markers : k \in page'
    BY <1>9 DEF SkipMarker
  <2>3. ListingTypeOK' /\ Sequences'
    BY <1>0, <1>1, <2>2 DEF ListingTypeOK, Sequences
  <2>4. Sorted'
    BY <1>0, <1>1, <2>1, <2>2 DEF Sorted
  <2>5. Lossless'
    BY <1>0, <1>1, <2>1, <2>2 DEF Lossless, Brought, Finished
  <2> QED
    BY <1>2, <2>3, <2>4, <2>5 DEF ListInv
<1>10. CASE PageReply
  <2>1. /\ lister = "request" /\ page = {} /\ page' = PageAfter(token)
        /\ token' = NextToken(page') /\ more' = (After(token) # page')
        /\ lister' = "send" /\ UNCHANGED <<objectCh, errCh>>
    BY <1>1, <1>10 DEF PageReply, Lossless
  <2>2. Arrived' = Arrived
    BY <1>0, <2>1 DEF Arrived
  <2>3. bucket \subseteq Keys /\ token \in Nat /\ bucket \subseteq Nat
    BY <1>1, PageFinite DEF ListingTypeOK
  <2>4. /\ page' \subseteq bucket /\ \A k \in page' : k > token /\ k <= token'
        /\ token' \in Nat /\ token <= token'
        /\ \A k \in bucket : k <= token' => k <= token \/ k \in page'
        /\ ~more' => \A k \in bucket : k <= token'
    BY <2>1, <2>3, PageOfKeys
  <2>5. ListingTypeOK' /\ Sequences'
    <3>1. more' \in BOOLEAN
      BY <2>1
    <3> QED
      BY <1>0, <1>1, <2>1, <2>4, <3>1 DEF ListingTypeOK, Sequences
  <2>6. Sorted'
    <3>1. ASSUME NEW i \in 1 .. Len(Arrived)
          PROVE  Arrived[i] \in bucket /\ Arrived[i] <= token' /\ \A k \in page' : Arrived[i] < k
      <4>1. Arrived[i] \in Nat /\ Arrived[i] \in bucket /\ Arrived[i] <= token
        BY <1>1, <2>3, <3>1 DEF Sorted
      <4> QED
        BY <2>3, <2>4, <4>1
    <3> QED
      BY <1>0, <1>1, <2>2, <2>4, <3>1 DEF Sorted
  <2>7. Lossless'
    <3>1. ASSUME NEW k \in bucket \ Markers, k <= token' PROVE Brought(k)'
      BY <1>1, <2>1, <2>2, <2>4, <3>1 DEF Lossless, Brought
    <3> QED
      BY <1>0, <2>1, <2>4, <3>1 DEF Lossless, Finished
  <2> QED
    BY <1>2, <2>5, <2>6, <2>7 DEF ListInv
<1> QED
  BY <1>4, <1>5, <1>6, <1>7, <1>8, <1>9, <1>10 DEF Listing, ListerStep, PageCancelled

LEMMA RestartLists == ListInv /\ Restart => ListInv'
<1> SUFFICES ASSUME ListInv, Restart PROVE ListInv'
  OBVIOUS
<1>1. /\ bucket' \subseteq Keys /\ interrupted' = FALSE /\ lister' = "check" /\ token' = 0
      /\ page' = {} /\ more' = FALSE /\ objectCh' = <<>> /\ errCh' = "none" /\ objects' = <<>>
      /\ pc' = "start" /\ err' = "none"
  BY DEF Restart, ResetListing, ListInv, ListingTypeOK
<1>2. 1 .. Len(Arrived') = {}
  BY <1>1 DEF Arrived
<1>3. Sequences' /\ objectCh' \in Seq(Keys) /\ Len(objectCh') <= ChanCap
  BY <1>1, ListingAssumption DEF Sequences
<1>4. ListingTypeOK'
  BY <1>1, <1>3 DEF ListingTypeOK
<1>5. Sorted'
  BY <1>1, <1>2 DEF Sorted
<1>6. \A k \in bucket' : ~ k <= 0
  BY <1>1, ListingAssumption
<1>7. Lossless'
  BY <1>1, <1>6 DEF Lossless, Finished
<1>8. Waited'
  BY <1>1 DEF Waited, AfterListing
<1> QED
  BY <1>3, <1>4, <1>5, <1>7, <1>8 DEF ListInv

LEMMA ListStep == ListInv /\ MainTypes /\ [Next]_vars => ListInv'
<1> SUFFICES ASSUME ListInv, MainTypes, [Next]_vars PROVE ListInv'
  OBVIOUS
<1> USE DEF ctl, listing
<1>0. interrupted \in BOOLEAN /\ Waited
  BY DEF ListInv, ListingTypeOK
<1>1. CASE Start
  <2>1. Waited'
    BY <1>0, <1>1 DEF Start, Waited, AfterListing, NotListed
  <2> QED
    BY <1>0, <1>1, <2>1, ListUntouched DEF Start
<1>2. CASE Listing
  BY <1>2, ListingKeeps
<1>3. CASE Receive
  BY <1>3, ReceiveKeeps
<1>4. CASE ListEnds
  <2>1. Waited'
    BY <1>0, <1>4 DEF ListEnds, Waited, AfterListing, Finished, NotListed
  <2> QED
    BY <1>0, <1>4, <2>1, ListUntouched DEF ListEnds
<1>5. CASE CheckLoop
  <2>1. Waited'
    BY <1>0, <1>5 DEF CheckLoop, Waited, AfterListing, Finished
  <2> QED
    BY <1>0, <1>5, <2>1, ListUntouched DEF CheckLoop
<1>6. CASE \E k \in Objects : Launch(k)
  <2>1. pc = "acquire" /\ pc' = "loop" /\ UNCHANGED <<interrupted, bucket, listing, objects, err>>
    BY <1>6 DEF Launch
  <2>2. Waited'
    BY <1>0, <2>1 DEF Waited, AfterListing, Finished
  <2> QED
    BY <1>0, <2>1, <2>2, ListUntouched
<1>7. CASE Return
  <2>1. err' \notin {"setup", "list", "empty"}
    BY <1>7 DEF Return, Outcome, MainTypes
  <2>2. Waited'
    BY <1>0, <1>7, <2>1 DEF Return, Waited, AfterListing, Finished
  <2> QED
    BY <1>0, <1>7, <2>2, ListUntouched DEF Return
<1>8. CASE \E k \in Objects : FileStep(k)
  <2>1. UNCHANGED <<interrupted, bucket, listing, objects, pc, err>>
    BY <1>8 DEF FileStep, Skip, StartDownload, DownloadOk, DownloadFails, RecordError
  <2>2. Waited'
    BY <1>0, <2>1 DEF Waited, AfterListing, Finished
  <2> QED
    BY <1>0, <2>1, <2>2, ListUntouched
<1>9. CASE Interrupt
  <2>1. interrupted' \in BOOLEAN /\ UNCHANGED <<bucket, listing, objects, pc, err>>
    BY <1>9 DEF Interrupt
  <2>2. Waited'
    BY <1>0, <2>1 DEF Waited, AfterListing, Finished
  <2> QED
    BY <2>1, <2>2, ListUntouched
<1>10. CASE Restart
  BY <1>10, RestartLists
<1>11. CASE UNCHANGED vars
  <2>1. UNCHANGED <<interrupted, bucket, listing, objects, pc, err>>
    BY <1>11 DEF vars
  <2>2. Waited'
    BY <1>0, <2>1 DEF Waited, AfterListing, Finished
  <2> QED
    BY <1>0, <2>1, <2>2, ListUntouched
<1> QED
  BY <1>1, <1>2, <1>3, <1>4, <1>5, <1>6, <1>7, <1>8, <1>9, <1>10, <1>11
     DEF Next, MainStep, Exited

LEMMA ListInvariant == Spec => [](ListInv /\ MainTypes)
  BY ListInitial, ListStep, MainTypesInitial, MainTypesStep, PTL DEF Spec

(* The objects arrive in the bucket's order, each of them once.            *)
ListedOnce == \A i, j \in DOMAIN Arrived : i < j => Arrived[i] < Arrived[j]

(* ... for any number of pages and restarts: two goroutines never download *)
(* one key.                                                                *)
THEOREM ListedOnceHolds == Spec => []ListedOnce
<1>1. ListInv => ListedOnce
  <2> SUFFICES ASSUME ListInv PROVE ListedOnce
    OBVIOUS
  <2>1. Arrived \in Seq(Objects)
    BY ConcatProperties DEF ListInv, Sequences, Arrived
  <2>2. DOMAIN Arrived = 1 .. Len(Arrived)
    BY <2>1, LenProperties
  <2> QED
    BY <2>2 DEF ListInv, Sorted, ListedOnce, Arrived
<1> QED
  BY <1>1, ListInvariant, PTL

(* The objects that have not arrived are on the rest of the page or after  *)
(* it; the next one to be sent is the first of them.                       *)
LEMMA RestOfListing ==
    ASSUME ListInv
    PROVE  /\ Ordered!Rest = {k \in bucket \ Markers : ~ \E i \in 1 .. Len(Arrived) : Arrived[i] = k}
           /\ \A k \in Ordered!Rest : k \in page \/ ~ k <= token
           /\ page \ Markers \subseteq Ordered!Rest
<1>1. Arrived \in Seq(Objects) /\ DOMAIN Arrived = 1 .. Len(Arrived)
  BY ConcatProperties, LenProperties DEF ListInv, Sequences, Arrived
<1>2. Ordered!Rest = {k \in bucket \ Markers : ~ \E i \in 1 .. Len(Arrived) : Arrived[i] = k}
  BY <1>1 DEF Ordered!Rest, Arrived
<1>3. ASSUME NEW k \in bucket \ Markers, ~ \E i \in 1 .. Len(Arrived) : Arrived[i] = k, k <= token
      PROVE  k \in page
  BY <1>3 DEF ListInv, Lossless, Brought
<1>4. ASSUME NEW k \in page \ Markers, NEW i \in 1 .. Len(Arrived) PROVE Arrived[i] # k
  <2>1. Arrived[i] < k /\ k \in Nat
    BY <1>4, PageFinite DEF ListInv, Sorted
  <2> QED
    BY <2>1
<1>5. page \subseteq bucket
  BY DEF ListInv, ListingTypeOK
<1> QED
  BY <1>2, <1>3, <1>4, <1>5

LEMMA SendDelivers ==
    ASSUME ListInv, SendObject, UNCHANGED <<bucket, objects>>
    PROVE  Ordered!Deliver
<1> DEFINE x == Least(page)
<1>1. x \in page /\ \A k \in page : x <= k
  BY PageFinite, LeastElement DEF SendObject
<1>2. /\ lister = "send" /\ x \notin Markers /\ objectCh' = Append(objectCh, x)
      /\ UNCHANGED <<lister, errCh>>
  BY DEF SendObject
<1> HIDE DEF x
<1>3. /\ page \subseteq bucket /\ page \subseteq Nat /\ bucket \subseteq Keys /\ bucket \subseteq Nat
      /\ token \in Nat /\ x <= token
  BY <1>1, PageFinite DEF ListInv, ListingTypeOK, Sorted
<1>4. x \in Objects /\ Sequences
  BY <1>1, <1>2, <1>3 DEF Objects, ListInv
<1>5. Arrived' = Append(Arrived, x)
  BY <1>2, <1>4, SendShows
<1>6. x \in Ordered!Rest
  BY <1>1, <1>2, RestOfListing
<1>7. ASSUME NEW j \in Ordered!Rest PROVE x <= j
  <2>1. j \in Nat /\ x \in Nat
    BY <1>1, <1>3, RestOfListing
  <2>2. j \in page \/ ~ j <= token
    BY RestOfListing
  <2> QED
    BY <1>1, <1>3, <2>1, <2>2
<1> QED
  BY <1>2, <1>5, <1>6, <1>7 DEF Ordered!Deliver, Arrived

(* The listing implements OrderedListing, whatever the pages, the channel  *)
(* and its reader, cancellations, errors and restarts are.                 *)
THEOREM ListsInOrderHolds == Spec => ListsInOrder
<1>1. Init => Ordered!Init
  <2> SUFFICES ASSUME Init PROVE Ordered!Init
    OBVIOUS
  <2>1. objects \o objectCh = <<>> /\ lister = "check" /\ bucket \subseteq Keys
    BY DEF Init, InitListing
  <2> QED
    BY <2>1 DEF Ordered!Init
<1>2. ListInv /\ [Next]_vars => [Ordered!Next]_(Ordered!vars)
  <2> SUFFICES ASSUME ListInv, [Next]_vars PROVE [Ordered!Next]_(Ordered!vars)
    OBVIOUS
  <2> USE DEF Ordered!Next, Ordered!vars
  <2>0. ListingTypeOK /\ Sequences /\ Lossless
    BY DEF ListInv
  <2>1. CASE Listing
    <3>1. UNCHANGED <<bucket, objects>>
      BY <2>1 DEF Listing
    <3>2. CASE SendObject
      BY <3>1, <3>2, SendDelivers
    <3>3. CASE SkipMarker \/ PageReply
      BY <3>1, <3>3 DEF SkipMarker, PageReply
    <3>4. CASE PageFails \/ SendCancelled
      BY <3>1, <3>4 DEF PageFails, SendCancelled, Close, CancelError, Ordered!Fail
    <3>5. CASE CheckContext
      BY <3>1, <3>5 DEF CheckContext, Close, CancelError, Ordered!Fail
    <3>6. CASE PageDone
      <4>1. CASE more
        BY <3>1, <3>6, <4>1 DEF PageDone
      <4>2. CASE ~more
        <5>1. \A k \in bucket : k <= token
          BY <2>0, <3>6, <4>2 DEF PageDone, Lossless
        <5>2. page = {}
          BY <3>6 DEF PageDone
        <5>3. Ordered!Rest = {}
          BY <5>1, <5>2, RestOfListing
        <5> QED
          BY <3>1, <3>6, <4>2, <5>3 DEF PageDone, Close, Ordered!Finish
      <4> QED
        BY <4>1, <4>2
    <3> QED
      BY <2>1, <3>2, <3>3, <3>4, <3>5, <3>6 DEF Listing, ListerStep, PageCancelled
  <2>2. CASE Receive
    <3>1. Arrived' = Arrived
      BY <2>0, <2>2, ReceiveShows
    <3> QED
      BY <2>2, <3>1 DEF Receive, Arrived
  <2>3. CASE Restart
    <3>1. /\ objects' \o objectCh' = <<>> /\ bucket' = bucket /\ lister' = "check"
      BY <2>3 DEF Restart, ResetListing
    <3> QED
      BY <3>1 DEF Ordered!Restart
  <2>4. CASE \/ Start \/ ListEnds \/ CheckLoop \/ (\E k \in Objects : Launch(k)) \/ Return
             \/ (\E k \in Objects : FileStep(k)) \/ Interrupt \/ Exited \/ UNCHANGED vars
    <3>1. UNCHANGED <<bucket, objects, objectCh, lister, errCh>>
      BY <2>4 DEF Start, ListEnds, CheckLoop, Launch, Return, FileStep, Skip, StartDownload,
                  DownloadOk, DownloadFails, RecordError, Interrupt, Exited, vars, ctl, listing
    <3> QED
      BY <3>1
  <2> QED
    BY <2>1, <2>2, <2>3, <2>4 DEF Next, MainStep
<1> QED
  BY <1>1, <1>2, ListInvariant, PTL DEF Spec, ListsInOrder, Ordered!Spec

(* When DownloadPrefix goes on after the listing it has received every     *)
(* object of the bucket, and nothing else.                                 *)
LEMMA AllListed ==
    ASSUME ListInv, AfterListing \/ (pc = "returned" /\ err = "empty")
    PROVE  Listed = bucket \ Markers
<1>1. objectCh = <<>> /\ Finished
  BY DEF ListInv, Waited
<1>2. objects \in Seq(Objects) /\ Arrived = objects /\ DOMAIN objects = 1 .. Len(objects)
  BY <1>1, ConcatEmptySeq, LenProperties DEF ListInv, Sequences, Arrived
<1>3. ASSUME NEW k \in bucket \ Markers PROVE k \in Listed
  <2>1. Brought(k) /\ page = {}
    BY <1>1 DEF ListInv, Lossless
  <2> QED
    BY <1>2, <2>1 DEF Brought, Listed, Range
<1>4. ASSUME NEW k \in Listed PROVE k \in bucket \ Markers
  <2>1. PICK i \in 1 .. Len(objects) : k = objects[i]
    BY <1>2 DEF Listed, Range
  <2>2. k \in Objects
    BY <1>2, <2>1, ElementOfSeq
  <2>3. k \in bucket
    BY <1>2, <2>1 DEF ListInv, Sorted
  <2> QED
    BY <2>2, <2>3 DEF Objects
<1> QED
  BY <1>3, <1>4

(* A listing that ends without an error has brought every object of the    *)
(* bucket, whatever was cancelled, and when.                               *)
THEOREM ListingCompleteHolds == Spec => []ListingComplete
<1>1. ListInv /\ MainTypes => ListingComplete
  BY AllListed DEF MainTypes, ListingComplete, AfterListing, NotListed
<1> QED
  BY <1>1, ListInvariant, PTL

-----------------------------------------------------------------------------
(* The files.                                                              *)

Busy == {"stat", "download", "canceled", "failed"}

(* No file is touched before the listing has ended well.                   *)
Idle ==
    pc \in {"start", "list"} \/ (pc = "returned" /\ err \in NotListed)
        => \A k \in Objects : file[k] = "waiting"

Quiet == pc = "returned" => \A k \in Objects : file[k] \notin Busy

(* Nothing of the right size is incomplete; what was skipped or downloaded *)
(* is complete.                                                            *)
Whole ==
    \A k \in Objects :
        /\ out[k] # "partial"
        /\ file[k] \in {"skipped", "ok"} => Complete(out[k])

(* What FailFast records, and where an echo of a cancellation can be.      *)
Recorded ==
    /\ firstErr # "none" <=> failFast /\ \E k \in Objects : file[k] = "error"
    /\ cancelled <=> firstErr # "none"
Echo ==
    /\ firstErr = "canceled" => interrupted
    /\ \A k \in Objects : file[k] = "canceled" => interrupted \/ firstErr # "none"

(* The loop was left early only because of the context.                    *)
AllTried ==
    (pc = "wait" \/ (pc = "returned" /\ err \notin NotListed)) /\ ~interrupted /\ ~cancelled
        => \A k \in Listed : file[k] # "waiting"

Told == (pc = "returned" /\ err \notin NotListed) => err = Outcome

FileInv == Idle /\ Quiet /\ Whole /\ Recorded /\ Echo /\ AllTried /\ Told

LEMMA FilesInitial == Init => FileInv
<1> SUFFICES ASSUME Init PROVE FileInv
  OBVIOUS
<1>1. /\ pc = "start" /\ firstErr = "none" /\ cancelled = FALSE
      /\ \A k \in Objects : file[k] = "waiting" /\ out[k] \in {"none", "other", "lookalike"}
  BY DEF Init
<1> QED
  BY <1>1 DEF FileInv, Idle, Quiet, Whole, Recorded, Echo, AllTried, Told

(* The steps of DownloadPrefix's own goroutine.                            *)
LEMMA FilesUntouched ==
    ASSUME FileInv, interrupted => interrupted',
           UNCHANGED <<failFast, file, firstErr, cancelled, out>>,
           Idle', Quiet', AllTried', Told'
    PROVE  FileInv'
<1>1. Whole'
  BY DEF FileInv, Whole
<1>2. Recorded' /\ Echo'
  BY DEF FileInv, Recorded, Echo
<1> QED
  BY <1>1, <1>2 DEF FileInv

LEMMA MainKeepsFiles ==
    ASSUME FileInv, MainTypes,
           Start \/ Listing \/ Receive \/ ListEnds \/ CheckLoop \/ Return \/ Interrupt \/ UNCHANGED vars
    PROVE  FileInv'
<1> USE DEF ctl
<1>1. UNCHANGED <<failFast, file, firstErr, cancelled, out>>
  BY DEF Start, Listing, Receive, ListEnds, CheckLoop, Return, Interrupt, vars
<1>2. interrupted => interrupted'
  BY DEF Start, Listing, Receive, ListEnds, CheckLoop, Return, Interrupt, vars
<1>3. Idle'
  <2>1. \/ pc' \in {"start", "list"} => pc \in {"start", "list"}
    BY DEF Start, Listing, Receive, ListEnds, CheckLoop, Return, Interrupt, vars
  <2>2. (pc' = "returned" /\ err' \in NotListed)
           => pc \in {"start", "list"} \/ (pc = "returned" /\ err \in NotListed)
    BY DEF Start, Listing, Receive, ListEnds, CheckLoop, Return, Interrupt, vars, NotListed,
           Outcome, MainTypes
  <2> QED
    BY <1>1, <2>1, <2>2 DEF FileInv, Idle
<1>4. Quiet'
  <2>1. CASE Return
    BY <1>1, <2>1 DEF Return, AllReturned, Active, Quiet, Busy
  <2>2. CASE ~Return
    <3>1. pc' = "returned" => pc \in {"start", "list", "returned"}
      BY <2>2 DEF Start, Listing, Receive, ListEnds, CheckLoop, Interrupt, vars
    <3>2. pc \in {"start", "list"} => \A k \in Objects : file[k] \notin Busy
      BY DEF FileInv, Idle, Busy
    <3> QED
      BY <1>1, <3>1, <3>2 DEF FileInv, Quiet
  <2> QED
    BY <2>1, <2>2
<1>5. AllTried'
  <2>1. CASE CheckLoop
    BY <1>1, <2>1 DEF CheckLoop, Remaining, ctxDone, AllTried, Listed
  <2>2. CASE ~CheckLoop
    <3>1. pc' = "wait" => pc = "wait" /\ UNCHANGED objects
      BY <2>2 DEF Start, Listing, Receive, ListEnds, Return, Interrupt, vars
    <3>2. (pc' = "returned" /\ err' \notin NotListed)
             => UNCHANGED objects /\ (pc = "wait" \/ (pc = "returned" /\ err \notin NotListed))
      BY <2>2 DEF Start, Listing, Receive, ListEnds, Return, Interrupt, vars, NotListed
    <3> QED
      BY <1>1, <1>2, <3>1, <3>2 DEF FileInv, AllTried, Listed
  <2> QED
    BY <2>1, <2>2
<1>6. Told'
  <2>1. Outcome' = Outcome
    BY <1>1 DEF Outcome, Errors
  <2>2. (pc' = "returned" /\ err' \notin NotListed)
           => err' = Outcome \/ (pc = "returned" /\ err \notin NotListed /\ err' = err)
    BY DEF Start, Listing, Receive, ListEnds, CheckLoop, Return, Interrupt, vars, NotListed
  <2> QED
    BY <2>1, <2>2 DEF FileInv, Told
<1> QED
  BY <1>1, <1>2, <1>3, <1>4, <1>5, <1>6, FilesUntouched

(* A step of a file's goroutine: DownloadPrefix has not returned.          *)
LEMMA GoroutineKeeps ==
    ASSUME FileInv, MainTypes, NEW k \in Objects, file[k] \in Busy,
           NEW place \in Places \ {"waiting"}, Move(k, place),
           UNCHANGED <<pc, err, interrupted, objects>>, cancelled => cancelled',
           Whole', Recorded', Echo'
    PROVE  FileInv'
<1>1. pc # "returned" /\ pc \notin {"start", "list"}
  BY DEF FileInv, Quiet, Idle, Busy
<1>2. \A j \in Objects : file'[j] = "waiting" => file[j] = "waiting"
  BY DEF Move, MainTypes
<1>3. Idle' /\ Quiet' /\ Told'
  BY <1>1 DEF Idle, Quiet, Told
<1>4. AllTried'
  <2>1. ASSUME NEW j \in Listed, file'[j] = "waiting" PROVE file[j] = "waiting"
    BY <2>1, <1>2 DEF Move, MainTypes
  <2> QED
    BY <1>1, <2>1 DEF FileInv, AllTried, Listed
<1> QED
  BY <1>3, <1>4 DEF FileInv

LEMMA FileStepKeeps ==
    ASSUME FileInv, MainTypes, NEW k \in Objects, FileStep(k) PROVE FileInv'
<1> USE DEF ctl
<1>0. Whole /\ Recorded /\ Echo
  BY DEF FileInv
<1>1. CASE Skip(k)
  <2>1. /\ file[k] = "stat" /\ Move(k, "skipped") /\ Complete(out[k])
        /\ UNCHANGED <<failFast, firstErr, cancelled, out, pc, err, interrupted, objects>>
    BY <1>0, <1>1 DEF Skip, Skippable, SameSize, Complete, Whole
  <2>2. \A j \in Objects : file'[j] = IF j = k THEN "skipped" ELSE file[j]
    BY <2>1 DEF Move, MainTypes
  <2>3. Whole' /\ Recorded' /\ Echo'
    BY <1>0, <2>1, <2>2 DEF Whole, Recorded, Echo
  <2> QED
    BY <2>1, <2>3, GoroutineKeeps DEF Busy, Places, Ended
<1>2. CASE StartDownload(k)
  <2>1. /\ file[k] = "stat" /\ Move(k, "download")
        /\ UNCHANGED <<failFast, firstErr, cancelled, pc, err, interrupted, objects>>
        /\ \A j \in Objects : out'[j] = out[j]
    BY <1>2 DEF StartDownload, ToTemporary, MainTypes
  <2>2. \A j \in Objects : file'[j] = IF j = k THEN "download" ELSE file[j]
    BY <2>1 DEF Move, MainTypes
  <2>3. Whole' /\ Recorded' /\ Echo'
    BY <1>0, <2>1, <2>2 DEF Whole, Recorded, Echo
  <2> QED
    BY <2>1, <2>3, GoroutineKeeps DEF Busy, Places
<1>3. CASE DownloadOk(k)
  <2>1. /\ file[k] = "download" /\ Move(k, "ok")
        /\ UNCHANGED <<failFast, firstErr, cancelled, pc, err, interrupted, objects>>
        /\ \A j \in Objects : out'[j] = IF j = k THEN "object" ELSE out[j]
    BY <1>3 DEF DownloadOk, MainTypes
  <2>2. \A j \in Objects : file'[j] = IF j = k THEN "ok" ELSE file[j]
    BY <2>1 DEF Move, MainTypes
  <2>3. Whole' /\ Recorded' /\ Echo'
    BY <1>0, <2>1, <2>2 DEF Whole, Recorded, Echo, Complete
  <2> QED
    BY <2>1, <2>3, GoroutineKeeps DEF Busy, Places, Ended
<1>4. CASE DownloadFails(k)
  <2>1. PICK place \in {"failed", "canceled"} :
           /\ file[k] = "download" /\ Move(k, place)
           /\ UNCHANGED <<failFast, firstErr, cancelled, out, pc, err, interrupted, objects>>
           /\ place = "canceled" => interrupted \/ cancelled
    BY <1>4 DEF DownloadFails, ctxDone
  <2>2. \A j \in Objects : file'[j] = IF j = k THEN place ELSE file[j]
    BY <2>1 DEF Move, MainTypes
  <2>3. Whole' /\ Recorded'
    BY <1>0, <2>1, <2>2 DEF Whole, Recorded
  <2>4. Echo'
    BY <1>0, <2>1, <2>2 DEF Echo, Recorded
  <2> QED
    BY <2>1, <2>3, <2>4, GoroutineKeeps DEF Busy, Places
<1>5. CASE RecordError(k)
  <2>1. /\ file[k] \in {"failed", "canceled"} /\ Move(k, "error")
        /\ UNCHANGED <<failFast, out, pc, err, interrupted, objects>>
        /\ ~failFast => UNCHANGED <<firstErr, cancelled>>
        /\ failFast => cancelled' = TRUE
              /\ firstErr' = IF firstErr # "none" THEN firstErr
                             ELSE IF file[k] = "failed" THEN "real" ELSE "canceled"
    BY <1>5 DEF RecordError, StopsOthers, FirstError, MainTypes
  <2>2. \A j \in Objects : file'[j] = IF j = k THEN "error" ELSE file[j]
    BY <2>1 DEF Move, MainTypes
  <2>3. Whole'
    BY <1>0, <2>1, <2>2 DEF Whole
  <2>4. Recorded'
    <3>1. CASE failFast
      <4>1. firstErr' # "none" /\ cancelled' /\ file'[k] = "error"
        BY <2>1, <2>2, <3>1
      <4> QED
        BY <2>1, <3>1, <4>1 DEF Recorded
    <3>2. CASE ~failFast
      BY <1>0, <2>1, <3>2 DEF Recorded
    <3> QED
      BY <3>1, <3>2
  <2>5. Echo'
    <3>1. firstErr' = "canceled" => interrupted'
      BY <1>0, <2>1 DEF Echo
    <3>2. firstErr # "none" => firstErr' # "none"
      BY <2>1
    <3> QED
      BY <1>0, <2>1, <2>2, <3>1, <3>2 DEF Echo
  <2>6. cancelled => cancelled'
    BY <2>1
  <2> QED
    BY <2>1, <2>3, <2>4, <2>5, <2>6, GoroutineKeeps DEF Busy, Places, Ended
<1> QED
  BY <1>1, <1>2, <1>3, <1>4, <1>5 DEF FileStep

LEMMA LaunchKeeps ==
    ASSUME FileInv, MainTypes, NEW k \in Objects, Launch(k) PROVE FileInv'
<1>1. /\ pc = "acquire" /\ pc' = "loop" /\ file[k] = "waiting" /\ Move(k, "stat")
      /\ UNCHANGED <<failFast, interrupted, objects, firstErr, cancelled, out, err>>
  BY DEF Launch, ctl
<1>2. \A j \in Objects : file'[j] = IF j = k THEN "stat" ELSE file[j]
  BY <1>1 DEF Move, MainTypes
<1>3. Idle' /\ Quiet' /\ AllTried' /\ Told'
  BY <1>1 DEF Idle, Quiet, AllTried, Told
<1>4. Whole' /\ Recorded' /\ Echo'
  BY <1>1, <1>2 DEF FileInv, Whole, Recorded, Echo
<1> QED
  BY <1>3, <1>4 DEF FileInv

LEMMA RestartKeepsFiles == ASSUME FileInv, MainTypes, Restart PROVE FileInv'
<1>1. /\ pc' = "start" /\ firstErr' = "none" /\ cancelled' = FALSE /\ UNCHANGED out
      /\ \A k \in Objects : file'[k] = "waiting"
  BY DEF Restart
<1>2. \A k \in Objects : out[k] # "partial"
  BY DEF FileInv, Whole
<1> QED
  BY <1>1, <1>2 DEF FileInv, Idle, Quiet, Whole, Recorded, Echo, AllTried, Told

LEMMA FilesStep == FileInv /\ MainTypes /\ [Next]_vars => FileInv'
<1> SUFFICES ASSUME FileInv, MainTypes, [Next]_vars PROVE FileInv'
  OBVIOUS
<1>1. CASE \E k \in Objects : Launch(k)
  BY <1>1, LaunchKeeps
<1>2. CASE \E k \in Objects : FileStep(k)
  BY <1>2, FileStepKeeps
<1>3. CASE Restart
  BY <1>3, RestartKeepsFiles
<1> QED
  BY <1>1, <1>2, <1>3, MainKeepsFiles DEF Next, MainStep, Exited

LEMMA FileInvariant == Spec => []FileInv
  BY FilesInitial, FilesStep, ListInvariant, PTL DEF Spec

-----------------------------------------------------------------------------
(* The semaphore.                                                          *)

Fits == Cardinality(Active) <= Slots

LEMMA FewerActive ==
    ASSUME Fits, \A k \in Objects : file'[k] \in Busy => file[k] \in Busy
    PROVE  Fits'
<1>1. IsFiniteSet(Active) /\ Active' \in SUBSET Active
  <2>1. IsFiniteSet(Objects)
    BY ListingAssumption, FS_Subset DEF Objects
  <2>2. Active \in SUBSET Objects
    BY DEF Active
  <2>3. Active' \subseteq Active
    BY DEF Active, Busy
  <2> QED
    BY <2>1, <2>2, <2>3, FS_Subset
<1>2. Cardinality(Active') <= Cardinality(Active) /\ IsFiniteSet(Active')
  BY <1>1, FS_Subset
<1>3. Cardinality(Active') \in Nat /\ Cardinality(Active) \in Nat /\ Slots \in Nat
  BY <1>1, <1>2, FS_CardinalityType, PrefixAssumption DEF Slots
<1> QED
  BY <1>2, <1>3 DEF Fits

LEMMA FitsInitial == Init => Fits
<1> SUFFICES ASSUME Init PROVE Fits
  OBVIOUS
<1>1. Active = {}
  BY DEF Init, Active
<1> QED
  BY <1>1, FS_EmptySet, PrefixAssumption DEF Fits, Slots

LEMMA FitsStep == Fits /\ MainTypes /\ [Next]_vars => Fits'
<1> SUFFICES ASSUME Fits, MainTypes, [Next]_vars PROVE Fits'
  OBVIOUS
<1> USE DEF ctl
<1>1. ASSUME NEW k \in Objects, Launch(k) PROVE Fits'
  <2>1. IsFiniteSet(Active)
    <3>1. IsFiniteSet(Objects)
      BY ListingAssumption, FS_Subset DEF Objects
    <3>2. Active \in SUBSET Objects
      BY DEF Active
    <3> QED
      BY <3>1, <3>2, FS_Subset
  <2>2. Active' \subseteq Active \cup {k}
    <3>1. \A j \in Objects : j # k => file'[j] = file[j]
      BY <1>1 DEF Launch, Move, MainTypes
    <3> QED
      BY <3>1 DEF Active
  <2>3. Cardinality(Active) < Slots /\ Cardinality(Active) \in Nat /\ Slots \in Nat
    BY <1>1, <2>1, FS_CardinalityType, PrefixAssumption DEF Launch, SlotHolders, Slots
  <2>4. IsFiniteSet(Active \cup {k}) /\ Cardinality(Active \cup {k}) \in Nat
        /\ Cardinality(Active \cup {k}) <= Cardinality(Active) + 1
    BY <2>1, <2>3, FS_AddElement
  <2>5. Cardinality(Active') <= Cardinality(Active \cup {k}) /\ IsFiniteSet(Active')
    BY <2>2, <2>4, FS_Subset
  <2>6. Cardinality(Active') \in Nat
    BY <2>5, FS_CardinalityType
  <2> QED
    BY <2>3, <2>4, <2>5, <2>6 DEF Fits
<1>2. ASSUME NEW k \in Objects, FileStep(k) PROVE Fits'
  <2>1. file[k] \in Busy
    BY <1>2 DEF FileStep, Skip, StartDownload, DownloadOk, DownloadFails, RecordError, Busy
  <2>2. \A j \in Objects : j # k => file'[j] = file[j]
    BY <1>2 DEF FileStep, Skip, StartDownload, DownloadOk, DownloadFails, RecordError, Move, MainTypes
  <2> QED
    BY <2>1, <2>2, FewerActive
<1>3. CASE Restart
  <2>1. \A k \in Objects : file'[k] = "waiting"
    BY <1>3 DEF Restart
  <2> QED
    BY <2>1, FewerActive DEF Busy
<1>4. CASE Start \/ Listing \/ Receive \/ ListEnds \/ CheckLoop \/ Return \/ Interrupt \/ UNCHANGED vars
  <2>1. UNCHANGED file
    BY <1>4 DEF Start, Listing, Receive, ListEnds, CheckLoop, Return, Interrupt, vars
  <2> QED
    BY <2>1, FewerActive
<1> QED
  BY <1>1, <1>2, <1>3, <1>4 DEF Next, MainStep, Exited

(* Every variable keeps its type, and at most FileConcurrency files (4     *)
(* when it is not given) are stat'ed or downloaded at once.                *)
THEOREM PrefixTypes == Spec => []TypeOK
<1>1. ListInv /\ MainTypes /\ Fits => TypeOK
  BY DEF ListInv, Sequences, MainTypes, Fits, TypeOK, Places, Results
<1> QED
  BY <1>1, ListInvariant, FitsInitial, FitsStep, PTL DEF Spec

-----------------------------------------------------------------------------
(* What DownloadPrefix promises.                                           *)

(* No goroutine touches a file after DownloadPrefix returned.              *)
THEOREM QuietAfterReturnHolds == Spec => []QuietAfterReturn
<1>1. FileInv => QuietAfterReturn
  BY DEF FileInv, Quiet, QuietAfterReturn, Active, Busy
<1> QED
  BY <1>1, FileInvariant, PTL

(* A file is skipped only when it is complete, whatever runs, kills and    *)
(* failures came before.                                                   *)
THEOREM SkippedIsCompleteHolds == Spec => []SkippedIsComplete
<1>1. FileInv => SkippedIsComplete
  BY DEF FileInv, Whole, SkippedIsComplete
<1> QED
  BY <1>1, FileInvariant, PTL

(* An error is returned exactly when a file failed.                        *)
THEOREM ErrorsReportedHolds == Spec => []ErrorsReported
<1>1. FileInv /\ MainTypes => ErrorsReported
  BY DEF FileInv, Told, Recorded, ErrorsReported, Outcome, Errors, MainTypes
<1> QED
  BY <1>1, FileInvariant, ListInvariant, PTL

(* The echo of FailFast's own cancellation is never what is returned.      *)
THEOREM FirstCauseHolds == Spec => []RootCause
<1>1. FileInv /\ ListInv => RootCause
  BY DEF FileInv, ListInv, Told, Echo, Waited, RootCause, Outcome, NotListed
<1> QED
  BY <1>1, FileInvariant, ListInvariant, PTL

LEMMA ListedAreObjects == ASSUME ListInv PROVE Listed \subseteq Objects
<1>1. objects \in Seq(Objects)
  BY DEF ListInv, Sequences
<1> QED
  BY <1>1, LenProperties, ElementOfSeq DEF Listed, Range

(* Without FailFast one file's error keeps no other from being tried.      *)
THEOREM OthersGoOnHolds == Spec => []OthersGoOn
<1>1. FileInv /\ ListInv /\ MainTypes => OthersGoOn
  <2> SUFFICES ASSUME FileInv, ListInv, MainTypes, pc = "returned", err \notin NotListed,
                      ~failFast, ~interrupted, NEW k \in Listed
               PROVE  file[k] \in Ended
    BY DEF OthersGoOn
  <2>1. ~cancelled
    BY DEF FileInv, Recorded
  <2>2. k \in Objects
    BY ListedAreObjects
  <2>3. file[k] # "waiting" /\ file[k] \notin Busy
    BY <2>1, <2>2 DEF FileInv, AllTried, Quiet
  <2> QED
    BY <2>2, <2>3 DEF MainTypes, Places, Busy
<1> QED
  BY <1>1, FileInvariant, ListInvariant, PTL

(* nil is returned only when every object under the prefix is there,       *)
(* unless there was a Ctrl-C.                                              *)
THEOREM NilMeansAllHolds == Spec => []NilMeansAll
<1>1. FileInv /\ ListInv /\ MainTypes => NilMeansAll
  <2> SUFFICES ASSUME FileInv, ListInv, MainTypes, ~interrupted, err = "nil",
                      NEW k \in bucket \ Markers
               PROVE  Complete(out[k])
    BY DEF NilMeansAll, NilMeansComplete
  <2>1. pc = "returned" /\ err \notin NotListed
    BY DEF ListInv, Waited, NotListed
  <2>2. Errors = {} /\ firstErr = "none"
    BY <2>1 DEF FileInv, Told, Outcome, Recorded, Errors, MainTypes
  <2>3. k \in Listed /\ k \in Objects
    BY <2>1, AllListed, ListedAreObjects DEF AfterListing
  <2>4. file[k] # "waiting" /\ file[k] \notin Busy /\ file[k] # "error"
    BY <2>1, <2>2, <2>3 DEF FileInv, AllTried, Quiet, Errors, Recorded
  <2>5. file[k] \in {"skipped", "ok"}
    BY <2>3, <2>4 DEF MainTypes, Places, Busy, Ended
  <2> QED
    BY <2>3, <2>5 DEF FileInv, Whole
<1> QED
  BY <1>1, FileInvariant, ListInvariant, PTL

(* What a run completed, no later run downloads again or loses.            *)
THEOREM ResumesHolds == Spec => Resumes
<1>1. ASSUME MainTypes, [Next]_vars, NEW k \in Objects, out[k] = "object"
      PROVE  out'[k] = "object" /\ (file[k] = "stat" => file'[k] # "download")
  <2> USE DEF ctl
  <2>1. CASE \E j \in Objects : FileStep(j)
    <3> PICK j \in Objects : FileStep(j)
      BY <2>1
    <3>1. CASE StartDownload(j)
      <4>1. j # k
        BY <1>1, <3>1 DEF StartDownload, Skippable, SameSize
      <4> QED
        BY <1>1, <3>1, <4>1 DEF StartDownload, Move, MainTypes
    <3>2. CASE DownloadOk(j)
      BY <1>1, <3>2 DEF DownloadOk, Move, MainTypes
    <3>3. CASE Skip(j) \/ DownloadFails(j) \/ RecordError(j)
      <4>1. UNCHANGED out
        BY <3>3 DEF Skip, DownloadFails, RecordError
      <4>2. file[k] = "stat" => file'[k] # "download"
        BY <1>1, <3>3 DEF Skip, DownloadFails, RecordError, Move, MainTypes
      <4> QED
        BY <1>1, <4>1, <4>2
    <3> QED
      BY <3>1, <3>2, <3>3 DEF FileStep
  <2>2. CASE \E j \in Objects : Launch(j)
    BY <1>1, <2>2 DEF Launch, Move, MainTypes
  <2>3. CASE Restart
    BY <1>1, <2>3 DEF Restart
  <2>4. CASE Start \/ Listing \/ Receive \/ ListEnds \/ CheckLoop \/ Return \/ Interrupt \/ UNCHANGED vars
    <3>1. UNCHANGED <<file, out>>
      BY <2>4 DEF Start, Listing, Receive, ListEnds, CheckLoop, Return, Interrupt, vars
    <3> QED
      BY <1>1, <3>1
  <2> QED
    BY <1>1, <2>1, <2>2, <2>3, <2>4 DEF Next, MainStep, Exited
<1>2. MainTypes /\ [Next]_vars
         => [\A k \in Objects : out[k] = "object" =>
                out'[k] = "object" /\ (file[k] = "stat" => file'[k] # "download")]_vars
  BY <1>1
<1> QED
  BY <1>2, ListInvariant, PTL DEF Spec, Resumes
=============================================================================
