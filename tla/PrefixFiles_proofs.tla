------------------------- MODULE PrefixFiles_proofs -------------------------
(***************************************************************************)
(* Which keys that S3 may list make DownloadPrefix write one file twice:   *)
(* what PathsApart of PrefixDownload depends on, for every prefix and any  *)
(* set of keys.                                                            *)
(***************************************************************************)
EXTENDS PrefixDownload_proofs

(* A key with a segment that filepath.Join would not leave as it is; the   *)
(* key of the prefix itself has none, its base is taken.                   *)
Odd(k) == Trimmed(k) # <<"">> /\ \E i \in 1 .. Len(Trimmed(k)) : ~Plain(Trimmed(k)[i])

(* The prefix itself is an object, and another key is its base name.       *)
BaseOf(j, k) == Trimmed(j) = <<"">> /\ Trimmed(k) = Base(KeyName[j])

(* One file is named like the temporary file of another, beside it.        *)
TempOf(j, k) ==
    /\ Len(LocalPath(j)) = Len(LocalPath(k))
    /\ \A i \in 1 .. Len(LocalPath(k)) - 1 : LocalPath(j)[i] = LocalPath(k)[i]
    /\ Name(j) = TempName(Name(k))

Collide(j, k) == BaseOf(j, k) \/ BaseOf(k, j) \/ TempOf(j, k) \/ TempOf(k, j)

(* Of concatenation of strings the prover knows nothing.                   *)
OneTempName == \A x, y \in STRING : TempName(x) = TempName(y) => x = y

-----------------------------------------------------------------------------
(* Paths.                                                                  *)

(* filepath.Join leaves a plain path as it is.                             *)
LEMMA CleanPlain ==
    ASSUME NEW S, NEW s \in Seq(S), \A i \in 1 .. Len(s) : Solid(s[i])
    PROVE  Clean(s) = s
<1>1. Len(s) \in Nat /\ DOMAIN s = 1 .. Len(s)
  OBVIOUS
<1>2. Kept(s) = 1 .. Len(s)
  BY <1>1 DEF Kept, Solid
<1>3. Cardinality(Kept(s)) = Len(s)
  BY <1>1, <1>2, FS_Interval
<1>4. ASSUME NEW n \in 1 .. Len(s)
      PROVE  (CHOOSE i \in Kept(s) : Cardinality({j \in Kept(s) : j <= i}) = n) = n
  <2>1. ASSUME NEW i \in 1 .. Len(s) PROVE Cardinality({j \in Kept(s) : j <= i}) = i
    <3>1. {j \in Kept(s) : j <= i} = 1 .. i
      BY <1>1, <1>2
    <3>2. Cardinality(1 .. i) = i
      BY <1>1, FS_Interval
    <3> QED
      BY <3>1, <3>2
  <2>2. \A i \in Kept(s) : Cardinality({j \in Kept(s) : j <= i}) = n <=> i = n
    BY <1>2, <2>1
  <2> QED
    BY <1>2, <2>2
<1> DEFINE place(n) == CHOOSE i \in Kept(s) : Cardinality({j \in Kept(s) : j <= i}) = n
<1>5. Clean(s) = [n \in 1 .. Len(s) |-> s[place(n)]]
  BY <1>3 DEF Clean
<1>6. \A n \in 1 .. Len(s) : place(n) = n
  BY <1>4
<1> HIDE DEF place
<1> QED
  BY <1>1, <1>5, <1>6

(* filepath.Base returns a segment of the path.                            *)
LEMMA BasePlain ==
    ASSUME NEW S, NEW s \in Seq(S), \E i \in 1 .. Len(s) : Solid(s[i])
    PROVE  \E x \in S : Solid(x) /\ Base(s) = <<x>>
<1>1. Len(s) \in Nat /\ DOMAIN s = 1 .. Len(s)
  BY LenProperties
<1>2. Kept(s) = {i \in 1 .. Len(s) : Solid(s[i])}
  BY <1>1 DEF Kept, Solid
<1>3. Kept(s) \in SUBSET (1 .. Len(s)) /\ IsFiniteSet(1 .. Len(s))
  BY <1>1, <1>2, FS_Interval
<1>4. IsFiniteSet(Kept(s)) /\ Kept(s) \subseteq Nat /\ Kept(s) # {}
  BY <1>2, <1>3, FS_Subset
<1> DEFINE last == CHOOSE i \in Kept(s) : \A j \in Kept(s) : j <= i
<1>5. last \in Kept(s)
  BY <1>4, MaxExists
<1>6. s[last] \in S /\ Solid(s[last])
  <2> HIDE DEF last
  <2> QED
    BY <1>2, <1>5
<1>7. Base(s) = <<s[last]>>
  BY DEF Base
<1> HIDE DEF last
<1> QED
  BY <1>6, <1>7

(* A key is the prefix and what TrimPrefix leaves of it.                   *)
LEMMA TrimmedKeys ==
    ASSUME NEW k \in Objects
    PROVE  /\ Trimmed(k) \in Seq(STRING) /\ Len(Trimmed(k)) = Len(KeyName[k]) - Len(Prefix)
           /\ Len(Trimmed(k)) > 0
           /\ \A i \in 1 .. Len(Trimmed(k)) : Trimmed(k)[i] = KeyName[k][i + Len(Prefix)]
<1>1. KeyName[k] \in Seq(STRING) /\ Len(KeyName[k]) > Len(Prefix) /\ Prefix \in Seq(STRING)
  BY KeysAssumption
<1>2. Len(KeyName[k]) \in Nat /\ Len(Prefix) \in Nat
  BY <1>1, LenProperties
<1> DEFINE s == KeyName[k]
           m == Len(Prefix)
<1>3. Trimmed(k) = SubSeq(s, m + 1, Len(s))
  BY DEF Trimmed
<1>4. s \in Seq(STRING) /\ m \in Nat /\ Len(s) \in Nat /\ Len(s) > m
  BY <1>1, <1>2
<1> HIDE DEF s, m
<1>5. SubSeq(s, m + 1, Len(s)) \in Seq(STRING)
      /\ Len(SubSeq(s, m + 1, Len(s))) = Len(s) - m
      /\ \A i \in 1 .. Len(s) - m : SubSeq(s, m + 1, Len(s))[i] = s[i + m]
  BY <1>4
<1> QED
  BY <1>3, <1>4, <1>5 DEF s, m

LEMMA TrimmedApart ==
    ASSUME NEW j \in Objects, NEW k \in Objects, Trimmed(j) = Trimmed(k)
    PROVE  j = k
<1> DEFINE a == KeyName[j]
           b == KeyName[k]
           m == Len(Prefix)
           t == Trimmed(k)
<1>1. a \in Seq(STRING) /\ b \in Seq(STRING) /\ m \in Nat /\ Len(a) \in Nat /\ Len(b) \in Nat
      /\ Len(a) > m /\ Len(b) > m
      /\ \A i \in 1 .. m : a[i] = b[i]
  <2>1. Prefix \in Seq(STRING) /\ a \in Seq(STRING) /\ b \in Seq(STRING) /\ Len(a) > m /\ Len(b) > m
        /\ \A i \in 1 .. m : a[i] = Prefix[i] /\ b[i] = Prefix[i]
    BY KeysAssumption
  <2> QED
    BY <2>1, LenProperties
<1>2. Len(t) = Len(a) - m /\ Len(t) = Len(b) - m
      /\ \A i \in 1 .. Len(t) : t[i] = a[i + m] /\ t[i] = b[i + m]
  BY TrimmedKeys
<1>3. Len(a) = Len(b)
  <2> HIDE DEF a, b, m, t
  <2> QED
    BY <1>1, <1>2
<1>4. ASSUME NEW i \in 1 .. Len(a) PROVE a[i] = b[i]
  <2> HIDE DEF a, b, m, t
  <2>1. CASE i <= m
    BY <1>1, <2>1
  <2>2. CASE i > m
    <3>1. i - m \in 1 .. Len(t) /\ (i - m) + m = i
      BY <1>1, <1>2, <2>2
    <3> QED
      BY <1>2, <3>1
  <2> QED
    BY <1>1, <2>1, <2>2
<1>5. a = b
  <2> HIDE DEF a, b, m, t
  <2> QED
    BY <1>1, <1>3, <1>4, SeqEqual
<1> QED
  BY <1>5, KeysAssumption

LEMMA CleanName ==
    ASSUME NEW S, NEW x \in S, Solid(x)
    PROVE  <<x>> \in Seq(S) /\ Len(<<x>>) = 1 /\ Clean(<<x>>) = <<x>>
<1>1. <<x>> \in Seq(S) /\ Len(<<x>>) = 1 /\ <<x>>[1] = x
  OBVIOUS
<1>2. \A i \in 1 .. Len(<<x>>) : Solid(<<x>>[i])
  BY <1>1
<1> QED
  BY <1>1, <1>2, CleanPlain

LEMMA PathOfKey ==
    ASSUME NEW k \in Objects, ~Odd(k)
    PROVE  /\ LocalPath(k) \in Seq(STRING) /\ Len(LocalPath(k)) > 0
           /\ LocalPath(k) = IF Trimmed(k) = <<"">> THEN Base(KeyName[k]) ELSE Trimmed(k)
<1>1. CASE Trimmed(k) # <<"">>
  <2>1. Trimmed(k) \in Seq(STRING) /\ Len(Trimmed(k)) > 0
    BY TrimmedKeys
  <2>2. \A i \in 1 .. Len(Trimmed(k)) : Solid(Trimmed(k)[i])
    BY <1>1 DEF Odd, Plain
  <2>3. LocalPath(k) = Trimmed(k)
    BY <1>1, <2>1, <2>2, CleanPlain DEF LocalPath, RelativePath
  <2> QED
    BY <1>1, <2>1, <2>3
<1>2. CASE Trimmed(k) = <<"">>
  <2>1. KeyName[k] \in Seq(STRING) /\ \E i \in 1 .. Len(KeyName[k]) : Solid(KeyName[k][i])
    <3>1. PICK i \in 1 .. Len(Prefix) : Plain(Prefix[i])
      BY KeysAssumption
    <3>2. KeyName[k] \in Seq(STRING) /\ Prefix \in Seq(STRING) /\ Len(KeyName[k]) > Len(Prefix)
          /\ KeyName[k][i] = Prefix[i]
      BY <3>1, KeysAssumption
    <3>3. i \in 1 .. Len(KeyName[k])
      BY <3>1, <3>2, LenProperties
    <3> QED
      BY <3>1, <3>2, <3>3 DEF Plain
  <2>2. PICK x \in STRING : Solid(x) /\ Base(KeyName[k]) = <<x>>
    BY <2>1, BasePlain
  <2> DEFINE b == <<x>>
  <2>3. b \in Seq(STRING) /\ Len(b) = 1 /\ Clean(b) = b
    BY <2>2, CleanName
  <2>4. Base(KeyName[k]) = b
    BY <2>2
  <2> HIDE DEF b
  <2>5. RelativePath(k) = b
    BY <1>2, <2>4 DEF RelativePath
  <2>6. LocalPath(k) = b
    BY <2>3, <2>5 DEF LocalPath
  <2>7. LocalPath(k) \in Seq(STRING) /\ LocalPath(k) = Base(KeyName[k])
    BY <2>3, <2>4, <2>6
  <2>8. Len(LocalPath(k)) = 1
    BY <2>3, <2>6
  <2>9. Len(LocalPath(k)) > 0
    BY <2>8
  <2> QED
    BY <1>2, <2>7, <2>9
<1> QED
  BY <1>1, <1>2

LEMMA LocalPathsApart ==
    ASSUME NEW j \in Objects, NEW k \in Objects, ~Odd(j), ~Odd(k), LocalPath(j) = LocalPath(k),
           ~BaseOf(j, k), ~BaseOf(k, j)
    PROVE  j = k
<1>1. Trimmed(j) = <<"">> => Trimmed(k) # Base(KeyName[j])
  BY DEF BaseOf
<1>2. Trimmed(k) = <<"">> => Trimmed(j) # Base(KeyName[k])
  BY DEF BaseOf
<1>3. Trimmed(j) = Trimmed(k)
  BY <1>1, <1>2, PathOfKey
<1> QED
  BY <1>3, TrimmedApart

(* One path is another's temporary path exactly if it is so by name.       *)
LEMMA TempPaths ==
    ASSUME NEW j \in Objects, NEW k \in Objects, ~Odd(j), ~Odd(k)
    PROVE  LocalPath(j) = TempPath(k) <=> TempOf(j, k)
<1> DEFINE p == LocalPath(j)
           q == LocalPath(k)
           t == [q EXCEPT ![Len(q)] = TempName(q[Len(q)])]
<1>1. p \in Seq(STRING) /\ Len(p) \in Nat /\ Len(p) > 0 /\ q \in Seq(STRING) /\ Len(q) \in Nat /\ Len(q) > 0
  BY PathOfKey, LenProperties
<1>2. TempPath(k) = t
  BY DEF TempPath
<1>3. TempOf(j, k) <=> /\ Len(p) = Len(q)
                       /\ \A i \in 1 .. Len(q) - 1 : p[i] = q[i]
                       /\ p[Len(p)] = TempName(q[Len(q)])
  BY DEF TempOf, Name
<1> HIDE DEF p, q
<1>4. DOMAIN p = 1 .. Len(p) /\ p = [i \in 1 .. Len(p) |-> p[i]]
      /\ DOMAIN q = 1 .. Len(q) /\ Len(q) \in 1 .. Len(q)
  BY <1>1, LenProperties
<1>5. t = [i \in 1 .. Len(q) |-> IF i = Len(q) THEN TempName(q[Len(q)]) ELSE q[i]]
  BY <1>4
<1> HIDE DEF t
<1>6. 1 .. Len(p) = 1 .. Len(q) => Len(p) = Len(q)
  BY <1>1
<1>7. ASSUME p = t
      PROVE  /\ Len(p) = Len(q)
             /\ \A i \in 1 .. Len(q) - 1 : p[i] = q[i]
             /\ p[Len(p)] = TempName(q[Len(q)])
  <2>1. Len(p) = Len(q)
    BY <1>4, <1>5, <1>6, <1>7
  <2>2. \A i \in 1 .. Len(q) : p[i] = IF i = Len(q) THEN TempName(q[Len(q)]) ELSE q[i]
    BY <1>5, <1>7
  <2> QED
    BY <1>1, <2>1, <2>2
<1>8. ASSUME Len(p) = Len(q), \A i \in 1 .. Len(q) - 1 : p[i] = q[i],
             p[Len(p)] = TempName(q[Len(q)])
      PROVE  p = t
  <2>1. \A i \in 1 .. Len(q) : p[i] = IF i = Len(q) THEN TempName(q[Len(q)]) ELSE q[i]
    BY <1>1, <1>8
  <2> QED
    BY <1>4, <1>5, <1>8, <2>1
<1> QED
  BY <1>2, <1>3, <1>7, <1>8 DEF p, q

(* Temporary files apart whose files are apart.                            *)
LEMMA TempsApart ==
    ASSUME OneTempName, NEW j \in Objects, NEW k \in Objects, ~Odd(j), ~Odd(k),
           TempPath(j) = TempPath(k)
    PROVE  LocalPath(j) = LocalPath(k)
<1> DEFINE p == LocalPath(j)
           q == LocalPath(k)
           tp == [p EXCEPT ![Len(p)] = TempName(p[Len(p)])]
           tq == [q EXCEPT ![Len(q)] = TempName(q[Len(q)])]
<1>1. p \in Seq(STRING) /\ Len(p) \in Nat /\ Len(p) > 0 /\ q \in Seq(STRING) /\ Len(q) \in Nat /\ Len(q) > 0
  BY PathOfKey, LenProperties
<1>2. tp = tq
  BY DEF TempPath
<1> HIDE DEF p, q
<1>3. DOMAIN p = 1 .. Len(p) /\ DOMAIN q = 1 .. Len(q) /\ Len(p) \in 1 .. Len(p) /\ Len(q) \in 1 .. Len(q)
      /\ p[Len(p)] \in STRING /\ q[Len(q)] \in STRING
  BY <1>1, LenProperties
<1>4. DOMAIN tp = 1 .. Len(p) /\ DOMAIN tq = 1 .. Len(q)
      /\ tp[Len(p)] = TempName(p[Len(p)]) /\ tq[Len(q)] = TempName(q[Len(q)])
      /\ (\A i \in 1 .. Len(p) : i # Len(p) => tp[i] = p[i])
      /\ (\A i \in 1 .. Len(q) : i # Len(q) => tq[i] = q[i])
  BY <1>3
<1> HIDE DEF tp, tq
<1>5. Len(p) = Len(q)
  BY <1>1, <1>2, <1>4
<1>6. p[Len(p)] = q[Len(q)]
  BY <1>2, <1>3, <1>4, <1>5 DEF OneTempName
<1>7. \A i \in 1 .. Len(p) : p[i] = q[i]
  BY <1>2, <1>4, <1>5, <1>6
<1> QED
  BY <1>1, <1>5, <1>7, SeqEqual DEF p, q

(* Two keys without odd segments share a file, as output or as temporary   *)
(* file, exactly when one is the prefix itself and the other its base      *)
(* name, or one is called like the temporary file of the other: nothing    *)
(* else DownloadPrefix would have to look for to have PathsApart, whatever *)
(* keys S3 lists.                                                          *)
THEOREM CollidingKeys ==
    ASSUME OneTempName, NEW j \in Objects, NEW k \in Objects, j # k, ~Odd(j), ~Odd(k)
    PROVE  Files(j) \cap Files(k) # {} <=> Collide(j, k)
<1>1. Files(j) \cap Files(k) # {}
        <=> \/ LocalPath(j) = LocalPath(k) \/ TempPath(j) = TempPath(k)
            \/ LocalPath(j) = TempPath(k) \/ LocalPath(k) = TempPath(j)
  BY DEF Files
<1>2. TempPath(j) = TempPath(k) => LocalPath(j) = LocalPath(k)
  BY TempsApart
<1>3. LocalPath(j) = LocalPath(k) <=> BaseOf(j, k) \/ BaseOf(k, j)
  <2>1. LocalPath(j) = LocalPath(k) => BaseOf(j, k) \/ BaseOf(k, j)
    BY LocalPathsApart
  <2>2. ASSUME NEW a \in Objects, NEW b \in Objects, a # b, ~Odd(a), ~Odd(b), BaseOf(a, b)
        PROVE  LocalPath(a) = LocalPath(b)
    <3>1. Trimmed(a) # Trimmed(b)
      BY <2>2, TrimmedApart
    <3> QED
      BY <2>2, <3>1, PathOfKey DEF BaseOf
  <2> QED
    BY <2>1, <2>2
<1>4. LocalPath(j) = TempPath(k) <=> TempOf(j, k)
  BY TempPaths
<1>5. LocalPath(k) = TempPath(j) <=> TempOf(k, j)
  BY TempPaths
<1> QED
  BY <1>1, <1>2, <1>3, <1>4, <1>5 DEF Collide
=============================================================================
