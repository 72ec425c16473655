------------------------ MODULE RequestSigning_proofs ------------------------
(***************************************************************************)
(* Theorems of RequestSigning: types, the key that signs, and the host     *)
(* that is signed, for any number of requests, hosts, redirects and days.  *)
(***************************************************************************)
EXTENDS RequestSigning, TLAPS

(* The process has one secret key, as gos3 has: the cache's key does not   *)
(* tell two secrets apart.                                                 *)
OneSecret == \A s, t \in Secrets : s = t

Signing == {"lookup", "derive", "sign"}

(* What holds of a request between any two steps.  Counted: there is room  *)
(* for the request being prepared.  FirstHost: req.Host, the Host entry    *)
(* and the host that is signed are the URL's in the first request, and are *)
(* empty in the requests that net/http makes after it.                     *)
Counted(q) ==
    /\ q.at = "new" => q.via = 0
    /\ q.at \in Signing => q.via < MaxRedirects
    /\ q.at = "sent" => q.via > 0
Credentials(q) == q.at \in Signing => q.secret # NoSecret /\ q.date # 0
HostOf(q, requests) == IF q.via = requests THEN q.url ELSE NoHost
FirstHost(q) ==
    /\ q.at \in Signing \cup {"new"} => q.host = HostOf(q, 0)
    /\ q.at = "new" => q.header = NoHost
    /\ q.at \in Signing => q.header = HostOf(q, 0)
    /\ (q.at = "sent" /\ q.secret # NoSecret) => q.auth.host = HostOf(q, 1)
Sound(q) == Counted(q) /\ Credentials(q) /\ FirstHost(q)

(* The key a request has, and the key its signature was made with, are     *)
(* those of its secret and date.                                           *)
OwnKey(q) ==
    /\ q.at = "sign" => q.key = [secret |-> q.secret, date |-> q.date]
    /\ (q.at = "sent" /\ q.secret # NoSecret)
          => q.auth.key = [secret |-> q.secret, date |-> q.auth.date]

Inv == TypeOK /\ \A r \in Requests : Sound(req[r])

(* What the cache holds was derived for the date it is filed under.        *)
CacheSound == cacheDate # 0 => \E s \in Secrets : cacheKey = [secret |-> s, date |-> cacheDate]
KeyInv == CacheSound /\ \A r \in Requests : OwnKey(req[r])

-----------------------------------------------------------------------------
(* A request is stamped, and signed unless it is sent as it is.            *)
LEMMA StampedSound ==
    ASSUME NEW q \in RequestType, day \in Days, q.via < MaxRedirects,
           q.host = HostOf(q, 0), q.header = NoHost
    PROVE  Stamped(q) \in RequestType /\ Sound(Stamped(q))
<1>1. q.via + 1 \in 0 .. MaxRedirects /\ q.via + 1 > 0 /\ q.via # MaxRedirects
  BY SigningAssumption DEF RequestType
<1>2. day \in Days \cup {0} /\ day # 0
  BY DEF Days
<1>3. CASE q.secret = NoSecret
  <2> DEFINE s == [q EXCEPT !.at = "sent", !.via = q.via + 1]
  <2>1. Stamped(q) = s
    BY <1>3 DEF Stamped
  <2>2. s \in RequestType
    BY <1>1 DEF RequestType
  <2>3. s.at = "sent" /\ s.secret = NoSecret /\ s.via > 0
    BY <1>1, <1>3 DEF RequestType
  <2> HIDE DEF s
  <2>4. Sound(s)
    BY <1>1, <1>3, <2>3 DEF Sound, Counted, Credentials, FirstHost, Signing
  <2> QED
    BY <2>1, <2>2, <2>4
<1>4. CASE q.secret # NoSecret
  <2> DEFINE s == [q EXCEPT !.at = "lookup", !.date = day, !.header = q.host]
  <2>1. Stamped(q) = s
    BY <1>4 DEF Stamped, HostEntry
  <2>2. s \in RequestType
    BY <1>2 DEF RequestType
  <2>3. /\ s.at = "lookup" /\ s.secret = q.secret /\ s.url = q.url /\ s.host = q.host
        /\ s.header = q.host /\ s.date = day /\ s.via = q.via
    BY DEF RequestType
  <2> HIDE DEF s
  <2>4. Sound(s)
    BY <1>2, <1>4, <2>3 DEF Sound, Counted, Credentials, FirstHost, HostOf, Signing
  <2> QED
    BY <2>1, <2>2, <2>4
<1> QED
  BY <1>3, <1>4

(* One request changes. *)
LEMMA PutRequest ==
    ASSUME Inv, NEW r \in Requests, NEW q,
           q \in RequestType, Sound(q), req' = [req EXCEPT ![r] = q],
           day' \in Days, cacheDate' \in Days \cup {0}, cacheKey' \in SigningKeys
    PROVE  Inv'
<1>1. req \in [Requests -> RequestType]
  BY DEF Inv, TypeOK
<1>2. req' \in [Requests -> RequestType]
  BY <1>1
<1>3. \A p \in Requests : req'[p] = IF p = r THEN q ELSE req[p]
  BY <1>1
<1>4. \A p \in Requests : Sound(req'[p])
  BY <1>3 DEF Inv
<1> QED
  BY <1>2, <1>4 DEF Inv, TypeOK

LEMMA InvInitial == Init => Inv
<1> SUFFICES ASSUME Init PROVE Inv
  OBVIOUS
<1> USE SigningAssumption
<1>1. PICK s \in [Requests -> SomeSecret] :
         req = [r \in Requests |->
                   [at |-> "new", via |-> 0, url |-> Endpoint, host |-> Endpoint,
                    header |-> NoHost, secret |-> s[r], date |-> 0, key |-> NoKey,
                    auth |-> NoSignature]]
  BY DEF Init
<1>2. NoKey \in SigningKeys
  BY DEF NoKey, SigningKeys, SomeSecret
<1>3. NoSignature \in [host : SomeHost, date : Days \cup {0}, key : SigningKeys]
  BY <1>2 DEF NoSignature, SomeHost
<1>4. ASSUME NEW r \in Requests PROVE req[r] \in RequestType /\ Sound(req[r])
  <2>1. req[r] = [at |-> "new", via |-> 0, url |-> Endpoint, host |-> Endpoint,
                  header |-> NoHost, secret |-> s[r], date |-> 0, key |-> NoKey,
                  auth |-> NoSignature]
    BY <1>1
  <2>2. s[r] \in SomeSecret
    OBVIOUS
  <2>3. req[r] \in RequestType
    BY <2>1, <2>2, <1>2, <1>3 DEF RequestType, SomeHost
  <2>4. Sound(req[r])
    BY <2>1 DEF Sound, Counted, Credentials, FirstHost, HostOf, Signing
  <2> QED
    BY <2>3, <2>4
<1>5. req \in [Requests -> RequestType]
  BY <1>1, <1>4
<1> QED
  BY <1>2, <1>4, <1>5 DEF Init, Inv, TypeOK, Days

LEMMA InvStep == Inv /\ [Next]_vars => Inv'
<1> SUFFICES ASSUME Inv, [Next]_vars PROVE Inv'
  OBVIOUS
<1> USE SigningAssumption
<1>0. /\ day \in Days /\ cacheDate \in Days \cup {0} /\ cacheKey \in SigningKeys
      /\ req \in [Requests -> RequestType]
      /\ \A r \in Requests : req[r] \in RequestType /\ Sound(req[r])
  BY DEF Inv, TypeOK
<1>1. ASSUME NEW r \in Requests, Create(r) PROVE Inv'
  <2>1. Stamped(req[r]) \in RequestType /\ Sound(Stamped(req[r]))
    BY <1>0, <1>1, StampedSound DEF Create, Sound, Counted, Credentials, FirstHost
  <2> QED
    BY <2>1, <1>0, <1>1, PutRequest DEF Create
<1>2. ASSUME NEW r \in Requests, Lookup(r) PROVE Inv'
  <2> DEFINE q == IF Hit(req[r]) THEN [req[r] EXCEPT !.at = "sign", !.key = cacheKey]
                  ELSE [req[r] EXCEPT !.at = "derive"]
  <2>1. q \in RequestType
    BY <1>0 DEF RequestType
  <2>2. Sound(q)
    BY <1>0, <1>2 DEF Lookup, RequestType, Sound, Counted, Credentials, FirstHost, HostOf, Signing
  <2>3. req' = [req EXCEPT ![r] = q]
    BY <1>2 DEF Lookup
  <2> HIDE DEF q
  <2> QED
    BY <2>1, <2>2, <2>3, <1>0, <1>2, PutRequest DEF Lookup
<1>3. ASSUME NEW r \in Requests, Store(r) PROVE Inv'
  <2> DEFINE q == [req[r] EXCEPT !.at = "sign", !.key = Derived(req[r])]
  <2>1. Derived(req[r]) \in SigningKeys
    BY <1>0 DEF Derived, SigningKeys, RequestType
  <2>2. q \in RequestType
    BY <1>0, <2>1 DEF RequestType
  <2>3. Sound(q)
    BY <1>0, <1>3 DEF Store, RequestType, Sound, Counted, Credentials, FirstHost, HostOf, Signing
  <2>4. req' = [req EXCEPT ![r] = q]
    BY <1>3 DEF Store
  <2>5. req[r].date \in Days \cup {0}
    BY <1>0 DEF RequestType
  <2> HIDE DEF q
  <2> QED
    BY <2>1, <2>2, <2>3, <2>4, <2>5, <1>0, <1>3, PutRequest DEF Store
<1>4. ASSUME NEW r \in Requests, Send(r) PROVE Inv'
  <2> DEFINE a == [host |-> HostEntry(req[r]), date |-> req[r].date, key |-> req[r].key]
             q == [req[r] EXCEPT !.at = "sent", !.via = req[r].via + 1, !.auth = a]
  <2>1. HostEntry(req[r]) \in SomeHost /\ HostEntry(req[r]) = HostOf(req[r], 0)
    BY <1>0, <1>4 DEF Send, HostEntry, HostOf, RequestType, Sound, FirstHost, Signing, SomeHost
  <2>2. a \in [host : SomeHost, date : Days \cup {0}, key : SigningKeys]
    BY <1>0, <2>1 DEF RequestType
  <2>3. a.host = HostOf(req[r], 0)
    BY <2>1
  <2> HIDE DEF a
  <2>4. req[r].via < MaxRedirects /\ req[r].via \in Nat /\ req[r].secret # NoSecret
    BY <1>0, <1>4 DEF Send, Sound, Counted, Credentials, Signing, RequestType
  <2>5. q \in RequestType
    <3>1. req[r].via + 1 \in 0 .. MaxRedirects
      BY <2>4
    <3> QED
      BY <1>0, <2>2, <3>1 DEF RequestType
  <2>8. /\ q.at = "sent" /\ q.secret = req[r].secret /\ q.url = req[r].url
        /\ q.via = req[r].via + 1 /\ q.auth = a
    BY <1>0 DEF RequestType
  <2>6. Sound(q)
    <3> HIDE DEF q
    <3> QED
      BY <2>3, <2>4, <2>8 DEF Sound, Counted, Credentials, FirstHost, HostOf, Signing
  <2>7. req' = [req EXCEPT ![r] = q]
    BY <1>4 DEF Send, a
  <2> HIDE DEF q
  <2> QED
    BY <2>5, <2>6, <2>7, <1>0, <1>4, PutRequest DEF Send
<1>5. ASSUME NEW r \in Requests, NEW end \in {"done", "failed"},
             req' = [req EXCEPT ![r].at = end], UNCHANGED <<day, cacheDate, cacheKey>>
      PROVE  Inv'
  <2> DEFINE q == [req[r] EXCEPT !.at = end]
  <2>1. q \in RequestType
    BY <1>0 DEF RequestType
  <2>2. Sound(q)
    BY <1>0 DEF RequestType, Sound, Counted, Credentials, FirstHost, Signing
  <2>3. req' = [req EXCEPT ![r] = q]
    BY <1>0, <1>5
  <2> HIDE DEF q
  <2> QED
    BY <2>1, <2>2, <2>3, <1>0, <1>5, PutRequest
<1>6. ASSUME NEW r \in Requests, Redirected(r) PROVE Inv'
  <2>1. CASE TooMany(req[r])
    <3>1. req' = [req EXCEPT ![r] = [req[r] EXCEPT !.at = "failed"]]
      BY <1>6, <2>1 DEF Redirected
    <3>2. req' = [req EXCEPT ![r].at = "failed"]
      BY <3>1, <1>0
    <3> QED
      BY <3>2, <1>5, <1>6 DEF Redirected
  <2>2. CASE ~TooMany(req[r])
    <3>1. PICK h \in Hosts :
             req' = [req EXCEPT ![r] =
                        Stamped([NextRequest(req[r], h) EXCEPT !.header = NoHost])]
      BY <1>6, <2>2 DEF Redirected
    <3> DEFINE q == [NextRequest(req[r], h) EXCEPT !.header = NoHost]
    <3>2. req' = [req EXCEPT ![r] = Stamped(q)]
      BY <3>1
    <3>3. /\ q \in RequestType
          /\ q.via = req[r].via /\ q.host = NoHost /\ q.header = NoHost
      BY <1>0 DEF NextRequest, RequestType, SomeHost
    <3>4. req[r].via < MaxRedirects /\ req[r].via # 0
      BY <1>0, <1>6, <2>2 DEF Redirected, TooMany, RequestType, Sound, Counted
    <3>5. q.host = HostOf(q, 0)
      BY <3>3, <3>4 DEF HostOf
    <3> HIDE DEF q
    <3>6. Stamped(q) \in RequestType /\ Sound(Stamped(q))
      BY <1>0, <3>3, <3>4, <3>5, StampedSound
    <3> QED
      BY <3>2, <3>6, <1>0, <1>6, PutRequest DEF Redirected
  <2> QED
    BY <2>1, <2>2
<1>7. CASE Midnight
  BY <1>0, <1>7 DEF Midnight, Inv, TypeOK, Days
<1>8. CASE UNCHANGED vars
  BY <1>0, <1>8 DEF vars, Inv, TypeOK
<1>9. ASSUME NEW r \in Requests, ClientStep(r) \/ Answered(r) \/ Redirected(r) PROVE Inv'
  BY <1>1, <1>2, <1>3, <1>4, <1>5, <1>6, <1>9 DEF ClientStep, Answered, Fails
<1> QED
  BY <1>7, <1>8, <1>9 DEF Next, Finished

(* Invariant of the specification. *)
THEOREM RequestInvariant == Spec => []Inv
  BY InvInitial, InvStep, PTL DEF Spec

(* Every variable keeps its type: in particular a request is sent at most  *)
(* MaxRedirects times (CheckRedirect's limit), whatever the servers do.    *)
THEOREM RequestTypes == Spec => []TypeOK
<1>1. Inv => TypeOK
  BY DEF Inv
<1> QED
  BY <1>1, RequestInvariant, PTL

(* What is signed of the host, exactly: the first request is signed for    *)
(* the endpoint; a request that a redirect led to is signed for no host,   *)
(* however long the chain, because net/http leaves its req.Host empty.     *)
OnlyFirstHostSigned ==
    \A r \in Requests :
        (req[r].at = "sent" /\ req[r].secret # NoSecret)
            => req[r].auth.host = IF req[r].via = 1 THEN req[r].url ELSE NoHost

(* The old host is never signed again, and the new one never instead.      *)
THEOREM OnlyFirstHostSignedHolds == Spec => []OnlyFirstHostSigned
<1>1. Inv => OnlyFirstHostSigned
  BY DEF Inv, OnlyFirstHostSigned, Sound, FirstHost, HostOf
<1> QED
  BY <1>1, RequestInvariant, PTL

-----------------------------------------------------------------------------
(* A request that is not being signed or sent with credentials says        *)
(* nothing of keys.                                                        *)
LEMMA StampedKey ==
    ASSUME NEW q \in RequestType PROVE OwnKey(Stamped(q))
<1>1. CASE q.secret = NoSecret
  BY <1>1 DEF Stamped, OwnKey, RequestType
<1>2. CASE q.secret # NoSecret
  <2>1. Stamped(q).at = "lookup"
    BY <1>2 DEF Stamped, RequestType
  <2> QED
    BY <2>1 DEF OwnKey
<1> QED
  BY <1>1, <1>2

(* One request changes, and the cache is sound afterwards. *)
LEMMA PutKey ==
    ASSUME Inv, KeyInv, NEW r \in Requests, NEW q, OwnKey(q),
           req' = [req EXCEPT ![r] = q], CacheSound'
    PROVE  KeyInv'
<1>1. \A p \in Requests : req'[p] = IF p = r THEN q ELSE req[p]
  BY DEF Inv, TypeOK
<1>2. \A p \in Requests : OwnKey(req'[p])
  BY <1>1 DEF KeyInv
<1> QED
  BY <1>2 DEF KeyInv

LEMMA KeyInitial == Init => KeyInv
<1> SUFFICES ASSUME Init PROVE KeyInv
  OBVIOUS
<1> PICK s \in [Requests -> SomeSecret] :
        req = [r \in Requests |->
                  [at |-> "new", via |-> 0, url |-> Endpoint, host |-> Endpoint,
                   header |-> NoHost, secret |-> s[r], date |-> 0, key |-> NoKey,
                   auth |-> NoSignature]]
  BY DEF Init
<1>1. \A r \in Requests : req[r].at = "new"
  OBVIOUS
<1>2. \A r \in Requests : OwnKey(req[r])
  BY <1>1 DEF OwnKey
<1> QED
  BY <1>2 DEF KeyInv, CacheSound, Init

LEMMA KeyStep == OneSecret /\ Inv /\ KeyInv /\ [Next]_vars => KeyInv'
<1> SUFFICES ASSUME OneSecret, Inv, KeyInv, [Next]_vars PROVE KeyInv'
  OBVIOUS
<1>0. /\ \A r \in Requests : req[r] \in RequestType /\ Sound(req[r]) /\ OwnKey(req[r])
      /\ CacheSound
  BY DEF Inv, TypeOK, KeyInv
<1>1. ASSUME NEW r \in Requests, Create(r) PROVE KeyInv'
  <2>1. CacheSound'
    BY <1>0, <1>1 DEF Create, CacheSound
  <2> QED
    BY <2>1, <1>0, <1>1, StampedKey, PutKey DEF Create
<1>2. ASSUME NEW r \in Requests, Lookup(r) PROVE KeyInv'
  <2> DEFINE q == IF Hit(req[r]) THEN [req[r] EXCEPT !.at = "sign", !.key = cacheKey]
                  ELSE [req[r] EXCEPT !.at = "derive"]
  <2>1. CacheSound'
    BY <1>0, <1>2 DEF Lookup, CacheSound
  <2>2. req[r].secret \in Secrets /\ req[r].date # 0
    BY <1>0, <1>2 DEF Lookup, Sound, Credentials, Signing, RequestType, SomeSecret
  <2>3. CASE Hit(req[r])
    <3>1. cacheKey = [secret |-> req[r].secret, date |-> req[r].date]
      BY <1>0, <2>2, <2>3 DEF Hit, CacheSound, OneSecret
    <3>2. /\ q.at = "sign" /\ q.key = cacheKey
          /\ q.secret = req[r].secret /\ q.date = req[r].date
      BY <1>0, <2>3 DEF RequestType
    <3> HIDE DEF q
    <3>3. OwnKey(q)
      BY <3>1, <3>2 DEF OwnKey
    <3>4. req' = [req EXCEPT ![r] = q]
      BY <1>2 DEF Lookup, q
    <3> QED
      BY <2>1, <3>3, <3>4, PutKey
  <2>4. CASE ~Hit(req[r])
    <3>1. q.at = "derive"
      BY <1>0, <2>4 DEF RequestType
    <3> HIDE DEF q
    <3>2. OwnKey(q)
      BY <3>1 DEF OwnKey
    <3>3. req' = [req EXCEPT ![r] = q]
      BY <1>2 DEF Lookup, q
    <3> QED
      BY <2>1, <3>2, <3>3, PutKey
  <2> QED
    BY <2>3, <2>4
<1>3. ASSUME NEW r \in Requests, Store(r) PROVE KeyInv'
  <2> DEFINE q == [req[r] EXCEPT !.at = "sign", !.key = Derived(req[r])]
  <2>1. req[r].secret \in Secrets
    BY <1>0, <1>3 DEF Store, Sound, Credentials, Signing, RequestType, SomeSecret
  <2>2. CacheSound'
    BY <2>1, <1>3 DEF Store, CacheSound, Derived
  <2>3. /\ q.at = "sign" /\ q.key = Derived(req[r])
        /\ q.secret = req[r].secret /\ q.date = req[r].date
    BY <1>0 DEF RequestType
  <2>4. req' = [req EXCEPT ![r] = q]
    BY <1>3 DEF Store
  <2> HIDE DEF q
  <2>5. OwnKey(q)
    BY <2>3 DEF OwnKey, Derived
  <2> QED
    BY <2>2, <2>4, <2>5, PutKey
<1>4. ASSUME NEW r \in Requests, Send(r) PROVE KeyInv'
  <2> DEFINE a == [host |-> HostEntry(req[r]), date |-> req[r].date, key |-> req[r].key]
             q == [req[r] EXCEPT !.at = "sent", !.via = req[r].via + 1, !.auth = a]
  <2>1. CacheSound'
    BY <1>0, <1>4 DEF Send, CacheSound
  <2>2. req[r].key = [secret |-> req[r].secret, date |-> req[r].date]
    BY <1>0, <1>4 DEF Send, OwnKey
  <2>3. q.at = "sent" /\ q.secret = req[r].secret /\ q.auth = a
    BY <1>0 DEF RequestType
  <2>4. req' = [req EXCEPT ![r] = q]
    BY <1>4 DEF Send
  <2> HIDE DEF q
  <2>5. OwnKey(q)
    BY <2>2, <2>3 DEF OwnKey
  <2> QED
    BY <2>1, <2>4, <2>5, PutKey
<1>5. ASSUME NEW r \in Requests, NEW end \in {"done", "failed"},
             req' = [req EXCEPT ![r].at = end], UNCHANGED <<day, cacheDate, cacheKey>>
      PROVE  KeyInv'
  <2> DEFINE q == [req[r] EXCEPT !.at = end]
  <2>1. CacheSound'
    BY <1>0, <1>5 DEF CacheSound
  <2>2. q.at = end
    BY <1>0 DEF RequestType
  <2>3. req' = [req EXCEPT ![r] = q]
    BY <1>5
  <2> HIDE DEF q
  <2>4. OwnKey(q)
    BY <2>2 DEF OwnKey
  <2> QED
    BY <2>1, <2>3, <2>4, PutKey
<1>6. ASSUME NEW r \in Requests, Redirected(r) PROVE KeyInv'
  <2>1. CASE TooMany(req[r])
    <3>1. req' = [req EXCEPT ![r] = [req[r] EXCEPT !.at = "failed"]]
      BY <1>6, <2>1 DEF Redirected
    <3>2. req' = [req EXCEPT ![r].at = "failed"]
      BY <3>1
    <3> QED
      BY <3>2, <1>5, <1>6 DEF Redirected
  <2>2. CASE ~TooMany(req[r])
    <3>1. PICK h \in Hosts :
             req' = [req EXCEPT ![r] =
                        Stamped([NextRequest(req[r], h) EXCEPT !.header = NoHost])]
      BY <1>6, <2>2 DEF Redirected
    <3> DEFINE q == [NextRequest(req[r], h) EXCEPT !.header = NoHost]
    <3>2. req' = [req EXCEPT ![r] = Stamped(q)]
      BY <3>1
    <3>3. q \in RequestType
      BY <1>0 DEF NextRequest, RequestType, SomeHost
    <3>4. CacheSound'
      BY <1>0, <1>6 DEF Redirected, CacheSound
    <3> HIDE DEF q
    <3> QED
      BY <3>2, <3>3, <3>4, StampedKey, PutKey
  <2> QED
    BY <2>1, <2>2
<1>7. CASE Midnight
  BY <1>0, <1>7 DEF Midnight, KeyInv, CacheSound
<1>8. CASE UNCHANGED vars
  BY <1>0, <1>8 DEF vars, KeyInv, CacheSound
<1>9. ASSUME NEW r \in Requests, ClientStep(r) \/ Answered(r) \/ Redirected(r) PROVE KeyInv'
  BY <1>1, <1>2, <1>3, <1>4, <1>5, <1>6, <1>9 DEF ClientStep, Answered, Fails
<1> QED
  BY <1>7, <1>8, <1>9 DEF Next, Finished

(* What is sent is signed with the key of its own secret and date, for any *)
(* number of goroutines and midnights, when the process has one secret.    *)
THEOREM KeyOfDateHolds == ASSUME OneSecret PROVE Spec => []KeyOfDate
<1>1. KeyInv => KeyOfDate
  BY DEF KeyInv, KeyOfDate, OwnKey
<1>2. Init => KeyInv
  BY KeyInitial
<1>3. Inv /\ KeyInv /\ [Next]_vars => KeyInv'
  BY KeyStep
<1> QED
  BY <1>1, <1>2, <1>3, RequestInvariant, PTL DEF Spec
=============================================================================
