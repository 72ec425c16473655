--------------------------- MODULE RequestSigning ---------------------------
(***************************************************************************)
(* The requests of several goroutines: signed with SigV4 through one cache *)
(* of signing keys (signRequest, signingKeyCache.get), sent, answered, or  *)
(* redirected to another host and signed again (CheckRedirect).            *)
(*                                                                         *)
(* Time is the day, which is what a signing key depends on.  A signing key *)
(* is the pair of the secret and the day it was derived from; region and   *)
(* service are those of the one Config.  A signature is what it covers.    *)
(* HMAC and the rest of the canonical request are functions of these.      *)
(***************************************************************************)
EXTENDS Integers

CONSTANTS
    Requests,       \* the requests, one goroutine each
    Hosts,          \* the endpoint and the workers it redirects to
    Endpoint,       \* cfg.Endpoint
    Secrets,        \* the secret keys in use
    NoSecret,       \* no credentials: requests are not signed
    NoHost,         \* the empty string, as a host
    MaxRedirects,   \* maxRedirects (10)
    MaxDays         \* bound: days that pass

ASSUME SigningAssumption ==
    /\ Endpoint \in Hosts
    /\ NoHost \notin Hosts
    /\ NoSecret \notin Secrets
    /\ MaxRedirects \in Nat \ {0}
    /\ MaxDays \in Nat

VARIABLES
    day,            \* what time.Now() says
    cacheDate,      \* sigKeyCache.cacheKey: a day, 0 when it is empty
    cacheKey,       \* sigKeyCache.signingKey
    req             \* the goroutine of each request

vars == <<day, cacheDate, cacheKey, req>>

Days == 1 .. MaxDays + 1
SomeSecret == Secrets \cup {NoSecret}
SomeHost == Hosts \cup {NoHost}
SigningKeys == [secret : SomeSecret, date : Days \cup {0}]
NoKey == [secret |-> NoSecret, date |-> 0]
NoSignature == [host |-> NoHost, date |-> 0, key |-> NoKey]

(* A request: where its goroutine stands, the requests it has made (via),  *)
(* req.URL.Host, req.Host, the Host entry of its header, the credentials,  *)
(* the date it was stamped with, its signing key, what Authorization       *)
(* covers.                                                                 *)
RequestType ==
    [at : {"new", "lookup", "derive", "sign", "sent", "done", "failed"}, via : 0 .. MaxRedirects,
     url : Hosts, host : SomeHost, header : SomeHost, secret : SomeSecret,
     date : Days \cup {0}, key : SigningKeys,
     auth : [host : SomeHost, date : Days \cup {0}, key : SigningKeys]]

Init ==
    /\ day = 1
    /\ cacheDate = 0
    /\ cacheKey = NoKey
    /\ \E s \in [Requests -> SomeSecret] :
          req = [r \in Requests |->
                    [at |-> "new", via |-> 0, url |-> Endpoint, host |-> Endpoint,
                     header |-> NoHost, secret |-> s[r], date |-> 0, key |-> NoKey,
                     auth |-> NoSignature]]

-----------------------------------------------------------------------------
(* The Host entry: req.Host unless the header has one already.             *)
HostEntry(q) == IF q.header = NoHost THEN q.host ELSE q.header

(* signRequest's first part, or no signature without credentials: one      *)
(* reading of the clock gives X-Amz-Date and the date of the key.          *)
Stamped(q) ==
    IF q.secret = NoSecret
    THEN [q EXCEPT !.at = "sent", !.via = @ + 1]
    ELSE [q EXCEPT !.at = "lookup", !.date = day, !.header = HostEntry(q)]

(* A request of headObject, listPage or downloadChunk. *)
Create(r) ==
    /\ req[r].at = "new"
    /\ req' = [req EXCEPT ![r] = Stamped(@)]
    /\ UNCHANGED <<day, cacheDate, cacheKey>>

(* signingKeyCache.get, under the read lock. *)
AnyEntry(q) == cacheDate # 0                                    \* mutant
Hit(q) == cacheDate = q.date

Lookup(r) ==
    /\ req[r].at = "lookup"
    /\ req' = [req EXCEPT ![r] = IF Hit(@) THEN [@ EXCEPT !.at = "sign", !.key = cacheKey]
                                 ELSE [@ EXCEPT !.at = "derive"]]
    /\ UNCHANGED <<day, cacheDate, cacheKey>>

(* deriveSigningKey, then the store under the write lock; the caller gets  *)
(* the key it derived.                                                     *)
Derived(q) == [secret |-> q.secret, date |-> q.date]

Store(r) ==
    /\ req[r].at = "derive"
    /\ cacheDate' = req[r].date
    /\ cacheKey' = Derived(req[r])
    /\ req' = [req EXCEPT ![r] = [@ EXCEPT !.at = "sign", !.key = Derived(req[r])]]
    /\ UNCHANGED day

(* getCanonicalHeaders covers the Host entry, or req.Host without one.     *)
Send(r) ==
    /\ req[r].at = "sign"
    /\ req' = [req EXCEPT ![r] =
          [@ EXCEPT !.at = "sent", !.via = req[r].via + 1,
                    !.auth = [host |-> HostEntry(req[r]), date |-> req[r].date,
                              key |-> req[r].key]]]
    /\ UNCHANGED <<day, cacheDate, cacheKey>>

-----------------------------------------------------------------------------
(* The headers of the final response.  Its body is read without a deadline *)
(* of the client's, by the caller and not here.                            *)
Answered(r) ==
    /\ req[r].at = "sent"
    /\ req' = [req EXCEPT ![r].at = "done"]
    /\ UNCHANGED <<day, cacheDate, cacheKey>>

(* ResponseHeaderTimeout, a lost connection, or the context. *)
NeverTimesOut(r) == FALSE                                       \* mutant
TimesOut(r) == req[r].at = "sent"

Fails(r) ==
    /\ TimesOut(r)
    /\ req' = [req EXCEPT ![r].at = "failed"]
    /\ UNCHANGED <<day, cacheDate, cacheKey>>

(* CheckRedirect: len(via) >= maxRedirects *)
OneHopMore(q) == q.via > MaxRedirects                           \* mutant
TooMany(q) == q.via >= MaxRedirects

(* net/http makes the next request: for the new URL, without req.Host,     *)
(* with the header of the first one (this one's Host entry is that, or was *)
(* deleted on the way).                                                    *)
NextRequest(q, h) == [q EXCEPT !.url = h, !.host = NoHost]

(* With credentials CheckRedirect deletes what was signed, Host included,  *)
(* and signs again.                                                        *)
Redirected(r) ==
    /\ req[r].at = "sent"
    /\ \E h \in Hosts :
          req' = [req EXCEPT ![r] =
                     IF TooMany(@) THEN [@ EXCEPT !.at = "failed"]
                     ELSE Stamped([NextRequest(@, h) EXCEPT !.header = NoHost])]
    /\ UNCHANGED <<day, cacheDate, cacheKey>>

Midnight ==
    /\ day <= MaxDays
    /\ day' = day + 1
    /\ UNCHANGED <<cacheDate, cacheKey, req>>

Finished ==
    /\ \A r \in Requests : req[r].at \in {"done", "failed"}
    /\ UNCHANGED vars

ClientStep(r) == Create(r) \/ Lookup(r) \/ Store(r) \/ Send(r) \/ Fails(r)

Next ==
    \/ \E r \in Requests : ClientStep(r) \/ Answered(r) \/ Redirected(r)
    \/ Midnight \/ Finished

Spec == Init /\ [][Next]_vars

(* The goroutines go on, and ResponseHeaderTimeout (30 s) ends the wait    *)
(* for an answer's headers.  Nothing is assumed of the servers.            *)
FairSpec == Spec /\ \A r \in Requests : WF_vars(ClientStep(r))

-----------------------------------------------------------------------------
(* Types; a request is sent at most MaxRedirects times. *)
TypeOK ==
    /\ day \in Days
    /\ cacheDate \in Days \cup {0}
    /\ cacheKey \in SigningKeys
    /\ req \in [Requests -> RequestType]

(* What is sent is signed with the key of its own secret and of its own    *)
(* date, whatever other goroutines put into the cache around midnight.     *)
KeyOfDate ==
    \A r \in Requests :
        (req[r].at = "sent" /\ req[r].secret # NoSecret)
            => req[r].auth.key = [secret |-> req[r].secret, date |-> req[r].auth.date]

(* Every hop is signed for the host it is sent to: CheckRedirect, "Re-sign *)
(* the request for the new host".                                          *)
SignedHost ==
    \A r \in Requests :
        (req[r].at = "sent" /\ req[r].secret # NoSecret) => req[r].auth.host = req[r].url

(* Every request ends, as far as the headers of its response: servers that *)
(* redirect for ever, or to each other, are given up ("limit redirect      *)
(* depth to prevent loops").                                               *)
RequestsEnd == \A r \in Requests : req[r].at = "lookup" ~> req[r].at \in {"done", "failed"}
=============================================================================
