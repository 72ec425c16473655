--------------------------- MODULE ObjectListing ---------------------------
(***************************************************************************)
(* ListObjects: a goroutine that asks for the keys under a prefix page by  *)
(* page and sends what is not a directory marker down a bounded channel,   *)
(* until the last page, the first error or the end of the context.  The    *)
(* consumer, DownloadPrefix, is in PrefixDownload.                         *)
(*                                                                         *)
(* A key is its position in the order in which S3 lists keys.  What is     *)
(* under the prefix does not change while it is listed.                    *)
(***************************************************************************)
EXTENDS Integers, FiniteSets, Sequences

CONSTANTS
    Keys,               \* the keys that may be under the prefix
    Markers,            \* those that are directory markers: size 0, final "/"
    PageSize,           \* max-keys (1000)
    ChanCap             \* capacity of objectCh (1000)

ASSUME ListingAssumption ==
    /\ IsFiniteSet(Keys) /\ Keys \subseteq Nat \ {0}
    /\ Markers \subseteq Keys
    /\ PageSize \in Nat \ {0}
    /\ ChanCap \in Nat \ {0}

VARIABLES
    interrupted,    \* the context of the listing, main's, is cancelled
    bucket,         \* the keys under the prefix
    lister,         \* where the goroutine stands
    token,          \* continuationToken: the last key of the page before, or 0
    page,           \* the keys of this page that are not yet sent
    more,           \* truncated
    objectCh,       \* the channel of objects
    errCh           \* the channel of one error: "none" when it is empty

listing == <<lister, token, page, more, objectCh, errCh>>

InitListing ==
    /\ lister = "check"
    /\ token = 0
    /\ page = {}
    /\ more = FALSE
    /\ objectCh = <<>>
    /\ errCh = "none"

(* The same, once more: the program is started again. *)
ResetListing ==
    /\ lister' = "check"
    /\ token' = 0
    /\ page' = {}
    /\ more' = FALSE
    /\ objectCh' = <<>>
    /\ errCh' = "none"

Least(S) == CHOOSE k \in S : \A j \in S : k <= j

(* The server's reply to listPage: the first PageSize keys after the token.*)
After(t) == {k \in bucket : k > t}
PageAfter(t) == {k \in After(t) : Cardinality({j \in After(t) : j < k}) < PageSize}

(* The deferred close calls: errCh first, then objectCh, which is all that *)
(* the consumer waits for.                                                 *)
Close(error) ==
    /\ errCh' = error
    /\ lister' = "closed"

-----------------------------------------------------------------------------
(* if ctx.Err() != nil { errCh <- ctx.Err(); return } *)
SilentEnd == "none"                                             \* mutant
CancelError == "canceled"

CheckContext ==
    /\ lister = "check"
    /\ IF interrupted
       THEN Close(CancelError)
       ELSE lister' = "request" /\ UNCHANGED errCh
    /\ UNCHANGED <<token, page, more, objectCh>>

(* NextContinuationToken is opaque: the server resumes after this page.    *)
SameToken(keys) == token                                        \* mutant
NextToken(keys) == IF keys = {} THEN token ELSE CHOOSE k \in keys : \A j \in keys : j <= k

(* listPage returns a page. *)
PageReply ==
    /\ lister = "request"
    /\ page' = PageAfter(token)
    /\ token' = NextToken(page')
    /\ more' = (After(token) # page')
    /\ lister' = "send"
    /\ UNCHANGED <<objectCh, errCh>>

(* listPage fails: connection, status, header timeout, body, XML.  It is   *)
(* not tried again.                                                        *)
PageFails ==
    /\ lister = "request"
    /\ Close("page")
    /\ UNCHANGED <<token, page, more, objectCh>>

(* The request carries the context. *)
NoContext == FALSE                                              \* mutant
RequestCtxDone == interrupted

PageCancelled ==
    /\ RequestCtxDone
    /\ PageFails

(* Directory markers are skipped without a look at the context. *)
SkipMarker ==
    /\ lister = "send"
    /\ page # {}
    /\ Least(page) \in Markers
    /\ page' = page \ {Least(page)}
    /\ UNCHANGED <<lister, token, more, objectCh, errCh>>

(* select { case objectCh <- obj: ... case <-ctx.Done(): ... } *)
SendObject ==
    /\ lister = "send"
    /\ page # {}
    /\ Least(page) \notin Markers
    /\ Len(objectCh) < ChanCap
    /\ objectCh' = Append(objectCh, Least(page))
    /\ page' = page \ {Least(page)}
    /\ UNCHANGED <<lister, token, more, errCh>>

SendCancelled ==
    /\ lister = "send"
    /\ page # {}
    /\ Least(page) \notin Markers
    /\ interrupted
    /\ Close(CancelError)
    /\ UNCHANGED <<token, page, more, objectCh>>

(* if !truncated { return } *)
PageDone ==
    /\ lister = "send"
    /\ page = {}
    /\ IF ~more
       THEN Close("none")
       ELSE lister' = "check" /\ UNCHANGED errCh
    /\ UNCHANGED <<token, page, more, objectCh>>

(* What the goroutine does without the server. *)
ListerStep ==
    \/ CheckContext \/ PageCancelled \/ SkipMarker \/ SendObject \/ SendCancelled \/ PageDone

ListerNext == (ListerStep \/ PageReply \/ PageFails) /\ UNCHANGED <<interrupted, bucket>>

-----------------------------------------------------------------------------
ListingTypeOK ==
    /\ interrupted \in BOOLEAN
    /\ bucket \subseteq Keys
    /\ lister \in {"check", "request", "send", "closed"}
    /\ token \in Nat
    /\ page \subseteq bucket
    /\ more \in BOOLEAN
    /\ objectCh \in Seq(Keys)
    /\ Len(objectCh) <= ChanCap
    /\ errCh \in {"none", "canceled", "page"}
=============================================================================
