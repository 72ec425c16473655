--------------------------- MODULE OrderedListing ---------------------------
(***************************************************************************)
(* What ListObjects promises the reader of its channels: the objects that  *)
(* are there come one by one in the order of their keys, each of them      *)
(* once, until all have come or the listing fails.  Pages, tokens and the  *)
(* capacity of the channel do not show.                                    *)
(***************************************************************************)
EXTENDS Integers, Sequences

CONSTANTS
    Keys        \* the keys there may be

VARIABLES
    wanted,     \* the objects that are there; they do not change
    listed,     \* those that have come, in order
    outcome     \* "running", or how the listing ended: "done" or "failed"

vars == <<wanted, listed, outcome>>

Init ==
    /\ wanted \in SUBSET Keys
    /\ listed = <<>>
    /\ outcome = "running"

Rest == {k \in wanted : \A i \in DOMAIN listed : listed[i] # k}

(* One more object, the first of those that have not come. *)
Deliver ==
    /\ outcome = "running"
    /\ \E k \in Rest : (\A j \in Rest : k <= j) /\ listed' = Append(listed, k)
    /\ UNCHANGED <<wanted, outcome>>

(* The end of the listing, which is the end of the objects. *)
Finish ==
    /\ outcome = "running"
    /\ Rest = {}
    /\ outcome' = "done"
    /\ UNCHANGED <<wanted, listed>>

Fail ==
    /\ outcome = "running"
    /\ outcome' = "failed"
    /\ UNCHANGED <<wanted, listed>>

(* The program is started again, and lists from the beginning. *)
Restart ==
    /\ listed' = <<>>
    /\ outcome' = "running"
    /\ UNCHANGED wanted

Next == Deliver \/ Finish \/ Fail \/ Restart

Spec == Init /\ [][Next]_vars
=============================================================================
