--------------------------- MODULE AtomicDownload ---------------------------
(***************************************************************************)
(* What downloader.Download promises about its output path, seen from the  *)
(* outside: a call either puts the complete contents of an object there,   *)
(* in one step, or gives up and leaves the path as it was.  A process that *)
(* stops half way loses the call, never the file.                          *)
(***************************************************************************)
CONSTANTS
    Objects,    \* the complete contents the server's object may have
    Prior       \* what the output path holds before the first call

VARIABLES
    out,        \* what the output path holds
    outcome     \* "running", or how the last call ended: "ok" or "failed"

vars == <<out, outcome>>

Init == out = Prior /\ outcome = "running"

(* Download returns a Result: the output path holds a complete object. *)
Install ==
    /\ outcome = "running"
    /\ outcome' = "ok"
    /\ out' \in Objects

(* Download returns an error: the output path is as it was. *)
GiveUp ==
    /\ outcome = "running"
    /\ outcome' = "failed"
    /\ UNCHANGED out

(* The process is started again, after a return or after a crash. *)
Restart ==
    /\ outcome' = "running"
    /\ UNCHANGED out

Next == Install \/ GiveUp \/ Restart

Spec == Init /\ [][Next]_vars
=============================================================================
