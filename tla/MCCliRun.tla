------------------------------ MODULE MCCliRun ------------------------------
(***************************************************************************)
(* Instances of CliRun for TLC: every combination of sources of the        *)
(* credentials for a single file; every way to name the mode and to set    *)
(* the region with credentials that are complete.                          *)
(***************************************************************************)
EXTENDS CliRun

MCGivens ==
    {g \in AllGivens : g.key = "object" /\ ~g.prefix /\ g.complete /\ g.regions = {"config"}}
    \cup {g \in AllGivens : g.access /\ g.secret /\ ~g.profile
                            /\ {g.env, g.named, g.default} = {"unusable"}}
=============================================================================
