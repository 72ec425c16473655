-------------------------- MODULE MCObjectDownload --------------------------
(***************************************************************************)
(* Instances of ObjectDownload for TLC.  With ChunkSize = 2, v1 takes range*)
(* GETs (the last one short) and v2 a single GET, so that replacing one by *)
(* the other changes the size in both directions.                          *)
(***************************************************************************)
EXTENDS ObjectDownload

CONSTANTS v1, v2

ThreeChunks == [v \in Versions |-> IF v = v1 THEN 5 ELSE 2]
TwoChunks == [v \in Versions |-> IF v = v1 THEN 3 ELSE 2]
=============================================================================
