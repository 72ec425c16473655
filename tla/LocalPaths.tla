----------------------------- MODULE LocalPaths -----------------------------
(***************************************************************************)
(* Where DownloadPrefix puts an object: its key without the prefix, under  *)
(* the output directory.                                                   *)
(*                                                                         *)
(* A key, the prefix and a path are sequences of segments, what "/"        *)
(* separates; a final "/" is a final empty segment.  The prefix ends in    *)
(* "/", and its final empty segment is left out.  A segment is not "..",   *)
(* which would climb the directories.                                      *)
(***************************************************************************)
EXTENDS Integers, Sequences, FiniteSets

CONSTANTS
    Prefix,         \* mcfg.Prefix
    KeyName         \* the segments of a key

Solid(segment) == segment \notin {"", "."}
Plain(segment) == Solid(segment) /\ segment # ".."

(* filepath.Join cleans a path of empty segments and ".", filepath.Base    *)
(* returns the last segment of the clean path.                             *)
Kept(segments) == {i \in DOMAIN segments : Solid(segments[i])}
Clean(segments) ==
    [n \in 1 .. Cardinality(Kept(segments)) |->
        segments[CHOOSE i \in Kept(segments) : Cardinality({j \in Kept(segments) : j <= i}) = n]]
Base(segments) == <<segments[CHOOSE i \in Kept(segments) : \A j \in Kept(segments) : j <= i]>>

(* strings.TrimPrefix; what is left of the prefix itself is "".            *)
Trimmed(k) == SubSeq(KeyName[k], Len(Prefix) + 1, Len(KeyName[k]))

BaseOnly(k) == Base(KeyName[k])                                 \* mutant
RelativePath(k) == IF Trimmed(k) = <<"">> THEN Base(KeyName[k]) ELSE Trimmed(k)

(* The file under OutputDir, and Download's temporary file next to it. *)
LocalPath(k) == Clean(RelativePath(k))
TempName(name) == "." \o name \o ".tmp"
TempPath(k) == [LocalPath(k) EXCEPT ![Len(LocalPath(k))] = TempName(@)]
Files(k) == {LocalPath(k), TempPath(k)}
Name(k) == LocalPath(k)[Len(LocalPath(k))]
=============================================================================
