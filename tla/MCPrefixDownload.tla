-------------------------- MODULE MCPrefixDownload --------------------------
(***************************************************************************)
(* Instances of PrefixDownload for TLC: under "m/", in the bucket's order, *)
(* an object whose key is the prefix itself, two whose names are equal in  *)
(* different directories, and a directory marker.                          *)
(***************************************************************************)
EXTENDS PrefixDownload

ThePrefix == <<"m">>
TheKeys == << <<"m", "">>, <<"m", "a">>, <<"m", "b", "a">>, <<"m", "d", "">> >>
=============================================================================
