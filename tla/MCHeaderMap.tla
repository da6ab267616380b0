---------------------------- MODULE MCHeaderMap ----------------------------
(***************************************************************************)
(* An instance of HeaderMap for TLC: three names, one of them spelled in   *)
(* two ways.                                                               *)
(***************************************************************************)
EXTENDS HeaderMap

FoldedCase == [s \in Spellings |-> IF s = "ETAG" THEN "etag" ELSE s]
=============================================================================
