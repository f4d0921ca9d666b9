----------------------------- MODULE MCS3Writer -----------------------------
(* Small instances of S3Writer for TLC: the names of callers and keys. *)
EXTENDS S3Writer

CONSTANTS c1, c2, k1, k2
=============================================================================
