--------------------------- MODULE MCTokenClient ---------------------------
(* Instances of TokenClient for TLC. *)
EXTENDS TokenClient
=============================================================================
