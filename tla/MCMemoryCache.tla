---------------------------- MODULE MCMemoryCache ----------------------------
(* A small instance of the in-memory cache for TLC. *)
EXTENDS MemoryCache, TLC

CONSTANTS p1, p2

\* Values of two sizes under one key, so that one may take the place of another.
MCSizes == "a" :> {1, 2} @@ "b" :> {1}
=============================================================================
