--------------------------- MODULE ChatRequestsMC ---------------------------
(* Three requests that overlap in every way; they are interchangeable.     *)
EXTENDS ChatRequests, TLC

CONSTANTS r1, r2, r3

Interchangeable == Permutations(Requests)
=============================================================================
