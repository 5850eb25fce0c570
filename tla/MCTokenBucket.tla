--------------------------- MODULE MCTokenBucket ---------------------------
(* Two goroutines and one address with a bucket of two: long enough to      *)
(* drain it, starve it, fill it and have it forgotten.                      *)
EXTENDS TokenBucket, TLC

CONSTANTS c1, c2

Symmetry == Permutations({c1, c2})
=============================================================================
