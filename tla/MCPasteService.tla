--------------------------- MODULE MCPasteService ---------------------------
(* Two handlers and one worker over two ids and one plaintext envelope, so  *)
(* the second paste is always a duplicate of the first; one crash.          *)
EXTENDS PasteService, TLC

CONSTANTS h1, h2, i1, i2, envelope, he, hp

MCHashOf == envelope :> he
MCPlainHashOf == envelope :> hp

Symmetry == Permutations({h1, h2}) \cup Permutations({i1, i2})
=============================================================================
