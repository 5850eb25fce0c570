--------------------------- MODULE MCSqlStorage ---------------------------
(* A small database with two strings: an encrypted paste, and a plaintext  *)
(* envelope whose content is the very text of that encrypted paste, so one *)
(* digest is the content hash of the first and the plaintext hash of the   *)
(* second.                                                                 *)
EXTENDS SqlStorage, TLC

CONSTANTS c1, c2, i1, i2, i3, cipher, envelope, hc, he

MCHashOf == cipher :> hc @@ envelope :> he
MCPlainHashOf == cipher :> Null @@ envelope :> hc

Symmetry == Permutations({c1, c2}) \cup Permutations({i1, i2, i3})
=============================================================================
