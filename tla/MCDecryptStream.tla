--------------------------- MODULE MCDecryptStream ---------------------------
(***************************************************************************)
(* DecryptStream on every body of up to MaxLength units: the sealed one,   *)
(* its truncations and extensions, and everything it can be changed into.  *)
(***************************************************************************)
EXTENDS DecryptStream

CONSTANTS a, b, MaxLength

Bodies == UNION {[1 .. n -> Unit] : n \in 0 .. MaxLength}
SealedBodies == {<<a, b, b, a, b>>}
=============================================================================
