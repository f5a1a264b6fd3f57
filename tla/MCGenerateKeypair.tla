-------------------------- MODULE MCGenerateKeypair --------------------------
(***************************************************************************)
(* GenerateKeypair for a few runs, some with --force.                      *)
(***************************************************************************)
EXTENDS GenerateKeypair

CONSTANTS r1, r2, r3
=============================================================================
