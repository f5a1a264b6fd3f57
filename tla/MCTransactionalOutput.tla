------------------------ MODULE MCTransactionalOutput ------------------------
(***************************************************************************)
(* TransactionalOutput on small instances: two processes that share a pid. *)
(***************************************************************************)
EXTENDS TransactionalOutput, TLC

CONSTANTS o1, o2, o3, p1, p2, i1, d1, s1

SharedPid == (p1 :> i1) @@ (p2 :> i1)
OneStem == [d \in Destination \cup {Stdio} |-> s1]

\* One output in each of two runs: both to the same file, or one to stdout.
TwoRuns == (o1 :> p1) @@ (o2 :> p2)
SameFile == (o1 :> d1) @@ (o2 :> d1)
StdoutAndFile == (o1 :> Stdio) @@ (o2 :> d1)

\* Two outputs of one run for the same file (as for a public key and the backup
\* of its predecessor), beside a run that writes to stdout.
ThreeOutputs == (o1 :> p1) @@ (o2 :> p1) @@ (o3 :> p2)
BackupAndStdout == (o1 :> d1) @@ (o2 :> d1) @@ (o3 :> Stdio)
=============================================================================
