--------------------------- MODULE GenerateKeypair ---------------------------
(***************************************************************************)
(* muenc generate (src/src/cli.rs, run; src/src/application.rs,            *)
(* generate_keypair): runs of the program that make a key pair in one      *)
(* directory, where a pair is two files that are published one by one.     *)
(*                                                                         *)
(* A key is named by the run that generated it; the public and the private *)
(* half of one key have the same name. A TransactionalOutput is used by    *)
(* its promise: commit renames or fails, and a value that is dropped       *)
(* without commit removes its temporary file, if it can.                   *)
(***************************************************************************)
EXTENDS Naturals, FiniteSets

CONSTANTS
    Run,          \* runs of muenc generate
    Forced,       \* those with --force
    Old,          \* the key the directory held before any of them
    None,         \* no such file
    Concurrent    \* whether runs may overlap

ASSUME RunsAssumption == Forced \subseteq Run /\ Concurrent \in BOOLEAN
ASSUME SentinelsAssumption == Old \notin Run /\ None \notin Run /\ Old # None

VARIABLES
    pc,
    public,       \* public_key.pem
    private,      \* private_key.pem
    held,         \* held[r]: the TransactionalOutput values run r has
    files,        \* files[r]: their temporary files, also after the value is gone
    snapshot,     \* snapshot[r]: the public key that run r backed up
    result,       \* result[r]: what run r returns, once that is decided
    before,       \* before[r]: both files as run r found them (history only)
    overlapped    \* whether two runs ever published at once (history only)

vars == <<pc, public, private, held, files, snapshot, result, before, overlapped>>
keys == <<public, private>>
history == <<before, overlapped>>
memory == <<snapshot, result, history>>
temporaries == <<held, files>>

Key == Run \cup {Old, None}
Temporary == {"private", "public", "backup"}
Checking == {"checkPublic", "checkPrivate", "prompt", "generate"}
Publishing == {"newPrivate", "newPublic", "writePrivate", "writePublic", "readPrevious",
               "newBackup", "writeBackup", "commitPublic", "commitPrivate", "rollback",
               "unwind"}
Terminal == {"ok", "err", "rollbackErr", "killed"}

Ended(r) == pc[r] \in Terminal
Running(r) == pc[r] \notin Terminal \cup {"idle"}

\* A run has looked at the previous public key and may still publish.
InPublication(r) ==
    pc[r] \in {"newBackup", "writeBackup", "commitPublic", "commitPrivate", "rollback"}

-----------------------------------------------------------------------------
Init ==
    /\ pc = [r \in Run |-> "idle"]
    /\ public \in {Old, None}
    /\ private \in {Old, None}
    /\ held = [r \in Run |-> {}]
    /\ files = [r \in Run |-> {}]
    /\ snapshot = [r \in Run |-> None]
    /\ result = [r \in Run |-> "none"]
    /\ before = [r \in Run |-> <<None, None>>]
    /\ overlapped = FALSE

Goto(r, location) == pc' = [pc EXCEPT ![r] = location]

\* An early return: the error is decided, then the values are dropped.
Fail(r) ==
    /\ Goto(r, "unwind")
    /\ result' = [result EXCEPT ![r] = "err"]
    /\ UNCHANGED <<snapshot, history>>

Proceed(r, location) == Goto(r, location) /\ UNCHANGED memory

\* From here on what a run knows of the public key gets stale when another publishes.
EnterPublication(r, location, previous) ==
    /\ snapshot' = [snapshot EXCEPT ![r] = previous]
    /\ overlapped' = (overlapped \/ \E q \in Run : InPublication(q))
    /\ Goto(r, location)
    /\ UNCHANGED <<result, before>>

\* A value goes, with its temporary file unless remove_file fails.
DropValue(r, t) ==
    /\ held' = [held EXCEPT ![r] = @ \ {t}]
    /\ \/ files' = [files EXCEPT ![r] = @ \ {t}]
       \/ UNCHANGED files

\* A value goes by a commit that succeeded.
Committed(r, t) ==
    /\ held' = [held EXCEPT ![r] = @ \ {t}]
    /\ files' = [files EXCEPT ![r] = @ \ {t}]

-----------------------------------------------------------------------------
(* Mistakes that each property is tested against: the operators below are  *)
(* the ones their comments name, gone wrong. Next uses none of them.       *)

\* CheckPublic: existing means that both files do.
CheckBoth(r) ==
    /\ pc[r] = "checkPublic"
    /\ IF public # None /\ private # None /\ r \notin Forced
         THEN Fail(r) ELSE Proceed(r, "prompt")
    /\ UNCHANGED <<keys, temporaries>>

\* NewPublic: the early return does not drop the private output.
NewPublicLeaks(r) ==
    /\ pc[r] = "newPublic"
    /\ \/ /\ Proceed(r, "writePrivate")
          /\ held' = [held EXCEPT ![r] = @ \cup {"public"}]
          /\ files' = [files EXCEPT ![r] = @ \cup {"public"}]
       \/ Proceed(r, "err") /\ UNCHANGED temporaries
    /\ UNCHANGED keys

\* ReadPrevious: the previous key is kept in memory only.
KeepInMemory(r) ==
    /\ pc[r] = "readPrevious"
    /\ EnterPublication(r, "commitPublic", public)
    /\ UNCHANGED <<keys, temporaries>>

\* ReadPrevious: the backup is of the key that was there when the run started.
ReadAtStart(r) ==
    /\ pc[r] = "readPrevious"
    /\ IF before[r][1] = None
         THEN EnterPublication(r, "commitPublic", None)
         ELSE EnterPublication(r, "newBackup", before[r][1])
    /\ UNCHANGED <<keys, temporaries>>

\* CommitPublicFails: the error is ignored.
CommitPublicIgnored(r) ==
    /\ pc[r] = "commitPublic"
    /\ DropValue(r, "public")
    /\ Proceed(r, "commitPrivate")
    /\ UNCHANGED keys

\* CommitPrivateFails: the error is ignored.
CommitPrivateIgnored(r) ==
    /\ pc[r] = "commitPrivate"
    /\ DropValue(r, "private")
    /\ Goto(r, "unwind")
    /\ result' = [result EXCEPT ![r] = "ok"]
    /\ UNCHANGED <<keys, snapshot, history>>

\* CommitPrivateFails: no rollback.
NoRollback(r) ==
    /\ pc[r] = "commitPrivate"
    /\ DropValue(r, "private")
    /\ Fail(r)
    /\ UNCHANGED keys

\* RollbackFails: reported like any other error.
RollbackFailsSilently(r) ==
    /\ pc[r] = "rollback"
    /\ IF "backup" \in held[r] THEN DropValue(r, "backup") ELSE UNCHANGED temporaries
    /\ Proceed(r, "unwind")
    /\ UNCHANGED keys

-----------------------------------------------------------------------------
(* cli.rs                                                                  *)

Start(r) ==
    /\ pc[r] = "idle"
    /\ Concurrent \/ \A q \in Run : ~Running(q)
    /\ before' = [before EXCEPT ![r] = keys]
    /\ Goto(r, "checkPublic")
    /\ UNCHANGED <<keys, temporaries, snapshot, result, overlapped>>

\* keypair_exists: two files, looked at one after the other.
Authorize(r) == IF r \in Forced THEN Proceed(r, "prompt") ELSE Fail(r)

CheckPublic(r) ==
    /\ pc[r] = "checkPublic"
    /\ IF public # None THEN Authorize(r) ELSE Proceed(r, "checkPrivate")
    /\ UNCHANGED <<keys, temporaries>>

CheckPrivate(r) ==
    /\ pc[r] = "checkPrivate"
    /\ IF private # None THEN Authorize(r) ELSE Proceed(r, "prompt")
    /\ UNCHANGED <<keys, temporaries>>

\* As long as the user takes; the answers may not match.
Prompt(r) ==
    /\ pc[r] = "prompt"
    /\ Proceed(r, "generate") \/ Fail(r)
    /\ UNCHANGED <<keys, temporaries>>

-----------------------------------------------------------------------------
(* generate_keypair                                                        *)

\* create_dir_all and generate_keypair of the algorithm.
Generate(r) ==
    /\ pc[r] = "generate"
    /\ Proceed(r, "newPrivate") \/ Fail(r)
    /\ UNCHANGED <<keys, temporaries>>

NewOutput(r, t, next) ==
    \/ /\ Proceed(r, next)
       /\ held' = [held EXCEPT ![r] = @ \cup {t}]
       /\ files' = [files EXCEPT ![r] = @ \cup {t}]
    \/ Fail(r) /\ UNCHANGED temporaries

NewPrivate(r) ==
    /\ pc[r] = "newPrivate"
    /\ NewOutput(r, "private", "newPublic")
    /\ UNCHANGED keys

NewPublic(r) ==
    /\ pc[r] = "newPublic"
    /\ NewOutput(r, "public", "writePrivate")
    /\ UNCHANGED keys

WriteKeys(r) ==
    /\ \/ pc[r] = "writePrivate" /\ (Proceed(r, "writePublic") \/ Fail(r))
       \/ pc[r] = "writePublic" /\ (Proceed(r, "readPrevious") \/ Fail(r))
    /\ UNCHANGED <<keys, temporaries>>

ReadPrevious(r) ==
    /\ pc[r] = "readPrevious"
    /\ IF public = None
         THEN EnterPublication(r, "commitPublic", None)
         ELSE EnterPublication(r, "newBackup", public)
    /\ UNCHANGED <<keys, temporaries>>

\* Any error but NotFound.
ReadPreviousFails(r) ==
    /\ pc[r] = "readPrevious"
    /\ Fail(r)
    /\ UNCHANGED <<keys, temporaries>>

NewBackup(r) ==
    /\ pc[r] = "newBackup"
    /\ NewOutput(r, "backup", "writeBackup")
    /\ UNCHANGED keys

WriteBackup(r) ==
    /\ pc[r] = "writeBackup"
    /\ Proceed(r, "commitPublic") \/ Fail(r)
    /\ UNCHANGED <<keys, temporaries>>

CommitPublic(r) ==
    /\ pc[r] = "commitPublic"
    /\ public' = r
    /\ Committed(r, "public")
    /\ Proceed(r, "commitPrivate")
    /\ UNCHANGED private

CommitPublicFails(r) ==
    /\ pc[r] = "commitPublic"
    /\ DropValue(r, "public")
    /\ Fail(r)
    /\ UNCHANGED keys

CommitPrivate(r) ==
    /\ pc[r] = "commitPrivate"
    /\ private' = r
    /\ Committed(r, "private")
    /\ Goto(r, "unwind")
    /\ result' = [result EXCEPT ![r] = "ok"]
    /\ UNCHANGED <<public, snapshot, history>>

\* commit consumed the value: the new private key is gone before the rollback.
CommitPrivateFails(r) ==
    /\ pc[r] = "commitPrivate"
    /\ DropValue(r, "private")
    /\ Goto(r, "rollback")
    /\ result' = [result EXCEPT ![r] = "err"]
    /\ UNCHANGED <<keys, snapshot, history>>

\* backup.commit() when there is a backup, else remove_file(public_path).
Rollback(r) ==
    /\ pc[r] = "rollback"
    /\ IF "backup" \in held[r]
         THEN public' = snapshot[r] /\ Committed(r, "backup")
         ELSE public # None /\ public' = None /\ UNCHANGED temporaries
    /\ Proceed(r, "unwind")
    /\ UNCHANGED private

RollbackFails(r) ==
    /\ pc[r] = "rollback"
    /\ IF "backup" \in held[r] THEN DropValue(r, "backup") ELSE UNCHANGED temporaries
    /\ Goto(r, "unwind")
    /\ result' = [result EXCEPT ![r] = "rollbackErr"]
    /\ UNCHANGED <<keys, snapshot, history>>

\* The values left are dropped, the last declared first.
Unwind(r) ==
    /\ pc[r] = "unwind"
    /\ held[r] # {}
    /\ DropValue(r, IF "backup" \in held[r] THEN "backup"
                    ELSE IF "public" \in held[r] THEN "public" ELSE "private")
    /\ UNCHANGED <<pc, keys, memory>>

Return(r) ==
    /\ pc[r] = "unwind"
    /\ held[r] = {}
    /\ Proceed(r, result[r])
    /\ UNCHANGED <<keys, temporaries>>

\* A signal, a panic: nothing is dropped, the temporary files stay.
Kill(r) ==
    /\ Running(r)
    /\ Goto(r, "killed")
    /\ held' = [held EXCEPT ![r] = {}]
    /\ UNCHANGED <<keys, files, memory>>

Authorization(r) == CheckPublic(r) \/ CheckPrivate(r) \/ Prompt(r)
Staging(r) ==
    \/ Generate(r) \/ NewPrivate(r) \/ NewPublic(r) \/ WriteKeys(r)
    \/ ReadPrevious(r) \/ ReadPreviousFails(r) \/ NewBackup(r) \/ WriteBackup(r)
Publication(r) ==
    \/ CommitPublic(r) \/ CommitPublicFails(r) \/ CommitPrivate(r) \/ CommitPrivateFails(r)
    \/ Rollback(r) \/ RollbackFails(r) \/ Unwind(r) \/ Return(r)

Step(r) == Authorization(r) \/ Staging(r) \/ Publication(r)
Finished == (\A r \in Run : Ended(r)) /\ UNCHANGED vars

Next == (\E r \in Run : Start(r) \/ Step(r) \/ Kill(r)) \/ Finished
Spec == Init /\ [][Next]_vars
-----------------------------------------------------------------------------
(* Properties                                                              *)

TypeOK ==
    /\ pc \in [Run -> {"idle"} \cup Checking \cup Publishing \cup Terminal]
    /\ public \in Key
    /\ private \in Key
    /\ held \in [Run -> SUBSET Temporary]
    /\ files \in [Run -> SUBSET Temporary]
    /\ \A r \in Run : held[r] \subseteq files[r] /\ (held[r] # {} => pc[r] \in Publishing)
    /\ snapshot \in [Run -> Key]
    /\ result \in [Run -> {"none", "ok", "err", "rollbackErr"}]
    /\ before \in [Run -> Key \X Key]
    /\ overlapped \in BOOLEAN

\* A run that reports success has published both halves of its own key
\* (application.rs, the two commits; runs that do not overlap).
SuccessPublishesPair ==
    [][\A r \in Run : pc[r] # "ok" /\ pc'[r] = "ok" => public' = r /\ private' = r]_vars

\* A run that reports an error, other than a failed rollback, leaves both files
\* as it found them, wherever it failed (README, "attempts to restore the
\* previous public key"; runs that do not overlap).
FailureRestoresPair ==
    [][\A r \in Run : pc[r] # "err" /\ pc'[r] = "err" => keys' = before[r]]_vars

\* KeypairRollback is the error of exactly those failed runs that leave a public
\* key without its private key (error.rs, KeypairRollback; README, "reports any
\* restoration failure"; runs that do not overlap).
RollbackErrorIsAccurate ==
    [][\A r \in Run : Running(r) /\ pc'[r] \in {"ok", "err", "rollbackErr"} =>
          (pc'[r] = "rollbackErr" <=> public' = r /\ private' # r)]_vars

\* A run killed at any point between the two commits has lost nothing: the
\* private key of the public key that it published is published or in a temporary
\* file, and the public key of the private key that is still there is in the
\* backup. Losing one takes a failed publication, which the run reports if it
\* lives (application.rs, "Stage the previous public key before publishing" and
\* the order of the commits; runs that do not overlap).
BothPairsRecoverable ==
    \A r \in Run : public = r /\ private # r =>
        /\ "private" \in files[r] \/ result[r] \in {"err", "rollbackErr"}
        /\ before[r][1] # None =>
              \/ "backup" \in files[r] /\ snapshot[r] = before[r][1]
              \/ result[r] = "rollbackErr"

\* A key file that exists is replaced only by a run with --force, or by the run
\* that made it (README, "Existing keys require --force to replace").
ReplacesOnlyWithForce ==
    [][\A r \in Run \ Forced : pc[r] # pc'[r] =>
          /\ public \notin {None, r} => public' = public
          /\ private \notin {None, r} => private' = private]_vars

\* Even when runs overlap, one without --force leaves alone the keys that were
\* there before all of them: it looks at both files, in whatever order the
\* others change them (cli.rs, authorize_keypair_replacement).
UnforcedSparesOld ==
    [][\A r \in Run \ Forced : pc[r] # pc'[r] =>
          /\ public = Old => public' = Old
          /\ private = Old => private' = Old]_vars

\* Runs whose publications are one after the other may overlap in all the rest,
\* the checks, the prompts, the staging: once none of them publishes, the two
\* files are a pair, or what they were at first, or the fault of the run whose
\* public key is there, which was killed or reported KeypairRollback
\* (application.rs, generate_keypair: the backup is of the key that the commit
\* replaces, not of the one that the run found when it started).
OrderedPublicationsPair ==
    ~overlapped /\ (\A r \in Run : ~InPublication(r)) =>
        \/ public = private
        \/ keys \in {Old, None} \X {Old, None}
        \/ public \in Run /\ (pc[public] = "killed" \/ result[public] = "rollbackErr")
=============================================================================
