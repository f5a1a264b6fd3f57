----------------------- MODULE GenerateKeypair_proofs -----------------------
(***************************************************************************)
(* GenerateKeypair: proofs, for any number of runs, with and without       *)
(* --force. What holds when runs do not overlap is stated under the        *)
(* assumption ~Concurrent, the rest for both values of that constant.      *)
(***************************************************************************)
EXTENDS GenerateKeypair, TLAPS

-----------------------------------------------------------------------------
(* The inductive invariant, of runs that may overlap.                      *)

\* What a run holds follows from where it is, until it unwinds: the outputs in the
\* order in which they are made, each until its commit, and a backup exactly when
\* there was a public key.
HeldAt(r) ==
    /\ pc[r] # "unwind" =>
          /\ "private" \in held[r] <=>
                pc[r] \in {"newPublic", "writePrivate", "writePublic", "readPrevious", "newBackup",
                          "writeBackup", "commitPublic", "commitPrivate"}
          /\ "public" \in held[r] <=>
                pc[r] \in {"writePrivate", "writePublic", "readPrevious", "newBackup",
                          "writeBackup", "commitPublic"}
          /\ "backup" \in held[r] <=>
                /\ pc[r] \in {"writeBackup", "commitPublic", "commitPrivate", "rollback"}
                /\ snapshot[r] # None
    /\ pc[r] \in {"newBackup", "writeBackup"} => snapshot[r] # None

HeldAsDeclared == \A r \in Run : HeldAt(r)

\* The result is decided once, by the step that starts to unwind or to roll back.
ResultDecided ==
    \A r \in Run :
        /\ pc[r] \in {"idle"} \cup Checking \cup (Publishing \ {"rollback", "unwind"})
              => result[r] = "none"
        /\ pc[r] = "rollback" => result[r] = "err"
        /\ pc[r] = "unwind" => result[r] \in {"ok", "err", "rollbackErr"}

\* The public key file is not the old one, and no rollback can make it that.
OldPublicGone == public # Old /\ \A r \in Run : snapshot[r] # Old

\* There is a public key file, and no rollback can remove it.
PublicStays == public # None /\ \A r \in Run : InPublication(r) => snapshot[r] # None

\* Either the directory had no public key at first, or it always has one.
PublicNeverVanishes == OldPublicGone \/ PublicStays

\* Locations beyond both checks of the files.
Authorized == {"prompt", "generate"} \cup (Publishing \ {"unwind"})

\* A run without --force that got past a check is in a directory where that file
\* was never the old one.
FoundNone(r) ==
    /\ pc[r] \in {"checkPrivate"} \cup Authorized => OldPublicGone
    /\ pc[r] \in Authorized => private # Old

UnforcedFoundNone == \A r \in Run \ Forced : FoundNone(r)

\* The two keys belong together, or are those of the start, or a run is to blame.
Settled(pub, priv) ==
    \/ pub = priv
    \/ <<pub, priv>> \in {Old, None} \X {Old, None}
    \/ pub \in Run /\ (pc[pub] = "killed" \/ result[pub] = "rollbackErr")

\* As long as no publications overlapped there is at most one, and the keys that
\* its rollback would leave are settled.
PublishesAlone ==
    ~overlapped =>
        /\ \A r, q \in Run : InPublication(r) /\ InPublication(q) => r = q
        /\ (\A r \in Run : ~InPublication(r)) => Settled(public, private)
        /\ \A r \in Run : InPublication(r) => Settled(snapshot[r], private)
        /\ \A r \in Run : pc[r] \in {"newBackup", "writeBackup", "commitPublic"}
                             => snapshot[r] = public
        /\ \A r \in Run : pc[r] \in {"commitPrivate", "rollback"} => public = r

IInv ==
    /\ TypeOK
    /\ HeldAsDeclared
    /\ ResultDecided
    /\ PublicNeverVanishes
    /\ UnforcedFoundNone
    /\ PublishesAlone

-----------------------------------------------------------------------------
(* The inductive invariant, of runs one after the other.                   *)

OneAtATime == \A r, q \in Run : Running(r) /\ Running(q) => r = q

\* A key is nowhere before the run that generates it.
FreshKey ==
    \A r \in Run :
        /\ pc[r] = "idle" =>
              /\ public # r /\ private # r
              /\ \A q \in Run : before[q][1] # r /\ before[q][2] # r
        /\ Running(r) => before[r][1] # r /\ before[r][2] # r

\* Where the files stand against what the run found.
Beside(r) ==
    /\ pc[r] \in Checking \cup (Publishing \ {"commitPrivate", "rollback", "unwind"})
          => public = before[r][1] /\ private = before[r][2]
    /\ InPublication(r) => snapshot[r] = before[r][1]
    /\ pc[r] \in {"commitPrivate", "rollback"} => public = r /\ private = before[r][2]
    /\ pc[r] = "unwind" =>
          /\ result[r] = "ok" => public = r /\ private = r
          /\ result[r] = "err" => public = before[r][1] /\ private = before[r][2]
          /\ result[r] = "rollbackErr" => public = r /\ private = before[r][2]

FilesFollow == \A r \in Run : Beside(r)

\* Without --force a run gets past a check only if that file was missing.
UnforcedStartsEmpty ==
    \A r \in Run \ Forced :
        /\ pc[r] \in {"checkPrivate"} \cup Authorized => before[r][1] = None
        /\ pc[r] \in Authorized => before[r][2] = None

\* What the run that published r left of the private key and of the previous pair.
Recoverable(r) ==
    /\ "private" \in files[r] \/ result[r] \in {"err", "rollbackErr"}
    /\ before[r][1] # None =>
          \/ "backup" \in files[r] /\ snapshot[r] = before[r][1]
          \/ result[r] = "rollbackErr"

\* The same, of the files that a running run found and may restore.
FoundPair(q, r) ==
    Running(q) /\ before[q][1] = r /\ before[q][2] # r => Recoverable(r)

FoundRecoverable == \A q, r \in Run : FoundPair(q, r)

SInv ==
    /\ OneAtATime
    /\ FreshKey
    /\ FilesFollow
    /\ UnforcedStartsEmpty
    /\ FoundRecoverable
    /\ BothPairsRecoverable

\* What the action properties say of one run, each as an action.
SparesOld(s) ==
    pc[s] # pc'[s] =>
        /\ public = Old => public' = Old
        /\ private = Old => private' = Old

Succeeds(s) == pc[s] # "ok" /\ pc'[s] = "ok" => public' = s /\ private' = s

Restores(s) == pc[s] # "err" /\ pc'[s] = "err" => keys' = before[s]

ReportsRollback(s) ==
    Running(s) /\ pc'[s] \in {"ok", "err", "rollbackErr"} =>
        (pc'[s] = "rollbackErr" <=> public' = s /\ private' # s)

ReplacesOwn(s) ==
    pc[s] # pc'[s] =>
        /\ public \notin {None, s} => public' = public
        /\ private \notin {None, s} => private' = private


-----------------------------------------------------------------------------
\* What the step that reads the previous public key does: from here on the run is
\* in publication, and two of them are an overlap.
LEMMA ReadEnters ==
    ASSUME NEW r \in Run, ReadPrevious(r)
    PROVE  /\ pc[r] = "readPrevious"
           /\ pc' = [pc EXCEPT ![r] = IF public = None THEN "commitPublic" ELSE "newBackup"]
           /\ snapshot' = [snapshot EXCEPT ![r] = public]
           /\ overlapped' \in BOOLEAN
           /\ ~overlapped' => ~overlapped /\ \A q \in Run : ~InPublication(q)
           /\ UNCHANGED <<public, private, held, files, result, before>>
<1> USE DEF EnterPublication, Goto, keys, temporaries
<1>1. overlapped' = (overlapped \/ \E q \in Run : InPublication(q))
  BY DEF ReadPrevious
<1>2. pc[r] = "readPrevious" /\ UNCHANGED <<public, private, held, files, result, before>>
  BY DEF ReadPrevious
<1>3. CASE public = None
  BY <1>1, <1>2, <1>3 DEF ReadPrevious
<1>4. CASE public # None
  BY <1>1, <1>2, <1>4 DEF ReadPrevious
<1>5. QED BY <1>3, <1>4

\* Every variable keeps its type: what a run holds it has on disk, and it returns
\* only when it holds nothing.
LEMMA TypeStep == TypeOK /\ ResultDecided /\ [Next]_vars => TypeOK'
<1> SUFFICES ASSUME TypeOK, ResultDecided, [Next]_vars
             PROVE  TypeOK'
  OBVIOUS
<1> USE DEF TypeOK, ResultDecided, Key, Temporary, Checking, Publishing, Terminal, keys,
        history, memory, temporaries, Goto, Fail, Proceed, Authorize, NewOutput,
        DropValue, Committed
<1>1. ASSUME NEW r \in Run, Start(r) PROVE TypeOK'
  BY <1>1 DEF Start
<1>2. ASSUME NEW r \in Run, Authorization(r) PROVE TypeOK'
  <2>1. CASE CheckPublic(r)
    BY <2>1 DEF CheckPublic
  <2>2. CASE CheckPrivate(r)
    BY <2>2 DEF CheckPrivate
  <2>3. CASE Prompt(r)
    BY <2>3 DEF Prompt
  <2>4. QED BY <1>2, <2>1, <2>2, <2>3 DEF Authorization
<1>3. ASSUME NEW r \in Run, Staging(r) PROVE TypeOK'
  <2>1. CASE Generate(r)
    BY <2>1 DEF Generate
  <2>2. CASE NewPrivate(r)
    BY <2>2 DEF NewPrivate
  <2>3. CASE NewPublic(r)
    BY <2>3 DEF NewPublic
  <2>4. CASE WriteKeys(r)
    BY <2>4 DEF WriteKeys
  <2>5. CASE ReadPrevious(r)
    BY <2>5, ReadEnters
  <2>6. CASE ReadPreviousFails(r)
    BY <2>6 DEF ReadPreviousFails
  <2>7. CASE NewBackup(r)
    BY <2>7 DEF NewBackup
  <2>8. CASE WriteBackup(r)
    BY <2>8 DEF WriteBackup
  <2>9. QED BY <1>3, <2>1, <2>2, <2>3, <2>4, <2>5, <2>6, <2>7, <2>8 DEF Staging
<1>4. ASSUME NEW r \in Run, Publication(r) PROVE TypeOK'
  <2>1. CASE CommitPublic(r)
    BY <2>1 DEF CommitPublic
  <2>2. CASE CommitPublicFails(r)
    BY <2>2 DEF CommitPublicFails
  <2>3. CASE CommitPrivate(r)
    BY <2>3 DEF CommitPrivate
  <2>4. CASE CommitPrivateFails(r)
    BY <2>4 DEF CommitPrivateFails
  <2>5. CASE Rollback(r)
    BY <2>5 DEF Rollback
  <2>6. CASE RollbackFails(r)
    BY <2>6 DEF RollbackFails
  <2>7. CASE Unwind(r)
    BY <2>7 DEF Unwind
  <2>8. CASE Return(r)
    BY <2>8 DEF Return
  <2>9. QED BY <1>4, <2>1, <2>2, <2>3, <2>4, <2>5, <2>6, <2>7, <2>8 DEF Publication
<1>5. ASSUME NEW r \in Run, Kill(r) PROVE TypeOK'
  BY <1>5 DEF Kill, Running
<1>6. CASE UNCHANGED vars
  BY <1>6 DEF vars
<1>7. QED BY <1>1, <1>2, <1>3, <1>4, <1>5, <1>6 DEF Next, Step, Finished

\* A run holds what its place says.
LEMMA HeldStep == TypeOK /\ HeldAsDeclared /\ [Next]_vars => HeldAsDeclared'
<1> SUFFICES ASSUME TypeOK, HeldAsDeclared, [Next]_vars, NEW s \in Run
             PROVE  HeldAt(s)'
  BY DEF HeldAsDeclared
<1> USE DEF TypeOK, HeldAsDeclared, HeldAt, Checking, Publishing, Terminal, keys, history,
        memory, temporaries, Goto, Fail, Proceed, Authorize, NewOutput, DropValue,
        Committed
<1>1. ASSUME NEW r \in Run, Start(r) PROVE HeldAt(s)'
  BY <1>1 DEF Start
<1>2. ASSUME NEW r \in Run, Authorization(r) PROVE HeldAt(s)'
  <2>1. CASE CheckPublic(r)
    BY <2>1 DEF CheckPublic
  <2>2. CASE CheckPrivate(r)
    BY <2>2 DEF CheckPrivate
  <2>3. CASE Prompt(r)
    BY <2>3 DEF Prompt
  <2>4. QED BY <1>2, <2>1, <2>2, <2>3 DEF Authorization
<1>3. ASSUME NEW r \in Run, Staging(r) PROVE HeldAt(s)'
  <2>1. CASE Generate(r)
    BY <2>1 DEF Generate
  <2>2. CASE NewPrivate(r)
    BY <2>2 DEF NewPrivate
  <2>3. CASE NewPublic(r)
    BY <2>3 DEF NewPublic
  <2>4. CASE WriteKeys(r)
    BY <2>4 DEF WriteKeys
  <2>5. CASE ReadPrevious(r)
    BY <2>5, ReadEnters
  <2>6. CASE ReadPreviousFails(r)
    BY <2>6 DEF ReadPreviousFails
  <2>7. CASE NewBackup(r)
    BY <2>7 DEF NewBackup
  <2>8. CASE WriteBackup(r)
    BY <2>8 DEF WriteBackup
  <2>9. QED BY <1>3, <2>1, <2>2, <2>3, <2>4, <2>5, <2>6, <2>7, <2>8 DEF Staging
<1>4. ASSUME NEW r \in Run, Publication(r) PROVE HeldAt(s)'
  <2>1. CASE CommitPublic(r)
    BY <2>1 DEF CommitPublic
  <2>2. CASE CommitPublicFails(r)
    BY <2>2 DEF CommitPublicFails
  <2>3. CASE CommitPrivate(r)
    BY <2>3 DEF CommitPrivate
  <2>4. CASE CommitPrivateFails(r)
    BY <2>4 DEF CommitPrivateFails
  <2>5. CASE Rollback(r)
    BY <2>5 DEF Rollback
  <2>6. CASE RollbackFails(r)
    BY <2>6 DEF RollbackFails
  <2>7. CASE Unwind(r)
    BY <2>7 DEF Unwind
  <2>8. CASE Return(r)
    BY <2>8 DEF Return
  <2>9. QED BY <1>4, <2>1, <2>2, <2>3, <2>4, <2>5, <2>6, <2>7, <2>8 DEF Publication
<1>5. ASSUME NEW r \in Run, Kill(r) PROVE HeldAt(s)'
  BY <1>5 DEF Kill, Running
<1>6. CASE UNCHANGED vars
  BY <1>6 DEF vars
<1>7. QED BY <1>1, <1>2, <1>3, <1>4, <1>5, <1>6 DEF Next, Step, Finished

\* The result is decided once.
LEMMA ResultStep == TypeOK /\ ResultDecided /\ [Next]_vars => ResultDecided'
<1> SUFFICES ASSUME TypeOK, ResultDecided, [Next]_vars
             PROVE  ResultDecided'
  OBVIOUS
<1> USE DEF TypeOK, ResultDecided, Checking, Publishing, Terminal, keys, history, memory,
        temporaries, Goto, Fail, Proceed, Authorize, NewOutput, DropValue, Committed
<1>1. ASSUME NEW r \in Run, Start(r) PROVE ResultDecided'
  BY <1>1 DEF Start
<1>2. ASSUME NEW r \in Run, Authorization(r) PROVE ResultDecided'
  <2>1. CASE CheckPublic(r)
    BY <2>1 DEF CheckPublic
  <2>2. CASE CheckPrivate(r)
    BY <2>2 DEF CheckPrivate
  <2>3. CASE Prompt(r)
    BY <2>3 DEF Prompt
  <2>4. QED BY <1>2, <2>1, <2>2, <2>3 DEF Authorization
<1>3. ASSUME NEW r \in Run, Staging(r) PROVE ResultDecided'
  <2>1. CASE Generate(r)
    BY <2>1 DEF Generate
  <2>2. CASE NewPrivate(r)
    BY <2>2 DEF NewPrivate
  <2>3. CASE NewPublic(r)
    BY <2>3 DEF NewPublic
  <2>4. CASE WriteKeys(r)
    BY <2>4 DEF WriteKeys
  <2>5. CASE ReadPrevious(r)
    BY <2>5, ReadEnters
  <2>6. CASE ReadPreviousFails(r)
    BY <2>6 DEF ReadPreviousFails
  <2>7. CASE NewBackup(r)
    BY <2>7 DEF NewBackup
  <2>8. CASE WriteBackup(r)
    BY <2>8 DEF WriteBackup
  <2>9. QED BY <1>3, <2>1, <2>2, <2>3, <2>4, <2>5, <2>6, <2>7, <2>8 DEF Staging
<1>4. ASSUME NEW r \in Run, Publication(r) PROVE ResultDecided'
  <2>1. CASE CommitPublic(r)
    BY <2>1 DEF CommitPublic
  <2>2. CASE CommitPublicFails(r)
    BY <2>2 DEF CommitPublicFails
  <2>3. CASE CommitPrivate(r)
    BY <2>3 DEF CommitPrivate
  <2>4. CASE CommitPrivateFails(r)
    BY <2>4 DEF CommitPrivateFails
  <2>5. CASE Rollback(r)
    BY <2>5 DEF Rollback
  <2>6. CASE RollbackFails(r)
    BY <2>6 DEF RollbackFails
  <2>7. CASE Unwind(r)
    BY <2>7 DEF Unwind
  <2>8. CASE Return(r)
    BY <2>8 DEF Return
  <2>9. QED BY <1>4, <2>1, <2>2, <2>3, <2>4, <2>5, <2>6, <2>7, <2>8 DEF Publication
<1>5. ASSUME NEW r \in Run, Kill(r) PROVE ResultDecided'
  BY <1>5 DEF Kill, Running
<1>6. CASE UNCHANGED vars
  BY <1>6 DEF vars
<1>7. QED BY <1>1, <1>2, <1>3, <1>4, <1>5, <1>6 DEF Next, Step, Finished

\* Nobody brings the old public key back once nobody has it any more.
LEMMA GoneStep ==
    TypeOK /\ HeldAsDeclared /\ OldPublicGone /\ [Next]_vars
      => OldPublicGone'
<1> SUFFICES ASSUME TypeOK, HeldAsDeclared, OldPublicGone, [Next]_vars
             PROVE  OldPublicGone'
  OBVIOUS
<1> USE DEF TypeOK, HeldAsDeclared, HeldAt, OldPublicGone, keys, history, memory,
        temporaries, Goto, Fail, Proceed, Authorize, NewOutput, DropValue, Committed
<1>1. ASSUME NEW r \in Run, Start(r) PROVE OldPublicGone'
  BY <1>1 DEF Start
<1>2. ASSUME NEW r \in Run, Authorization(r) PROVE OldPublicGone'
  <2>1. CASE CheckPublic(r)
    BY <2>1 DEF CheckPublic
  <2>2. CASE CheckPrivate(r)
    BY <2>2 DEF CheckPrivate
  <2>3. CASE Prompt(r)
    BY <2>3 DEF Prompt
  <2>4. QED BY <1>2, <2>1, <2>2, <2>3 DEF Authorization
<1>3. ASSUME NEW r \in Run, Staging(r) PROVE OldPublicGone'
  <2>1. CASE Generate(r)
    BY <2>1 DEF Generate
  <2>2. CASE NewPrivate(r)
    BY <2>2 DEF NewPrivate
  <2>3. CASE NewPublic(r)
    BY <2>3 DEF NewPublic
  <2>4. CASE WriteKeys(r)
    BY <2>4 DEF WriteKeys
  <2>5. CASE ReadPrevious(r)
    BY <2>5, ReadEnters
  <2>6. CASE ReadPreviousFails(r)
    BY <2>6 DEF ReadPreviousFails
  <2>7. CASE NewBackup(r)
    BY <2>7 DEF NewBackup
  <2>8. CASE WriteBackup(r)
    BY <2>8 DEF WriteBackup
  <2>9. QED BY <1>3, <2>1, <2>2, <2>3, <2>4, <2>5, <2>6, <2>7, <2>8 DEF Staging
<1>4. ASSUME NEW r \in Run, Publication(r) PROVE OldPublicGone'
  <2>1. CASE CommitPublic(r)
    BY <2>1, SentinelsAssumption DEF CommitPublic
  <2>2. CASE CommitPublicFails(r)
    BY <2>2 DEF CommitPublicFails
  <2>3. CASE CommitPrivate(r)
    BY <2>3, SentinelsAssumption DEF CommitPrivate
  <2>4. CASE CommitPrivateFails(r)
    BY <2>4 DEF CommitPrivateFails
  <2>5. CASE Rollback(r)
    BY <2>5, SentinelsAssumption DEF Rollback
  <2>6. CASE RollbackFails(r)
    BY <2>6 DEF RollbackFails
  <2>7. CASE Unwind(r)
    BY <2>7 DEF Unwind
  <2>8. CASE Return(r)
    BY <2>8 DEF Return
  <2>9. QED BY <1>4, <2>1, <2>2, <2>3, <2>4, <2>5, <2>6, <2>7, <2>8 DEF Publication
<1>5. ASSUME NEW r \in Run, Kill(r) PROVE OldPublicGone'
  BY <1>5 DEF Kill
<1>6. CASE UNCHANGED vars
  BY <1>6 DEF vars
<1>7. QED BY <1>1, <1>2, <1>3, <1>4, <1>5, <1>6 DEF Next, Step, Finished

\* Nobody removes the public key once every run that may roll back has a backup.
LEMMA StaysStep ==
    TypeOK /\ HeldAsDeclared /\ PublicStays /\ [Next]_vars
      => PublicStays'
<1> SUFFICES ASSUME TypeOK, HeldAsDeclared, PublicStays, [Next]_vars
             PROVE  PublicStays'
  OBVIOUS
<1> USE DEF TypeOK, HeldAsDeclared, HeldAt, PublicStays, InPublication, keys, history,
        memory, temporaries, Goto, Fail, Proceed, Authorize, NewOutput, DropValue,
        Committed
<1>1. ASSUME NEW r \in Run, Start(r) PROVE PublicStays'
  BY <1>1 DEF Start
<1>2. ASSUME NEW r \in Run, Authorization(r) PROVE PublicStays'
  <2>1. CASE CheckPublic(r)
    BY <2>1 DEF CheckPublic
  <2>2. CASE CheckPrivate(r)
    BY <2>2 DEF CheckPrivate
  <2>3. CASE Prompt(r)
    BY <2>3 DEF Prompt
  <2>4. QED BY <1>2, <2>1, <2>2, <2>3 DEF Authorization
<1>3. ASSUME NEW r \in Run, Staging(r) PROVE PublicStays'
  <2>1. CASE Generate(r)
    BY <2>1 DEF Generate
  <2>2. CASE NewPrivate(r)
    BY <2>2 DEF NewPrivate
  <2>3. CASE NewPublic(r)
    BY <2>3 DEF NewPublic
  <2>4. CASE WriteKeys(r)
    BY <2>4 DEF WriteKeys
  <2>5. CASE ReadPrevious(r)
    BY <2>5, ReadEnters
  <2>6. CASE ReadPreviousFails(r)
    BY <2>6 DEF ReadPreviousFails
  <2>7. CASE NewBackup(r)
    BY <2>7 DEF NewBackup
  <2>8. CASE WriteBackup(r)
    BY <2>8 DEF WriteBackup
  <2>9. QED BY <1>3, <2>1, <2>2, <2>3, <2>4, <2>5, <2>6, <2>7, <2>8 DEF Staging
<1>4. ASSUME NEW r \in Run, Publication(r) PROVE PublicStays'
  <2>1. CASE CommitPublic(r)
    BY <2>1, SentinelsAssumption DEF CommitPublic
  <2>2. CASE CommitPublicFails(r)
    BY <2>2 DEF CommitPublicFails
  <2>3. CASE CommitPrivate(r)
    BY <2>3, SentinelsAssumption DEF CommitPrivate
  <2>4. CASE CommitPrivateFails(r)
    BY <2>4 DEF CommitPrivateFails
  <2>5. CASE Rollback(r)
    BY <2>5, SentinelsAssumption DEF Rollback
  <2>6. CASE RollbackFails(r)
    BY <2>6 DEF RollbackFails
  <2>7. CASE Unwind(r)
    BY <2>7 DEF Unwind
  <2>8. CASE Return(r)
    BY <2>8 DEF Return
  <2>9. QED BY <1>4, <2>1, <2>2, <2>3, <2>4, <2>5, <2>6, <2>7, <2>8 DEF Publication
<1>5. ASSUME NEW r \in Run, Kill(r) PROVE PublicStays'
  BY <1>5 DEF Kill
<1>6. CASE UNCHANGED vars
  BY <1>6 DEF vars
<1>7. QED BY <1>1, <1>2, <1>3, <1>4, <1>5, <1>6 DEF Next, Step, Finished

\* A run without --force gets past a check only where there is no file.
LEMMA UnforcedStep ==
    TypeOK /\ PublicNeverVanishes /\ UnforcedFoundNone /\
    (OldPublicGone => OldPublicGone') /\ [Next]_vars
      => UnforcedFoundNone'
<1> SUFFICES ASSUME TypeOK, PublicNeverVanishes, UnforcedFoundNone,
                   (OldPublicGone => OldPublicGone'), [Next]_vars, NEW s \in Run \ Forced
             PROVE  FoundNone(s)'
  BY DEF UnforcedFoundNone
<1> USE DEF TypeOK, UnforcedFoundNone, FoundNone, PublicNeverVanishes, PublicStays,
        Authorized, Checking, Publishing, Terminal, keys, history, memory, temporaries,
        Goto, Fail, Proceed, Authorize, NewOutput, DropValue, Committed
<1>1. ASSUME NEW r \in Run, Start(r) PROVE FoundNone(s)'
  BY <1>1 DEF Start
<1>2. ASSUME NEW r \in Run, Authorization(r) PROVE FoundNone(s)'
  <2>1. CASE CheckPublic(r)
    BY <2>1 DEF CheckPublic
  <2>2. CASE CheckPrivate(r)
    BY <2>2, SentinelsAssumption DEF CheckPrivate
  <2>3. CASE Prompt(r)
    BY <2>3 DEF Prompt
  <2>4. QED BY <1>2, <2>1, <2>2, <2>3 DEF Authorization
<1>3. ASSUME NEW r \in Run, Staging(r) PROVE FoundNone(s)'
  <2>1. CASE Generate(r)
    BY <2>1 DEF Generate
  <2>2. CASE NewPrivate(r)
    BY <2>2 DEF NewPrivate
  <2>3. CASE NewPublic(r)
    BY <2>3 DEF NewPublic
  <2>4. CASE WriteKeys(r)
    BY <2>4 DEF WriteKeys
  <2>5. CASE ReadPrevious(r)
    BY <2>5, ReadEnters
  <2>6. CASE ReadPreviousFails(r)
    BY <2>6 DEF ReadPreviousFails
  <2>7. CASE NewBackup(r)
    BY <2>7 DEF NewBackup
  <2>8. CASE WriteBackup(r)
    BY <2>8 DEF WriteBackup
  <2>9. QED BY <1>3, <2>1, <2>2, <2>3, <2>4, <2>5, <2>6, <2>7, <2>8 DEF Staging
<1>4. ASSUME NEW r \in Run, Publication(r) PROVE FoundNone(s)'
  <2>1. CASE CommitPublic(r)
    BY <2>1, SentinelsAssumption DEF CommitPublic
  <2>2. CASE CommitPublicFails(r)
    BY <2>2 DEF CommitPublicFails
  <2>3. CASE CommitPrivate(r)
    BY <2>3, SentinelsAssumption DEF CommitPrivate
  <2>4. CASE CommitPrivateFails(r)
    BY <2>4 DEF CommitPrivateFails
  <2>5. CASE Rollback(r)
    BY <2>5, SentinelsAssumption DEF Rollback
  <2>6. CASE RollbackFails(r)
    BY <2>6 DEF RollbackFails
  <2>7. CASE Unwind(r)
    BY <2>7 DEF Unwind
  <2>8. CASE Return(r)
    BY <2>8 DEF Return
  <2>9. QED BY <1>4, <2>1, <2>2, <2>3, <2>4, <2>5, <2>6, <2>7, <2>8 DEF Publication
<1>5. ASSUME NEW r \in Run, Kill(r) PROVE FoundNone(s)'
  BY <1>5 DEF Kill
<1>6. CASE UNCHANGED vars
  BY <1>6 DEF vars
<1>7. QED BY <1>1, <1>2, <1>3, <1>4, <1>5, <1>6 DEF Next, Step, Finished

\* One publication after the other leaves settled keys, whatever else overlaps.
LEMMA AloneStep ==
    TypeOK /\ HeldAsDeclared /\ ResultDecided /\ PublishesAlone /\ [Next]_vars
      => PublishesAlone'
<1> SUFFICES ASSUME TypeOK, HeldAsDeclared, ResultDecided, PublishesAlone, [Next]_vars
             PROVE  PublishesAlone'
  OBVIOUS
<1> USE DEF TypeOK, HeldAsDeclared, HeldAt, ResultDecided, PublishesAlone, Settled,
        InPublication, Key, Checking, Publishing, Terminal, keys, history, memory,
        temporaries, Goto, Fail, Proceed, Authorize, NewOutput, DropValue, Committed
<1>1. ASSUME NEW r \in Run, Start(r) PROVE PublishesAlone'
  BY <1>1 DEF Start
<1>2. ASSUME NEW r \in Run, Authorization(r) PROVE PublishesAlone'
  <2>1. CASE CheckPublic(r)
    BY <2>1 DEF CheckPublic
  <2>2. CASE CheckPrivate(r)
    BY <2>2 DEF CheckPrivate
  <2>3. CASE Prompt(r)
    BY <2>3 DEF Prompt
  <2>4. QED BY <1>2, <2>1, <2>2, <2>3 DEF Authorization
<1>3. ASSUME NEW r \in Run, Staging(r) PROVE PublishesAlone'
  <2>1. CASE Generate(r)
    BY <2>1 DEF Generate
  <2>2. CASE NewPrivate(r)
    BY <2>2 DEF NewPrivate
  <2>3. CASE NewPublic(r)
    BY <2>3 DEF NewPublic
  <2>4. CASE WriteKeys(r)
    <3>1. CASE pc[r] = "writePrivate"
      BY <2>4, <3>1 DEF WriteKeys
    <3>2. CASE pc[r] = "writePublic"
      BY <2>4, <3>2 DEF WriteKeys
    <3>3. QED BY <2>4, <3>1, <3>2 DEF WriteKeys
  <2>5. CASE ReadPrevious(r)
    BY <2>5, ReadEnters
  <2>6. CASE ReadPreviousFails(r)
    BY <2>6 DEF ReadPreviousFails
  <2>7. CASE NewBackup(r)
    BY <2>7 DEF NewBackup
  <2>8. CASE WriteBackup(r)
    BY <2>8 DEF WriteBackup
  <2>9. QED BY <1>3, <2>1, <2>2, <2>3, <2>4, <2>5, <2>6, <2>7, <2>8 DEF Staging
<1>4. ASSUME NEW r \in Run, Publication(r) PROVE PublishesAlone'
  <2>1. CASE CommitPublic(r)
    BY <2>1, SentinelsAssumption DEF CommitPublic
  <2>2. CASE CommitPublicFails(r)
    BY <2>2 DEF CommitPublicFails
  <2>3. CASE CommitPrivate(r)
    BY <2>3, SentinelsAssumption DEF CommitPrivate
  <2>4. CASE CommitPrivateFails(r)
    BY <2>4 DEF CommitPrivateFails
  <2>5. CASE Rollback(r)
    BY <2>5, SentinelsAssumption DEF Rollback
  <2>6. CASE RollbackFails(r)
    BY <2>6 DEF RollbackFails
  <2>7. CASE Unwind(r)
    BY <2>7 DEF Unwind
  <2>8. CASE Return(r)
    BY <2>8 DEF Return
  <2>9. QED BY <1>4, <2>1, <2>2, <2>3, <2>4, <2>5, <2>6, <2>7, <2>8 DEF Publication
<1>5. ASSUME NEW r \in Run, Kill(r) PROVE PublishesAlone'
  BY <1>5 DEF Kill, Running
<1>6. CASE UNCHANGED vars
  BY <1>6 DEF vars
<1>7. QED BY <1>1, <1>2, <1>3, <1>4, <1>5, <1>6 DEF Next, Step, Finished

\* A run without --force publishes only where there was no old key.
LEMMA UnforcedSparesStep ==
    TypeOK /\ UnforcedFoundNone /\ [Next]_vars
      => \A s \in Run \ Forced : SparesOld(s)
<1> SUFFICES ASSUME TypeOK, UnforcedFoundNone, [Next]_vars, NEW s \in Run \ Forced
             PROVE  SparesOld(s)
  OBVIOUS
<1> USE DEF TypeOK, UnforcedFoundNone, FoundNone, OldPublicGone, Authorized, SparesOld,
        Checking, Publishing, Terminal, keys, history, memory, temporaries, Goto, Fail,
        Proceed, Authorize, NewOutput, DropValue, Committed
<1>1. ASSUME NEW r \in Run, Start(r) PROVE SparesOld(s)
  BY <1>1 DEF Start
<1>2. ASSUME NEW r \in Run, Authorization(r) PROVE SparesOld(s)
  <2>1. CASE CheckPublic(r)
    BY <2>1 DEF CheckPublic
  <2>2. CASE CheckPrivate(r)
    BY <2>2 DEF CheckPrivate
  <2>3. CASE Prompt(r)
    BY <2>3 DEF Prompt
  <2>4. QED BY <1>2, <2>1, <2>2, <2>3 DEF Authorization
<1>3. ASSUME NEW r \in Run, Staging(r) PROVE SparesOld(s)
  <2>1. CASE Generate(r)
    BY <2>1 DEF Generate
  <2>2. CASE NewPrivate(r)
    BY <2>2 DEF NewPrivate
  <2>3. CASE NewPublic(r)
    BY <2>3 DEF NewPublic
  <2>4. CASE WriteKeys(r)
    BY <2>4 DEF WriteKeys
  <2>5. CASE ReadPrevious(r)
    BY <2>5, ReadEnters
  <2>6. CASE ReadPreviousFails(r)
    BY <2>6 DEF ReadPreviousFails
  <2>7. CASE NewBackup(r)
    BY <2>7 DEF NewBackup
  <2>8. CASE WriteBackup(r)
    BY <2>8 DEF WriteBackup
  <2>9. QED BY <1>3, <2>1, <2>2, <2>3, <2>4, <2>5, <2>6, <2>7, <2>8 DEF Staging
<1>4. ASSUME NEW r \in Run, Publication(r) PROVE SparesOld(s)
  <2>1. CASE CommitPublic(r)
    BY <2>1, SentinelsAssumption DEF CommitPublic
  <2>2. CASE CommitPublicFails(r)
    BY <2>2 DEF CommitPublicFails
  <2>3. CASE CommitPrivate(r)
    BY <2>3, SentinelsAssumption DEF CommitPrivate
  <2>4. CASE CommitPrivateFails(r)
    BY <2>4 DEF CommitPrivateFails
  <2>5. CASE Rollback(r)
    BY <2>5, SentinelsAssumption DEF Rollback
  <2>6. CASE RollbackFails(r)
    BY <2>6 DEF RollbackFails
  <2>7. CASE Unwind(r)
    BY <2>7 DEF Unwind
  <2>8. CASE Return(r)
    BY <2>8 DEF Return
  <2>9. QED BY <1>4, <2>1, <2>2, <2>3, <2>4, <2>5, <2>6, <2>7, <2>8 DEF Publication
<1>5. ASSUME NEW r \in Run, Kill(r) PROVE SparesOld(s)
  BY <1>5 DEF Kill
<1>6. CASE UNCHANGED vars
  BY <1>6 DEF vars
<1>7. QED BY <1>1, <1>2, <1>3, <1>4, <1>5, <1>6 DEF Next, Step, Finished

\* One run at a time.
LEMMA OneStep ==
    ASSUME ~Concurrent
    PROVE  TypeOK /\ ResultDecided /\ OneAtATime /\ [Next]_vars => OneAtATime'
<1> SUFFICES ASSUME TypeOK, ResultDecided, OneAtATime, [Next]_vars
             PROVE  OneAtATime'
  OBVIOUS
<1> USE DEF TypeOK, ResultDecided, OneAtATime, Running, Checking, Publishing, Terminal,
        keys, history, memory, temporaries, Goto, Fail, Proceed, Authorize, NewOutput,
        DropValue, Committed
<1>1. ASSUME NEW r \in Run, Start(r) PROVE OneAtATime'
  BY <1>1 DEF Start
<1>2. ASSUME NEW r \in Run, Authorization(r) PROVE OneAtATime'
  <2>1. CASE CheckPublic(r)
    BY <2>1 DEF CheckPublic
  <2>2. CASE CheckPrivate(r)
    BY <2>2 DEF CheckPrivate
  <2>3. CASE Prompt(r)
    BY <2>3 DEF Prompt
  <2>4. QED BY <1>2, <2>1, <2>2, <2>3 DEF Authorization
<1>3. ASSUME NEW r \in Run, Staging(r) PROVE OneAtATime'
  <2>1. CASE Generate(r)
    BY <2>1 DEF Generate
  <2>2. CASE NewPrivate(r)
    BY <2>2 DEF NewPrivate
  <2>3. CASE NewPublic(r)
    BY <2>3 DEF NewPublic
  <2>4. CASE WriteKeys(r)
    BY <2>4 DEF WriteKeys
  <2>5. CASE ReadPrevious(r)
    BY <2>5, ReadEnters
  <2>6. CASE ReadPreviousFails(r)
    BY <2>6 DEF ReadPreviousFails
  <2>7. CASE NewBackup(r)
    BY <2>7 DEF NewBackup
  <2>8. CASE WriteBackup(r)
    BY <2>8 DEF WriteBackup
  <2>9. QED BY <1>3, <2>1, <2>2, <2>3, <2>4, <2>5, <2>6, <2>7, <2>8 DEF Staging
<1>4. ASSUME NEW r \in Run, Publication(r) PROVE OneAtATime'
  <2>1. CASE CommitPublic(r)
    BY <2>1 DEF CommitPublic
  <2>2. CASE CommitPublicFails(r)
    BY <2>2 DEF CommitPublicFails
  <2>3. CASE CommitPrivate(r)
    BY <2>3 DEF CommitPrivate
  <2>4. CASE CommitPrivateFails(r)
    BY <2>4 DEF CommitPrivateFails
  <2>5. CASE Rollback(r)
    BY <2>5 DEF Rollback
  <2>6. CASE RollbackFails(r)
    BY <2>6 DEF RollbackFails
  <2>7. CASE Unwind(r)
    BY <2>7 DEF Unwind
  <2>8. CASE Return(r)
    BY <2>8 DEF Return
  <2>9. QED BY <1>4, <2>1, <2>2, <2>3, <2>4, <2>5, <2>6, <2>7, <2>8 DEF Publication
<1>5. ASSUME NEW r \in Run, Kill(r) PROVE OneAtATime'
  BY <1>5 DEF Kill
<1>6. CASE UNCHANGED vars
  BY <1>6 DEF vars
<1>7. QED BY <1>1, <1>2, <1>3, <1>4, <1>5, <1>6 DEF Next, Step, Finished

\* The key of a run is not there before the run, and no rollback brings it.
LEMMA FreshStep ==
    ASSUME ~Concurrent
    PROVE  TypeOK /\ HeldAsDeclared /\ OneAtATime /\ FilesFollow /\ FreshKey /\
           [Next]_vars
             => FreshKey'
<1> SUFFICES ASSUME TypeOK, HeldAsDeclared, OneAtATime, FilesFollow, FreshKey, [Next]_vars
             PROVE  FreshKey'
  OBVIOUS
<1> USE DEF TypeOK, HeldAsDeclared, HeldAt, OneAtATime, FilesFollow, Beside, FreshKey,
        Running, InPublication, Checking, Publishing, Terminal, keys, history, memory,
        temporaries, Goto, Fail, Proceed, Authorize, NewOutput, DropValue, Committed
<1>1. ASSUME NEW r \in Run, Start(r) PROVE FreshKey'
  BY <1>1 DEF Start
<1>2. ASSUME NEW r \in Run, Authorization(r) PROVE FreshKey'
  <2>1. CASE CheckPublic(r)
    BY <2>1 DEF CheckPublic
  <2>2. CASE CheckPrivate(r)
    BY <2>2 DEF CheckPrivate
  <2>3. CASE Prompt(r)
    BY <2>3 DEF Prompt
  <2>4. QED BY <1>2, <2>1, <2>2, <2>3 DEF Authorization
<1>3. ASSUME NEW r \in Run, Staging(r) PROVE FreshKey'
  <2>1. CASE Generate(r)
    BY <2>1 DEF Generate
  <2>2. CASE NewPrivate(r)
    BY <2>2 DEF NewPrivate
  <2>3. CASE NewPublic(r)
    BY <2>3 DEF NewPublic
  <2>4. CASE WriteKeys(r)
    BY <2>4 DEF WriteKeys
  <2>5. CASE ReadPrevious(r)
    BY <2>5, ReadEnters
  <2>6. CASE ReadPreviousFails(r)
    BY <2>6 DEF ReadPreviousFails
  <2>7. CASE NewBackup(r)
    BY <2>7 DEF NewBackup
  <2>8. CASE WriteBackup(r)
    BY <2>8 DEF WriteBackup
  <2>9. QED BY <1>3, <2>1, <2>2, <2>3, <2>4, <2>5, <2>6, <2>7, <2>8 DEF Staging
<1>4. ASSUME NEW r \in Run, Publication(r) PROVE FreshKey'
  <2>1. CASE CommitPublic(r)
    BY <2>1, SentinelsAssumption DEF CommitPublic
  <2>2. CASE CommitPublicFails(r)
    BY <2>2 DEF CommitPublicFails
  <2>3. CASE CommitPrivate(r)
    BY <2>3, SentinelsAssumption DEF CommitPrivate
  <2>4. CASE CommitPrivateFails(r)
    BY <2>4 DEF CommitPrivateFails
  <2>5. CASE Rollback(r)
    BY <2>5, SentinelsAssumption DEF Rollback
  <2>6. CASE RollbackFails(r)
    BY <2>6 DEF RollbackFails
  <2>7. CASE Unwind(r)
    BY <2>7 DEF Unwind
  <2>8. CASE Return(r)
    BY <2>8 DEF Return
  <2>9. QED BY <1>4, <2>1, <2>2, <2>3, <2>4, <2>5, <2>6, <2>7, <2>8 DEF Publication
<1>5. ASSUME NEW r \in Run, Kill(r) PROVE FreshKey'
  BY <1>5 DEF Kill
<1>6. CASE UNCHANGED vars
  BY <1>6 DEF vars
<1>7. QED BY <1>1, <1>2, <1>3, <1>4, <1>5, <1>6 DEF Next, Step, Finished

\* The files follow the place of the one run that is running.
LEMMA FollowStep ==
    ASSUME ~Concurrent
    PROVE  TypeOK /\ HeldAsDeclared /\ ResultDecided /\ OneAtATime /\ FreshKey /\
           FilesFollow /\ [Next]_vars
             => FilesFollow'
<1> SUFFICES ASSUME TypeOK, HeldAsDeclared, ResultDecided, OneAtATime, FreshKey,
                   FilesFollow, [Next]_vars, NEW s \in Run
             PROVE  Beside(s)'
  BY DEF FilesFollow
<1> USE DEF TypeOK, HeldAsDeclared, HeldAt, ResultDecided, OneAtATime, FreshKey,
        FilesFollow, Beside, Running, InPublication, Checking, Publishing, Terminal, keys,
        history, memory, temporaries, Goto, Fail, Proceed, Authorize, NewOutput,
        DropValue, Committed
<1>1. ASSUME NEW r \in Run, Start(r) PROVE Beside(s)'
  BY <1>1 DEF Start
<1>2. ASSUME NEW r \in Run, Authorization(r) PROVE Beside(s)'
  <2>1. CASE CheckPublic(r)
    BY <2>1 DEF CheckPublic
  <2>2. CASE CheckPrivate(r)
    BY <2>2 DEF CheckPrivate
  <2>3. CASE Prompt(r)
    BY <2>3 DEF Prompt
  <2>4. QED BY <1>2, <2>1, <2>2, <2>3 DEF Authorization
<1>3. ASSUME NEW r \in Run, Staging(r) PROVE Beside(s)'
  <2>1. CASE Generate(r)
    BY <2>1 DEF Generate
  <2>2. CASE NewPrivate(r)
    BY <2>2 DEF NewPrivate
  <2>3. CASE NewPublic(r)
    BY <2>3 DEF NewPublic
  <2>4. CASE WriteKeys(r)
    BY <2>4 DEF WriteKeys
  <2>5. CASE ReadPrevious(r)
    BY <2>5, ReadEnters
  <2>6. CASE ReadPreviousFails(r)
    BY <2>6 DEF ReadPreviousFails
  <2>7. CASE NewBackup(r)
    BY <2>7 DEF NewBackup
  <2>8. CASE WriteBackup(r)
    BY <2>8 DEF WriteBackup
  <2>9. QED BY <1>3, <2>1, <2>2, <2>3, <2>4, <2>5, <2>6, <2>7, <2>8 DEF Staging
<1>4. ASSUME NEW r \in Run, Publication(r) PROVE Beside(s)'
  <2>1. CASE CommitPublic(r)
    BY <2>1, SentinelsAssumption DEF CommitPublic
  <2>2. CASE CommitPublicFails(r)
    BY <2>2 DEF CommitPublicFails
  <2>3. CASE CommitPrivate(r)
    BY <2>3, SentinelsAssumption DEF CommitPrivate
  <2>4. CASE CommitPrivateFails(r)
    BY <2>4 DEF CommitPrivateFails
  <2>5. CASE Rollback(r)
    <3>1. CASE s # r
      BY <2>5, <3>1 DEF Rollback
    <3>2. CASE s = r /\ "backup" \in held[r]
      BY <2>5, <3>2 DEF Rollback
    <3>3. CASE s = r /\ "backup" \notin held[r]
      BY <2>5, <3>3 DEF Rollback
    <3>4. QED BY <3>1, <3>2, <3>3
  <2>6. CASE RollbackFails(r)
    BY <2>6 DEF RollbackFails
  <2>7. CASE Unwind(r)
    BY <2>7 DEF Unwind
  <2>8. CASE Return(r)
    BY <2>8 DEF Return
  <2>9. QED BY <1>4, <2>1, <2>2, <2>3, <2>4, <2>5, <2>6, <2>7, <2>8 DEF Publication
<1>5. ASSUME NEW r \in Run, Kill(r) PROVE Beside(s)'
  BY <1>5 DEF Kill
<1>6. CASE UNCHANGED vars
  BY <1>6 DEF vars
<1>7. QED BY <1>1, <1>2, <1>3, <1>4, <1>5, <1>6 DEF Next, Step, Finished

\* A run without --force found no file that it got past.
LEMMA StartsEmptyStep ==
    ASSUME ~Concurrent
    PROVE  TypeOK /\ OneAtATime /\ FilesFollow /\ UnforcedStartsEmpty /\ [Next]_vars
             => UnforcedStartsEmpty'
<1> SUFFICES ASSUME TypeOK, OneAtATime, FilesFollow, UnforcedStartsEmpty, [Next]_vars
             PROVE  UnforcedStartsEmpty'
  OBVIOUS
<1> USE DEF TypeOK, OneAtATime, FilesFollow, Beside, UnforcedStartsEmpty, Authorized,
        Running, InPublication, Checking, Publishing, Terminal, keys, history, memory,
        temporaries, Goto, Fail, Proceed, Authorize, NewOutput, DropValue, Committed
<1>1. ASSUME NEW r \in Run, Start(r) PROVE UnforcedStartsEmpty'
  BY <1>1 DEF Start
<1>2. ASSUME NEW r \in Run, Authorization(r) PROVE UnforcedStartsEmpty'
  <2>1. CASE CheckPublic(r)
    BY <2>1 DEF CheckPublic
  <2>2. CASE CheckPrivate(r)
    BY <2>2 DEF CheckPrivate
  <2>3. CASE Prompt(r)
    BY <2>3 DEF Prompt
  <2>4. QED BY <1>2, <2>1, <2>2, <2>3 DEF Authorization
<1>3. ASSUME NEW r \in Run, Staging(r) PROVE UnforcedStartsEmpty'
  <2>1. CASE Generate(r)
    BY <2>1 DEF Generate
  <2>2. CASE NewPrivate(r)
    BY <2>2 DEF NewPrivate
  <2>3. CASE NewPublic(r)
    BY <2>3 DEF NewPublic
  <2>4. CASE WriteKeys(r)
    BY <2>4 DEF WriteKeys
  <2>5. CASE ReadPrevious(r)
    BY <2>5, ReadEnters
  <2>6. CASE ReadPreviousFails(r)
    BY <2>6 DEF ReadPreviousFails
  <2>7. CASE NewBackup(r)
    BY <2>7 DEF NewBackup
  <2>8. CASE WriteBackup(r)
    BY <2>8 DEF WriteBackup
  <2>9. QED BY <1>3, <2>1, <2>2, <2>3, <2>4, <2>5, <2>6, <2>7, <2>8 DEF Staging
<1>4. ASSUME NEW r \in Run, Publication(r) PROVE UnforcedStartsEmpty'
  <2>1. CASE CommitPublic(r)
    BY <2>1, SentinelsAssumption DEF CommitPublic
  <2>2. CASE CommitPublicFails(r)
    BY <2>2 DEF CommitPublicFails
  <2>3. CASE CommitPrivate(r)
    BY <2>3, SentinelsAssumption DEF CommitPrivate
  <2>4. CASE CommitPrivateFails(r)
    BY <2>4 DEF CommitPrivateFails
  <2>5. CASE Rollback(r)
    BY <2>5, SentinelsAssumption DEF Rollback
  <2>6. CASE RollbackFails(r)
    BY <2>6 DEF RollbackFails
  <2>7. CASE Unwind(r)
    BY <2>7 DEF Unwind
  <2>8. CASE Return(r)
    BY <2>8 DEF Return
  <2>9. QED BY <1>4, <2>1, <2>2, <2>3, <2>4, <2>5, <2>6, <2>7, <2>8 DEF Publication
<1>5. ASSUME NEW r \in Run, Kill(r) PROVE UnforcedStartsEmpty'
  BY <1>5 DEF Kill
<1>6. CASE UNCHANGED vars
  BY <1>6 DEF vars
<1>7. QED BY <1>1, <1>2, <1>3, <1>4, <1>5, <1>6 DEF Next, Step, Finished

\* What a run found stays recoverable while it runs: the run that left it has ended.
LEMMA FoundStep ==
    ASSUME ~Concurrent
    PROVE  TypeOK /\ OneAtATime /\ FreshKey /\ BothPairsRecoverable /\ FoundRecoverable /\
           [Next]_vars
             => FoundRecoverable'
<1> SUFFICES ASSUME TypeOK, OneAtATime, FreshKey, BothPairsRecoverable, FoundRecoverable,
                   [Next]_vars, NEW p \in Run, NEW s \in Run
             PROVE  FoundPair(p, s)'
  BY DEF FoundRecoverable
<1> USE DEF TypeOK, OneAtATime, FreshKey, BothPairsRecoverable, FoundRecoverable,
        FoundPair, Recoverable, Running, Checking, Publishing, Terminal, keys, history,
        memory, temporaries, Goto, Fail, Proceed, Authorize, NewOutput, DropValue,
        Committed
<1>1. ASSUME NEW r \in Run, Start(r) PROVE FoundPair(p, s)'
  BY <1>1 DEF Start
<1>2. ASSUME NEW r \in Run, Authorization(r) PROVE FoundPair(p, s)'
  <2>1. CASE CheckPublic(r)
    BY <2>1 DEF CheckPublic
  <2>2. CASE CheckPrivate(r)
    BY <2>2 DEF CheckPrivate
  <2>3. CASE Prompt(r)
    BY <2>3 DEF Prompt
  <2>4. QED BY <1>2, <2>1, <2>2, <2>3 DEF Authorization
<1>3. ASSUME NEW r \in Run, Staging(r) PROVE FoundPair(p, s)'
  <2>1. CASE Generate(r)
    BY <2>1 DEF Generate
  <2>2. CASE NewPrivate(r)
    BY <2>2 DEF NewPrivate
  <2>3. CASE NewPublic(r)
    BY <2>3 DEF NewPublic
  <2>4. CASE WriteKeys(r)
    BY <2>4 DEF WriteKeys
  <2>5. CASE ReadPrevious(r)
    BY <2>5, ReadEnters
  <2>6. CASE ReadPreviousFails(r)
    BY <2>6 DEF ReadPreviousFails
  <2>7. CASE NewBackup(r)
    BY <2>7 DEF NewBackup
  <2>8. CASE WriteBackup(r)
    BY <2>8 DEF WriteBackup
  <2>9. QED BY <1>3, <2>1, <2>2, <2>3, <2>4, <2>5, <2>6, <2>7, <2>8 DEF Staging
<1>4. ASSUME NEW r \in Run, Publication(r) PROVE FoundPair(p, s)'
  <2>1. CASE CommitPublic(r)
    BY <2>1, SentinelsAssumption DEF CommitPublic
  <2>2. CASE CommitPublicFails(r)
    BY <2>2 DEF CommitPublicFails
  <2>3. CASE CommitPrivate(r)
    BY <2>3, SentinelsAssumption DEF CommitPrivate
  <2>4. CASE CommitPrivateFails(r)
    BY <2>4 DEF CommitPrivateFails
  <2>5. CASE Rollback(r)
    BY <2>5, SentinelsAssumption DEF Rollback
  <2>6. CASE RollbackFails(r)
    BY <2>6 DEF RollbackFails
  <2>7. CASE Unwind(r)
    BY <2>7 DEF Unwind
  <2>8. CASE Return(r)
    BY <2>8 DEF Return
  <2>9. QED BY <1>4, <2>1, <2>2, <2>3, <2>4, <2>5, <2>6, <2>7, <2>8 DEF Publication
<1>5. ASSUME NEW r \in Run, Kill(r) PROVE FoundPair(p, s)'
  BY <1>5 DEF Kill
<1>6. CASE UNCHANGED vars
  BY <1>6 DEF vars
<1>7. QED BY <1>1, <1>2, <1>3, <1>4, <1>5, <1>6 DEF Next, Step, Finished

\* Nothing is lost by a kill, and nothing but a failed publication loses a key.
LEMMA RecoverableStep ==
    ASSUME ~Concurrent
    PROVE  TypeOK /\ HeldAsDeclared /\ ResultDecided /\ OneAtATime /\ FreshKey /\
           FilesFollow /\ FoundRecoverable /\ BothPairsRecoverable /\ [Next]_vars
             => BothPairsRecoverable'
<1> SUFFICES ASSUME TypeOK, HeldAsDeclared, ResultDecided, OneAtATime, FreshKey,
                   FilesFollow, FoundRecoverable, BothPairsRecoverable, [Next]_vars
             PROVE  BothPairsRecoverable'
  OBVIOUS
<1> USE DEF TypeOK, HeldAsDeclared, HeldAt, ResultDecided, OneAtATime, FreshKey,
        FilesFollow, Beside, BothPairsRecoverable, FoundRecoverable, FoundPair,
        Recoverable, Running, InPublication, Checking, Publishing, Terminal, keys,
        history, memory, temporaries, Goto, Fail, Proceed, Authorize, NewOutput,
        DropValue, Committed
<1>1. ASSUME NEW r \in Run, Start(r) PROVE BothPairsRecoverable'
  BY <1>1 DEF Start
<1>2. ASSUME NEW r \in Run, Authorization(r) PROVE BothPairsRecoverable'
  <2>1. CASE CheckPublic(r)
    BY <2>1 DEF CheckPublic
  <2>2. CASE CheckPrivate(r)
    BY <2>2 DEF CheckPrivate
  <2>3. CASE Prompt(r)
    BY <2>3 DEF Prompt
  <2>4. QED BY <1>2, <2>1, <2>2, <2>3 DEF Authorization
<1>3. ASSUME NEW r \in Run, Staging(r) PROVE BothPairsRecoverable'
  <2>1. CASE Generate(r)
    BY <2>1 DEF Generate
  <2>2. CASE NewPrivate(r)
    BY <2>2 DEF NewPrivate
  <2>3. CASE NewPublic(r)
    BY <2>3 DEF NewPublic
  <2>4. CASE WriteKeys(r)
    BY <2>4 DEF WriteKeys
  <2>5. CASE ReadPrevious(r)
    BY <2>5, ReadEnters
  <2>6. CASE ReadPreviousFails(r)
    BY <2>6 DEF ReadPreviousFails
  <2>7. CASE NewBackup(r)
    BY <2>7 DEF NewBackup
  <2>8. CASE WriteBackup(r)
    BY <2>8 DEF WriteBackup
  <2>9. QED BY <1>3, <2>1, <2>2, <2>3, <2>4, <2>5, <2>6, <2>7, <2>8 DEF Staging
<1>4. ASSUME NEW r \in Run, Publication(r) PROVE BothPairsRecoverable'
  <2>1. CASE CommitPublic(r)
    BY <2>1, SentinelsAssumption DEF CommitPublic
  <2>2. CASE CommitPublicFails(r)
    BY <2>2 DEF CommitPublicFails
  <2>3. CASE CommitPrivate(r)
    BY <2>3, SentinelsAssumption DEF CommitPrivate
  <2>4. CASE CommitPrivateFails(r)
    BY <2>4 DEF CommitPrivateFails
  <2>5. CASE Rollback(r)
    BY <2>5, SentinelsAssumption DEF Rollback
  <2>6. CASE RollbackFails(r)
    BY <2>6 DEF RollbackFails
  <2>7. CASE Unwind(r)
    BY <2>7 DEF Unwind
  <2>8. CASE Return(r)
    BY <2>8 DEF Return
  <2>9. QED BY <1>4, <2>1, <2>2, <2>3, <2>4, <2>5, <2>6, <2>7, <2>8 DEF Publication
<1>5. ASSUME NEW r \in Run, Kill(r) PROVE BothPairsRecoverable'
  BY <1>5 DEF Kill
<1>6. CASE UNCHANGED vars
  BY <1>6 DEF vars
<1>7. QED BY <1>1, <1>2, <1>3, <1>4, <1>5, <1>6 DEF Next, Step, Finished

\* A run that returns Ok has renamed both its files, and nobody else ran since.
LEMMA SuccessStep ==
    ASSUME ~Concurrent
    PROVE  TypeOK /\ ResultDecided /\ OneAtATime /\ FreshKey /\ FilesFollow /\ [Next]_vars
             => \A s \in Run : Succeeds(s)
<1> SUFFICES ASSUME TypeOK, ResultDecided, OneAtATime, FreshKey, FilesFollow, [Next]_vars,
                   NEW s \in Run
             PROVE  Succeeds(s)
  OBVIOUS
<1> USE DEF TypeOK, ResultDecided, OneAtATime, FreshKey, FilesFollow, Beside, Running,
        InPublication, Succeeds, Checking, Publishing, Terminal, keys, history, memory,
        temporaries, Goto, Fail, Proceed, Authorize, NewOutput, DropValue, Committed
<1>1. ASSUME NEW r \in Run, Start(r) PROVE Succeeds(s)
  BY <1>1 DEF Start
<1>2. ASSUME NEW r \in Run, Authorization(r) PROVE Succeeds(s)
  <2>1. CASE CheckPublic(r)
    BY <2>1 DEF CheckPublic
  <2>2. CASE CheckPrivate(r)
    BY <2>2 DEF CheckPrivate
  <2>3. CASE Prompt(r)
    BY <2>3 DEF Prompt
  <2>4. QED BY <1>2, <2>1, <2>2, <2>3 DEF Authorization
<1>3. ASSUME NEW r \in Run, Staging(r) PROVE Succeeds(s)
  <2>1. CASE Generate(r)
    BY <2>1 DEF Generate
  <2>2. CASE NewPrivate(r)
    BY <2>2 DEF NewPrivate
  <2>3. CASE NewPublic(r)
    BY <2>3 DEF NewPublic
  <2>4. CASE WriteKeys(r)
    BY <2>4 DEF WriteKeys
  <2>5. CASE ReadPrevious(r)
    BY <2>5, ReadEnters
  <2>6. CASE ReadPreviousFails(r)
    BY <2>6 DEF ReadPreviousFails
  <2>7. CASE NewBackup(r)
    BY <2>7 DEF NewBackup
  <2>8. CASE WriteBackup(r)
    BY <2>8 DEF WriteBackup
  <2>9. QED BY <1>3, <2>1, <2>2, <2>3, <2>4, <2>5, <2>6, <2>7, <2>8 DEF Staging
<1>4. ASSUME NEW r \in Run, Publication(r) PROVE Succeeds(s)
  <2>1. CASE CommitPublic(r)
    BY <2>1 DEF CommitPublic
  <2>2. CASE CommitPublicFails(r)
    BY <2>2 DEF CommitPublicFails
  <2>3. CASE CommitPrivate(r)
    BY <2>3 DEF CommitPrivate
  <2>4. CASE CommitPrivateFails(r)
    BY <2>4 DEF CommitPrivateFails
  <2>5. CASE Rollback(r)
    BY <2>5 DEF Rollback
  <2>6. CASE RollbackFails(r)
    BY <2>6 DEF RollbackFails
  <2>7. CASE Unwind(r)
    BY <2>7 DEF Unwind
  <2>8. CASE Return(r)
    BY <2>8 DEF Return
  <2>9. QED BY <1>4, <2>1, <2>2, <2>3, <2>4, <2>5, <2>6, <2>7, <2>8 DEF Publication
<1>5. ASSUME NEW r \in Run, Kill(r) PROVE Succeeds(s)
  BY <1>5 DEF Kill
<1>6. CASE UNCHANGED vars
  BY <1>6 DEF vars
<1>7. QED BY <1>1, <1>2, <1>3, <1>4, <1>5, <1>6 DEF Next, Step, Finished

\* A run that returns an error found the files as they are.
LEMMA FailureStep ==
    ASSUME ~Concurrent
    PROVE  TypeOK /\ ResultDecided /\ OneAtATime /\ FreshKey /\ FilesFollow /\ [Next]_vars
             => \A s \in Run : Restores(s)
<1> SUFFICES ASSUME TypeOK, ResultDecided, OneAtATime, FreshKey, FilesFollow, [Next]_vars,
                   NEW s \in Run
             PROVE  Restores(s)
  OBVIOUS
<1> USE DEF TypeOK, ResultDecided, OneAtATime, FreshKey, FilesFollow, Beside, Running,
        InPublication, Restores, Checking, Publishing, Terminal, keys, history, memory,
        temporaries, Goto, Fail, Proceed, Authorize, NewOutput, DropValue, Committed
<1>1. ASSUME NEW r \in Run, Start(r) PROVE Restores(s)
  BY <1>1 DEF Start
<1>2. ASSUME NEW r \in Run, Authorization(r) PROVE Restores(s)
  <2>1. CASE CheckPublic(r)
    BY <2>1 DEF CheckPublic
  <2>2. CASE CheckPrivate(r)
    BY <2>2 DEF CheckPrivate
  <2>3. CASE Prompt(r)
    BY <2>3 DEF Prompt
  <2>4. QED BY <1>2, <2>1, <2>2, <2>3 DEF Authorization
<1>3. ASSUME NEW r \in Run, Staging(r) PROVE Restores(s)
  <2>1. CASE Generate(r)
    BY <2>1 DEF Generate
  <2>2. CASE NewPrivate(r)
    BY <2>2 DEF NewPrivate
  <2>3. CASE NewPublic(r)
    BY <2>3 DEF NewPublic
  <2>4. CASE WriteKeys(r)
    BY <2>4 DEF WriteKeys
  <2>5. CASE ReadPrevious(r)
    BY <2>5, ReadEnters
  <2>6. CASE ReadPreviousFails(r)
    BY <2>6 DEF ReadPreviousFails
  <2>7. CASE NewBackup(r)
    BY <2>7 DEF NewBackup
  <2>8. CASE WriteBackup(r)
    BY <2>8 DEF WriteBackup
  <2>9. QED BY <1>3, <2>1, <2>2, <2>3, <2>4, <2>5, <2>6, <2>7, <2>8 DEF Staging
<1>4. ASSUME NEW r \in Run, Publication(r) PROVE Restores(s)
  <2>1. CASE CommitPublic(r)
    BY <2>1 DEF CommitPublic
  <2>2. CASE CommitPublicFails(r)
    BY <2>2 DEF CommitPublicFails
  <2>3. CASE CommitPrivate(r)
    BY <2>3 DEF CommitPrivate
  <2>4. CASE CommitPrivateFails(r)
    BY <2>4 DEF CommitPrivateFails
  <2>5. CASE Rollback(r)
    BY <2>5 DEF Rollback
  <2>6. CASE RollbackFails(r)
    BY <2>6 DEF RollbackFails
  <2>7. CASE Unwind(r)
    BY <2>7 DEF Unwind
  <2>8. CASE Return(r)
    BY <2>8 DEF Return
  <2>9. QED BY <1>4, <2>1, <2>2, <2>3, <2>4, <2>5, <2>6, <2>7, <2>8 DEF Publication
<1>5. ASSUME NEW r \in Run, Kill(r) PROVE Restores(s)
  BY <1>5 DEF Kill
<1>6. CASE UNCHANGED vars
  BY <1>6 DEF vars
<1>7. QED BY <1>1, <1>2, <1>3, <1>4, <1>5, <1>6 DEF Next, Step, Finished

\* KeypairRollback is returned only where a public key stays without its private key.
LEMMA ReportStep ==
    ASSUME ~Concurrent
    PROVE  TypeOK /\ ResultDecided /\ OneAtATime /\ FreshKey /\ FilesFollow /\ [Next]_vars
             => \A s \in Run : ReportsRollback(s)
<1> SUFFICES ASSUME TypeOK, ResultDecided, OneAtATime, FreshKey, FilesFollow, [Next]_vars,
                   NEW s \in Run
             PROVE  ReportsRollback(s)
  OBVIOUS
<1> USE DEF TypeOK, ResultDecided, OneAtATime, FreshKey, FilesFollow, Beside, Running,
        InPublication, ReportsRollback, Checking, Publishing, Terminal, keys, history,
        memory, temporaries, Goto, Fail, Proceed, Authorize, NewOutput, DropValue,
        Committed
<1>1. ASSUME NEW r \in Run, Start(r) PROVE ReportsRollback(s)
  BY <1>1 DEF Start
<1>2. ASSUME NEW r \in Run, Authorization(r) PROVE ReportsRollback(s)
  <2>1. CASE CheckPublic(r)
    BY <2>1 DEF CheckPublic
  <2>2. CASE CheckPrivate(r)
    BY <2>2 DEF CheckPrivate
  <2>3. CASE Prompt(r)
    BY <2>3 DEF Prompt
  <2>4. QED BY <1>2, <2>1, <2>2, <2>3 DEF Authorization
<1>3. ASSUME NEW r \in Run, Staging(r) PROVE ReportsRollback(s)
  <2>1. CASE Generate(r)
    BY <2>1 DEF Generate
  <2>2. CASE NewPrivate(r)
    BY <2>2 DEF NewPrivate
  <2>3. CASE NewPublic(r)
    BY <2>3 DEF NewPublic
  <2>4. CASE WriteKeys(r)
    BY <2>4 DEF WriteKeys
  <2>5. CASE ReadPrevious(r)
    BY <2>5, ReadEnters
  <2>6. CASE ReadPreviousFails(r)
    BY <2>6 DEF ReadPreviousFails
  <2>7. CASE NewBackup(r)
    BY <2>7 DEF NewBackup
  <2>8. CASE WriteBackup(r)
    BY <2>8 DEF WriteBackup
  <2>9. QED BY <1>3, <2>1, <2>2, <2>3, <2>4, <2>5, <2>6, <2>7, <2>8 DEF Staging
<1>4. ASSUME NEW r \in Run, Publication(r) PROVE ReportsRollback(s)
  <2>1. CASE CommitPublic(r)
    BY <2>1 DEF CommitPublic
  <2>2. CASE CommitPublicFails(r)
    BY <2>2 DEF CommitPublicFails
  <2>3. CASE CommitPrivate(r)
    BY <2>3 DEF CommitPrivate
  <2>4. CASE CommitPrivateFails(r)
    BY <2>4 DEF CommitPrivateFails
  <2>5. CASE Rollback(r)
    BY <2>5 DEF Rollback
  <2>6. CASE RollbackFails(r)
    BY <2>6 DEF RollbackFails
  <2>7. CASE Unwind(r)
    BY <2>7 DEF Unwind
  <2>8. CASE Return(r)
    BY <2>8 DEF Return
  <2>9. QED BY <1>4, <2>1, <2>2, <2>3, <2>4, <2>5, <2>6, <2>7, <2>8 DEF Publication
<1>5. ASSUME NEW r \in Run, Kill(r) PROVE ReportsRollback(s)
  BY <1>5 DEF Kill
<1>6. CASE UNCHANGED vars
  BY <1>6 DEF vars
<1>7. QED BY <1>1, <1>2, <1>3, <1>4, <1>5, <1>6 DEF Next, Step, Finished

\* A run without --force found no files.
LEMMA ReplaceStep ==
    ASSUME ~Concurrent
    PROVE  TypeOK /\ OneAtATime /\ FilesFollow /\ UnforcedStartsEmpty /\ [Next]_vars
             => \A s \in Run \ Forced : ReplacesOwn(s)
<1> SUFFICES ASSUME TypeOK, OneAtATime, FilesFollow, UnforcedStartsEmpty, [Next]_vars,
                   NEW s \in Run \ Forced
             PROVE  ReplacesOwn(s)
  OBVIOUS
<1> USE DEF TypeOK, OneAtATime, FilesFollow, Beside, UnforcedStartsEmpty, Authorized,
        ReplacesOwn, Running, InPublication, Checking, Publishing, Terminal, keys,
        history, memory, temporaries, Goto, Fail, Proceed, Authorize, NewOutput,
        DropValue, Committed
<1>1. ASSUME NEW r \in Run, Start(r) PROVE ReplacesOwn(s)
  BY <1>1 DEF Start
<1>2. ASSUME NEW r \in Run, Authorization(r) PROVE ReplacesOwn(s)
  <2>1. CASE CheckPublic(r)
    BY <2>1 DEF CheckPublic
  <2>2. CASE CheckPrivate(r)
    BY <2>2 DEF CheckPrivate
  <2>3. CASE Prompt(r)
    BY <2>3 DEF Prompt
  <2>4. QED BY <1>2, <2>1, <2>2, <2>3 DEF Authorization
<1>3. ASSUME NEW r \in Run, Staging(r) PROVE ReplacesOwn(s)
  <2>1. CASE Generate(r)
    BY <2>1 DEF Generate
  <2>2. CASE NewPrivate(r)
    BY <2>2 DEF NewPrivate
  <2>3. CASE NewPublic(r)
    BY <2>3 DEF NewPublic
  <2>4. CASE WriteKeys(r)
    BY <2>4 DEF WriteKeys
  <2>5. CASE ReadPrevious(r)
    BY <2>5, ReadEnters
  <2>6. CASE ReadPreviousFails(r)
    BY <2>6 DEF ReadPreviousFails
  <2>7. CASE NewBackup(r)
    BY <2>7 DEF NewBackup
  <2>8. CASE WriteBackup(r)
    BY <2>8 DEF WriteBackup
  <2>9. QED BY <1>3, <2>1, <2>2, <2>3, <2>4, <2>5, <2>6, <2>7, <2>8 DEF Staging
<1>4. ASSUME NEW r \in Run, Publication(r) PROVE ReplacesOwn(s)
  <2>1. CASE CommitPublic(r)
    BY <2>1, SentinelsAssumption DEF CommitPublic
  <2>2. CASE CommitPublicFails(r)
    BY <2>2 DEF CommitPublicFails
  <2>3. CASE CommitPrivate(r)
    BY <2>3, SentinelsAssumption DEF CommitPrivate
  <2>4. CASE CommitPrivateFails(r)
    BY <2>4 DEF CommitPrivateFails
  <2>5. CASE Rollback(r)
    BY <2>5, SentinelsAssumption DEF Rollback
  <2>6. CASE RollbackFails(r)
    BY <2>6 DEF RollbackFails
  <2>7. CASE Unwind(r)
    BY <2>7 DEF Unwind
  <2>8. CASE Return(r)
    BY <2>8 DEF Return
  <2>9. QED BY <1>4, <2>1, <2>2, <2>3, <2>4, <2>5, <2>6, <2>7, <2>8 DEF Publication
<1>5. ASSUME NEW r \in Run, Kill(r) PROVE ReplacesOwn(s)
  BY <1>5 DEF Kill
<1>6. CASE UNCHANGED vars
  BY <1>6 DEF vars
<1>7. QED BY <1>1, <1>2, <1>3, <1>4, <1>5, <1>6 DEF Next, Step, Finished

LEMMA InitIInv == Init => IInv
<1> SUFFICES ASSUME Init PROVE IInv
  OBVIOUS
<1> USE SentinelsAssumption, RunsAssumption DEF Init, Checking, Publishing, Terminal
<1>1. TypeOK
  BY DEF TypeOK, Key, Temporary
<1>2. HeldAsDeclared /\ ResultDecided
  BY DEF HeldAsDeclared, HeldAt, ResultDecided
<1>3. PublicNeverVanishes
  BY DEF PublicNeverVanishes, OldPublicGone, PublicStays, InPublication
<1>4. UnforcedFoundNone
  BY DEF UnforcedFoundNone, FoundNone, Authorized
<1>5. PublishesAlone
  BY DEF PublishesAlone, Settled, InPublication
<1>6. QED BY <1>1, <1>2, <1>3, <1>4, <1>5 DEF IInv

LEMMA NextIInv == IInv /\ [Next]_vars => IInv'
<1>1. IInv /\ [Next]_vars => PublicNeverVanishes'
  BY GoneStep, StaysStep DEF IInv, PublicNeverVanishes
<1>2. IInv /\ [Next]_vars => UnforcedFoundNone'
  BY GoneStep, UnforcedStep DEF IInv
<1>3. QED
  BY <1>1, <1>2, TypeStep, HeldStep, ResultStep, AloneStep DEF IInv

\* Whatever the runs, and however they overlap.
THEOREM Inductive == Spec => []IInv
<1>1. QED BY InitIInv, NextIInv, PTL DEF Spec

\* Every variable keeps its type, a run holds only what it has on disk, and holds
\* nothing once it ended (application.rs, generate_keypair: the values are dropped
\* on every path).
THEOREM TypeCorrect == Spec => []TypeOK
<1>1. IInv => TypeOK BY DEF IInv
<1>2. QED BY <1>1, Inductive, PTL

\* Runs whose publications are one after the other leave a pair of keys, or what
\* was there, or a public key whose run was killed or reported KeypairRollback,
\* however much their checks, prompts and staging overlap (application.rs,
\* generate_keypair: the backup is of the key that the commit replaces).
THEOREM OrderedPublications == Spec => []OrderedPublicationsPair
<1>1. IInv => OrderedPublicationsPair
  BY DEF IInv, PublishesAlone, Settled, OrderedPublicationsPair, keys
<1>2. QED BY <1>1, Inductive, PTL

\* A run without --force never changes a key that was there before all the runs,
\* in whatever order the others change the files that it looks at one by one
\* (cli.rs, authorize_keypair_replacement).
THEOREM UnforcedSpares == Spec => UnforcedSparesOld
<1>1. IInv /\ [Next]_vars =>
         [\A r \in Run \ Forced : pc[r] # pc'[r] =>
             /\ public = Old => public' = Old
             /\ private = Old => private' = Old]_vars
  BY UnforcedSparesStep DEF IInv, SparesOld
<1>2. QED BY <1>1, Inductive, PTL DEF Spec, UnforcedSparesOld


LEMMA InitSInv == Init => SInv
<1> SUFFICES ASSUME Init PROVE SInv
  OBVIOUS
<1> USE SentinelsAssumption, RunsAssumption DEF Init, Checking, Publishing, Terminal
<1>1. OneAtATime /\ FoundRecoverable
  BY DEF OneAtATime, FoundRecoverable, FoundPair, Running
<1>2. FreshKey
  BY DEF FreshKey, Running
<1>3. FilesFollow
  BY DEF FilesFollow, Beside, InPublication
<1>4. UnforcedStartsEmpty
  BY DEF UnforcedStartsEmpty, Authorized
<1>5. BothPairsRecoverable
  BY DEF BothPairsRecoverable
<1>6. QED BY <1>1, <1>2, <1>3, <1>4, <1>5 DEF SInv

LEMMA NextSInv == ASSUME ~Concurrent PROVE IInv /\ SInv /\ [Next]_vars => SInv'
<1> USE DEF IInv, SInv
<1>1. IInv /\ SInv /\ [Next]_vars => OneAtATime' /\ FreshKey' /\ FilesFollow'
  BY OneStep, FreshStep, FollowStep
<1>2. IInv /\ SInv /\ [Next]_vars => UnforcedStartsEmpty'
  BY StartsEmptyStep
<1>3. IInv /\ SInv /\ [Next]_vars => FoundRecoverable' /\ BothPairsRecoverable'
  BY FoundStep, RecoverableStep
<1>4. QED BY <1>1, <1>2, <1>3

\* Of runs one after the other.
THEOREM SequentialInductive == ASSUME ~Concurrent PROVE Spec => [](IInv /\ SInv)
<1>1. IInv /\ SInv /\ [Next]_vars => SInv'
  BY NextSInv
<1>2. QED BY <1>1, InitIInv, InitSInv, NextIInv, PTL DEF Spec

\* Wherever a run is killed, between the two commits, in a rollback or while it
\* unwinds, and whatever runs after it: of a public key that it left without its
\* private key, that private key is in a temporary file and so is the public key of
\* the pair that was there before, unless a publication or a rollback failed, which
\* the run reports if it lives (application.rs, generate_keypair: the previous
\* public key is staged before the first commit).
THEOREM KilledRunLosesNothing == ASSUME ~Concurrent PROVE Spec => []BothPairsRecoverable
<1>1. IInv /\ SInv => BothPairsRecoverable BY DEF SInv
<1>2. QED BY <1>1, SequentialInductive, PTL

\* Ok means that both files are the run's own (application.rs, the two commits).
THEOREM SuccessIsAPair == ASSUME ~Concurrent PROVE Spec => SuccessPublishesPair
<1>1. IInv /\ SInv /\ [Next]_vars =>
         [\A r \in Run : pc[r] # "ok" /\ pc'[r] = "ok" => public' = r /\ private' = r]_vars
  BY SuccessStep DEF IInv, SInv, Succeeds
<1>2. QED BY <1>1, SequentialInductive, PTL DEF Spec, SuccessPublishesPair

\* An error other than KeypairRollback means that both files are what the run found,
\* wherever it failed (README, "attempts to restore the previous public key").
THEOREM FailureRestores == ASSUME ~Concurrent PROVE Spec => FailureRestoresPair
<1>1. IInv /\ SInv /\ [Next]_vars =>
         [\A r \in Run : pc[r] # "err" /\ pc'[r] = "err" => keys' = before[r]]_vars
  BY FailureStep DEF IInv, SInv, Restores
<1>2. QED BY <1>1, SequentialInductive, PTL DEF Spec, FailureRestoresPair

\* KeypairRollback is the error of exactly the failed runs that leave their public key
\* without its private key (error.rs, KeypairRollback).
THEOREM RollbackErrorAccurate == ASSUME ~Concurrent PROVE Spec => RollbackErrorIsAccurate
<1>1. IInv /\ SInv /\ [Next]_vars =>
         [\A r \in Run : Running(r) /\ pc'[r] \in {"ok", "err", "rollbackErr"} =>
             (pc'[r] = "rollbackErr" <=> public' = r /\ private' # r)]_vars
  BY ReportStep DEF IInv, SInv, ReportsRollback
<1>2. QED BY <1>1, SequentialInductive, PTL DEF Spec, RollbackErrorIsAccurate

\* Without --force a run replaces no key file but one that it made itself (README,
\* "Existing keys require --force to replace").
THEOREM ReplacingNeedsForce == ASSUME ~Concurrent PROVE Spec => ReplacesOnlyWithForce
<1>1. IInv /\ SInv /\ [Next]_vars =>
         [\A r \in Run \ Forced : pc[r] # pc'[r] =>
             /\ public \notin {None, r} => public' = public
             /\ private \notin {None, r} => private' = private]_vars
  BY ReplaceStep DEF IInv, SInv, ReplacesOwn
<1>2. QED BY <1>1, SequentialInductive, PTL DEF Spec, ReplacesOnlyWithForce
=============================================================================
