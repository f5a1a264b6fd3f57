--------------------- MODULE TransactionalOutput_proofs ---------------------
(***************************************************************************)
(* TransactionalOutput: proofs, for any number of processes, outputs,      *)
(* destinations, attempts, written units and power losses.                 *)
(***************************************************************************)
EXTENDS TransactionalOutput, TLAPS

-----------------------------------------------------------------------------
(* The inductive invariant.                                                *)

\* What a name refers to now is among what it may refer to after a power loss.
MayHoldCurrent == \A n \in Name : dir[n] \in mayHold[n]

\* The file reopened for the copy to stdout is the output's own.
CopiesOwn ==
    \A o \in Output : pc[o] \in {"copy", "flushStdout", "unlink"} => source[o] = o

\* Flush leaves nothing in the writer, and from sync_all on the file is whole, and its kind of destination decided.
WholeAfterSync ==
    \A o \in Output :
        /\ pc[o] = "sync" => cached[o] = accepted[o]
        /\ pc[o] \in {"rename", "reopen", "copy", "flushStdout", "unlink"} => Whole(o)
        /\ pc[o] = "rename" => ~IsStdio(o)
        /\ pc[o] \in {"reopen", "copy", "flushStdout", "unlink"} => IsStdio(o)

\* An output that has sent something no longer writes to its file.
SendsLate ==
    \A o \in Output :
        emitted[o] > 0 => pc[o] \notin {"idle", "fetch", "open", "writing", "sync", "reopen"}

\* Only when stdout has all of it does commit remove the temporary file and return Ok.
SentBeforeUnlink ==
    \A o \in Output :
        pc[o] \in {"unlink", "committed", "ok"} => (IsStdio(o) => emitted[o] = accepted[o])

\* As long as no power loss brings back a name, the file of an output is at no
\* temporary name but its path, and at none before it is created or after commit.
CreatedOnce ==
    powerLosses = 0 =>
        \A n \in TempName, o \in Output :
            dir[n] = o => n = path[o] /\ pc[o] \in Holding \cup {"err", "killed"}

\* What was reopened for stdout is the output's own file, whole, whatever came after.
SourceIsOwn ==
    \A o \in Output :
        source[o] # Missing =>
            /\ source[o] = o
            /\ Whole(o)
            /\ IsStdio(o)
            /\ pc[o] \notin {"idle", "fetch", "open", "writing", "sync", "rename", "reopen"}

\* stdout has no more of an output than was written to it.
WithinSource == \A o \in Output : emitted[o] <= accepted[o]

\* The destination of an output whose commit got past the rename has a result.
Delivered ==
    \A o \in Output :
        powerLosses = 0 /\ pc[o] \in {"committed", "ok"} /\ ~IsStdio(o)
          => dir[DestinationOf[o]] \in Output

IInv ==
    /\ TypeOK
    /\ OwnsTemporary
    /\ MayHoldCurrent
    /\ CopiesOwn
    /\ WholeAfterSync
    /\ OnlyCommittedReachDestination
    /\ DestinationWhole
    /\ SendsLate
    /\ StdoutOnlyWholeResults
    /\ SentBeforeUnlink
    /\ Delivered
    /\ CreatedOnce
    /\ SourceIsOwn
    /\ WithinSource

-----------------------------------------------------------------------------
\* Rewrite adds the new file of every name to what that name may hold.
LEMMA RewriteAdds ==
    ASSUME NEW entry, Rewrite(entry)
    PROVE  \A n \in Name : mayHold'[n] = mayHold[n] \cup {dir'[n]}
  BY DEF Rewrite

\* Creating or removing a temporary does not concern any destination.
LEMMA TemporaryOnly ==
    ASSUME TypeOK, MayHoldCurrent, NEW o \in Output,
           OpenTemporary(o) \/ Unlink(o) \/ DropRemoves(o)
    PROVE  \A d \in Destination : mayHold'[d] = mayHold[d]
<1>1. path[o] \in TempName
  BY DEF TypeOK, OpenTemporary, Unlink, DropRemoves, Holding
<1>2. \A d \in Destination : dir'[d] = dir[d]
  BY <1>1, NamesAssumption DEF TypeOK, Name, OpenTemporary, Unlink, DropRemoves, Rewrite
<1>3. \A d \in Destination : mayHold'[d] = mayHold[d] \cup {dir'[d]}
  BY RewriteAdds DEF Name, OpenTemporary, Unlink, DropRemoves
<1>4. ASSUME NEW d \in Destination PROVE mayHold'[d] = mayHold[d]
  <2>1. dir[d] \in mayHold[d]
    BY DEF MayHoldCurrent, Name
  <2>2. mayHold'[d] = mayHold[d] \cup {dir[d]}
    BY <1>2, <1>3
  <2>3. QED BY <2>1, <2>2
<1>5. QED BY <1>4

\* The rename adds the output to what its destination may hold, and to no other.
LEMMA RenameAdds ==
    ASSUME TypeOK, OwnsTemporary, MayHoldCurrent, WholeAfterSync,
           NEW o \in Output, Rename(o)
    PROVE  \A d \in Destination, q \in Output :
              q \in mayHold'[d] => q \in mayHold[d] \/ (q = o /\ d = DestinationOf[o])
<1>1. path[o] \in TempName /\ dir[path[o]] = o
  BY DEF TypeOK, OwnsTemporary, Rename, Holding
<1>2. DestinationOf[o] \in Destination
  BY ConstantsAssumption DEF Rename, WholeAfterSync, IsStdio
<1>3. \A d \in Destination : dir'[d] = IF d = DestinationOf[o] THEN o ELSE dir[d]
  BY <1>1, <1>2, NamesAssumption DEF TypeOK, Name, Rename, Rewrite
<1>4. \A d \in Destination : mayHold'[d] = mayHold[d] \cup {dir'[d]}
  BY RewriteAdds DEF Name, Rename
<1>5. \A d \in Destination : dir[d] \in mayHold[d]
  BY DEF MayHoldCurrent, Name
<1>6. ASSUME NEW d \in Destination, NEW q \in Output, q \in mayHold'[d]
      PROVE  q \in mayHold[d] \/ (q = o /\ d = DestinationOf[o])
  <2>1. q \in mayHold[d] \/ q = dir'[d]
    BY <1>4, <1>6
  <2>2. CASE q = dir'[d]
    BY <1>3, <1>5, <2>2
  <2>3. QED BY <2>1, <2>2
<1>7. QED BY <1>6

\* What is durable survives, and of a whole file that is all of it.
LEMMA PowerLossKeepsWhole ==
    ASSUME TypeOK, PowerLoss PROVE \A o \in Output : Whole(o) => Whole(o)'
<1>1. PICK kept \in [Output -> 0 .. MaxUnits] :
          /\ \A o \in Output : durable[o] <= kept[o] /\ kept[o] <= cached[o]
          /\ durable' = kept
          /\ cached' = kept
  BY DEF PowerLoss
<1>2. accepted' = accepted
  BY DEF PowerLoss
<1>3. ASSUME NEW o \in Output, Whole(o) PROVE Whole(o)'
  <2>1. kept[o] \in Nat /\ durable[o] \in Nat /\ cached[o] \in Nat
    BY <1>1, ConstantsAssumption DEF TypeOK
  <2>2. kept[o] = accepted[o]
    BY <1>1, <1>3, <2>1 DEF Whole
  <2>3. QED BY <1>1, <1>2, <2>2 DEF Whole
<1>4. QED BY <1>3

\* Every variable keeps its type. That a copy stays within its source needs the
\* output to read its own file.
LEMMA TypeStep == TypeOK /\ OwnsTemporary /\ CopiesOwn /\ [Next]_vars => TypeOK'
<1> SUFFICES ASSUME TypeOK, OwnsTemporary, CopiesOwn, [Next]_vars PROVE TypeOK'
  OBVIOUS
<1> USE ConstantsAssumption DEF TypeOK, CopiesOwn, Goto, control, data, stdout, disk
<1>1. ASSUME NEW o \in Output, New(o) PROVE TypeOK'
  <2>1. CASE Start(o)
    BY <2>1 DEF Start, Location, Holding, Terminal
  <2>2. CASE FetchSequence(o)
    BY <2>2 DEF FetchSequence, TempName, Location, Holding, Terminal
  <2>3. CASE OpenTemporary(o)
    BY <2>3 DEF OpenTemporary, Rewrite, Name, Content, Location, Holding, Terminal
  <2>4. CASE OpenCollides(o)
    BY <2>4 DEF OpenCollides, Location, Holding, Terminal
  <2>5. CASE OpenFails(o)
    BY <2>5 DEF OpenFails, Location, Holding, Terminal
  <2>6. QED BY <1>1, <2>1, <2>2, <2>3, <2>4, <2>5 DEF New
<1>2. ASSUME NEW o \in Output, Use(o) PROVE TypeOK'
  <2>1. CASE Write(o)
    BY <2>1 DEF Write, Spill, Location, Holding, Terminal
  <2>2. CASE Abandon(o)
    BY <2>2 DEF Abandon, Spill, Location, Holding, Terminal
  <2>3. QED BY <1>2, <2>1, <2>2 DEF Use
<1>3. ASSUME NEW o \in Output, Commit(o) PROVE TypeOK'
  <2>1. CASE Flush(o)
    BY <2>1 DEF Flush, Location, Holding, Terminal
  <2>2. CASE FlushFails(o)
    BY <2>2 DEF FlushFails, Spill, Location, Holding, Terminal
  <2>3. CASE Sync(o)
    BY <2>3 DEF Sync, Location, Holding, Terminal
  <2>4. CASE SyncFails(o)
    BY <2>4 DEF SyncFails, Location, Holding, Terminal
  <2>5. CASE Rename(o)
    BY <2>5 DEF Rename, Rewrite, Name, Content, Location, Holding, Terminal
  <2>6. CASE RenameFails(o)
    BY <2>6 DEF RenameFails, Location, Holding, Terminal
  <2>7. CASE Reopen(o)
    BY <2>7 DEF Reopen, Name, Location, Holding, Terminal
  <2>8. CASE ReopenFails(o)
    BY <2>8 DEF ReopenFails, Location, Holding, Terminal
  <2>9. CASE CopyPart(o)
    BY <2>9 DEF CopyPart, Location, Holding, Terminal
  <2>10. CASE CopyEnds(o)
    BY <2>10 DEF CopyEnds, Location, Holding, Terminal
  <2>11. CASE FlushStdout(o)
    BY <2>11 DEF FlushStdout, Location, Holding, Terminal
  <2>12. CASE StdoutFails(o)
    BY <2>12 DEF StdoutFails, Location, Holding, Terminal
  <2>13. CASE Unlink(o)
    BY <2>13 DEF Unlink, Rewrite, Name, Content, Location, Holding, Terminal
  <2>14. CASE UnlinkFails(o)
    BY <2>14 DEF UnlinkFails, Location, Holding, Terminal
  <2>15. CASE Return(o)
    BY <2>15 DEF Return, Location, Holding, Terminal
  <2>16. QED BY <1>3, <2>1, <2>2, <2>3, <2>4, <2>5, <2>6, <2>7, <2>8, <2>9, <2>10, <2>11, <2>12, <2>13, <2>14, <2>15 DEF Commit
<1>4. ASSUME NEW o \in Output, Drop(o) PROVE TypeOK'
  <2>1. CASE DropRemoves(o)
    BY <2>1 DEF DropRemoves, Rewrite, Name, Content, Location, Holding, Terminal
  <2>2. CASE DropLeaves(o)
    BY <2>2 DEF DropLeaves, Location, Holding, Terminal
  <2>3. QED BY <1>4, <2>1, <2>2 DEF Drop
<1>5. ASSUME NEW p \in Process, Kill(p) PROVE TypeOK'
  BY <1>5 DEF Kill, Location, Holding, Terminal
<1>6. CASE PowerLoss
  BY <1>6 DEF PowerLoss, Location, Holding, Terminal
<1>7. CASE UNCHANGED vars
  BY <1>7 DEF vars
<1>8. QED
  BY <1>1, <1>2, <1>3, <1>4, <1>5, <1>6, <1>7 DEF Next, OutputStep, Finished

\* A temporary that is held can only be removed or renamed by its holder: every
\* other output's temporary name refers to that other output's file.
LEMMA OwnsStep == TypeOK /\ OwnsTemporary /\ WholeAfterSync /\ [Next]_vars => OwnsTemporary'
<1> SUFFICES ASSUME TypeOK, OwnsTemporary, WholeAfterSync, [Next]_vars PROVE OwnsTemporary'
  OBVIOUS
<1> USE ConstantsAssumption, SentinelsAssumption, NamesAssumption DEF TypeOK, OwnsTemporary, WholeAfterSync, IsStdio, Holding, Goto, control, data, stdout, disk
<1>1. ASSUME NEW o \in Output, New(o) PROVE OwnsTemporary'
  <2>1. CASE Start(o)
    BY <2>1 DEF Start
  <2>2. CASE FetchSequence(o)
    BY <2>2 DEF FetchSequence
  <2>3. CASE OpenTemporary(o)
    BY <2>3 DEF OpenTemporary, Rewrite, Name
  <2>4. CASE OpenCollides(o)
    BY <2>4 DEF OpenCollides
  <2>5. CASE OpenFails(o)
    BY <2>5 DEF OpenFails
  <2>6. QED BY <1>1, <2>1, <2>2, <2>3, <2>4, <2>5 DEF New
<1>2. ASSUME NEW o \in Output, Use(o) PROVE OwnsTemporary'
  <2>1. CASE Write(o)
    BY <2>1 DEF Write, Spill
  <2>2. CASE Abandon(o)
    BY <2>2 DEF Abandon, Spill
  <2>3. QED BY <1>2, <2>1, <2>2 DEF Use
<1>3. ASSUME NEW o \in Output, Commit(o) PROVE OwnsTemporary'
  <2>1. CASE Flush(o)
    BY <2>1 DEF Flush
  <2>2. CASE FlushFails(o)
    BY <2>2 DEF FlushFails, Spill
  <2>3. CASE Sync(o)
    BY <2>3 DEF Sync
  <2>4. CASE SyncFails(o)
    BY <2>4 DEF SyncFails
  <2>5. CASE Rename(o)
    BY <2>5 DEF Rename, Rewrite, Name
  <2>6. CASE RenameFails(o)
    BY <2>6 DEF RenameFails
  <2>7. CASE Reopen(o)
    BY <2>7 DEF Reopen
  <2>8. CASE ReopenFails(o)
    BY <2>8 DEF ReopenFails
  <2>9. CASE CopyPart(o)
    BY <2>9 DEF CopyPart
  <2>10. CASE CopyEnds(o)
    BY <2>10 DEF CopyEnds
  <2>11. CASE FlushStdout(o)
    BY <2>11 DEF FlushStdout
  <2>12. CASE StdoutFails(o)
    BY <2>12 DEF StdoutFails
  <2>13. CASE Unlink(o)
    BY <2>13 DEF Unlink, Rewrite, Name
  <2>14. CASE UnlinkFails(o)
    BY <2>14 DEF UnlinkFails
  <2>15. CASE Return(o)
    BY <2>15 DEF Return
  <2>16. QED BY <1>3, <2>1, <2>2, <2>3, <2>4, <2>5, <2>6, <2>7, <2>8, <2>9, <2>10, <2>11, <2>12, <2>13, <2>14, <2>15 DEF Commit
<1>4. ASSUME NEW o \in Output, Drop(o) PROVE OwnsTemporary'
  <2>1. CASE DropRemoves(o)
    BY <2>1 DEF DropRemoves, Rewrite, Name
  <2>2. CASE DropLeaves(o)
    BY <2>2 DEF DropLeaves
  <2>3. QED BY <1>4, <2>1, <2>2 DEF Drop
<1>5. ASSUME NEW p \in Process, Kill(p) PROVE OwnsTemporary'
  BY <1>5 DEF Kill, Terminal
<1>6. CASE PowerLoss
  BY <1>6 DEF PowerLoss, Started, Terminal, Holding
<1>7. CASE UNCHANGED vars
  BY <1>7 DEF vars
<1>8. QED
  BY <1>1, <1>2, <1>3, <1>4, <1>5, <1>6, <1>7 DEF Next, OutputStep, Finished

\* Rewrite keeps the new file of every name among those it may hold.
LEMMA MayHoldStep == TypeOK /\ MayHoldCurrent /\ [Next]_vars => MayHoldCurrent'
<1> SUFFICES ASSUME TypeOK, MayHoldCurrent, [Next]_vars PROVE MayHoldCurrent'
  OBVIOUS
<1> USE DEF TypeOK, MayHoldCurrent, Goto, control, data, stdout, disk
<1>1. ASSUME NEW o \in Output, New(o) PROVE MayHoldCurrent'
  <2>1. CASE Start(o)
    BY <2>1 DEF Start
  <2>2. CASE FetchSequence(o)
    BY <2>2 DEF FetchSequence
  <2>3. CASE OpenTemporary(o)
    BY <2>3 DEF OpenTemporary, Rewrite, Name
  <2>4. CASE OpenCollides(o)
    BY <2>4 DEF OpenCollides
  <2>5. CASE OpenFails(o)
    BY <2>5 DEF OpenFails
  <2>6. QED BY <1>1, <2>1, <2>2, <2>3, <2>4, <2>5 DEF New
<1>2. ASSUME NEW o \in Output, Use(o) PROVE MayHoldCurrent'
  <2>1. CASE Write(o)
    BY <2>1 DEF Write, Spill
  <2>2. CASE Abandon(o)
    BY <2>2 DEF Abandon, Spill
  <2>3. QED BY <1>2, <2>1, <2>2 DEF Use
<1>3. ASSUME NEW o \in Output, Commit(o) PROVE MayHoldCurrent'
  <2>1. CASE Flush(o)
    BY <2>1 DEF Flush
  <2>2. CASE FlushFails(o)
    BY <2>2 DEF FlushFails, Spill
  <2>3. CASE Sync(o)
    BY <2>3 DEF Sync
  <2>4. CASE SyncFails(o)
    BY <2>4 DEF SyncFails
  <2>5. CASE Rename(o)
    BY <2>5 DEF Rename, Rewrite, Name
  <2>6. CASE RenameFails(o)
    BY <2>6 DEF RenameFails
  <2>7. CASE Reopen(o)
    BY <2>7 DEF Reopen
  <2>8. CASE ReopenFails(o)
    BY <2>8 DEF ReopenFails
  <2>9. CASE CopyPart(o)
    BY <2>9 DEF CopyPart
  <2>10. CASE CopyEnds(o)
    BY <2>10 DEF CopyEnds
  <2>11. CASE FlushStdout(o)
    BY <2>11 DEF FlushStdout
  <2>12. CASE StdoutFails(o)
    BY <2>12 DEF StdoutFails
  <2>13. CASE Unlink(o)
    BY <2>13 DEF Unlink, Rewrite, Name
  <2>14. CASE UnlinkFails(o)
    BY <2>14 DEF UnlinkFails
  <2>15. CASE Return(o)
    BY <2>15 DEF Return
  <2>16. QED BY <1>3, <2>1, <2>2, <2>3, <2>4, <2>5, <2>6, <2>7, <2>8, <2>9, <2>10, <2>11, <2>12, <2>13, <2>14, <2>15 DEF Commit
<1>4. ASSUME NEW o \in Output, Drop(o) PROVE MayHoldCurrent'
  <2>1. CASE DropRemoves(o)
    BY <2>1 DEF DropRemoves, Rewrite, Name
  <2>2. CASE DropLeaves(o)
    BY <2>2 DEF DropLeaves
  <2>3. QED BY <1>4, <2>1, <2>2 DEF Drop
<1>5. ASSUME NEW p \in Process, Kill(p) PROVE MayHoldCurrent'
  BY <1>5 DEF Kill
<1>6. CASE PowerLoss
  BY <1>6 DEF PowerLoss
<1>7. CASE UNCHANGED vars
  BY <1>7 DEF vars
<1>8. QED
  BY <1>1, <1>2, <1>3, <1>4, <1>5, <1>6, <1>7 DEF Next, OutputStep, Finished

\* The name is looked up again when the file is reopened, and is still held.
LEMMA CopiesOwnStep == TypeOK /\ OwnsTemporary /\ CopiesOwn /\ [Next]_vars => CopiesOwn'
<1> SUFFICES ASSUME TypeOK, OwnsTemporary, CopiesOwn, [Next]_vars PROVE CopiesOwn'
  OBVIOUS
<1> USE DEF TypeOK, OwnsTemporary, Holding, CopiesOwn, Goto, control, data, stdout, disk
<1>1. ASSUME NEW o \in Output, New(o) PROVE CopiesOwn'
  <2>1. CASE Start(o)
    BY <2>1 DEF Start
  <2>2. CASE FetchSequence(o)
    BY <2>2 DEF FetchSequence
  <2>3. CASE OpenTemporary(o)
    BY <2>3 DEF OpenTemporary, Rewrite
  <2>4. CASE OpenCollides(o)
    BY <2>4 DEF OpenCollides
  <2>5. CASE OpenFails(o)
    BY <2>5 DEF OpenFails
  <2>6. QED BY <1>1, <2>1, <2>2, <2>3, <2>4, <2>5 DEF New
<1>2. ASSUME NEW o \in Output, Use(o) PROVE CopiesOwn'
  <2>1. CASE Write(o)
    BY <2>1 DEF Write, Spill
  <2>2. CASE Abandon(o)
    BY <2>2 DEF Abandon, Spill
  <2>3. QED BY <1>2, <2>1, <2>2 DEF Use
<1>3. ASSUME NEW o \in Output, Commit(o) PROVE CopiesOwn'
  <2>1. CASE Flush(o)
    BY <2>1 DEF Flush
  <2>2. CASE FlushFails(o)
    BY <2>2 DEF FlushFails, Spill
  <2>3. CASE Sync(o)
    BY <2>3 DEF Sync
  <2>4. CASE SyncFails(o)
    BY <2>4 DEF SyncFails
  <2>5. CASE Rename(o)
    BY <2>5 DEF Rename, Rewrite
  <2>6. CASE RenameFails(o)
    BY <2>6 DEF RenameFails
  <2>7. CASE Reopen(o)
    BY <2>7 DEF Reopen
  <2>8. CASE ReopenFails(o)
    BY <2>8 DEF ReopenFails
  <2>9. CASE CopyPart(o)
    BY <2>9 DEF CopyPart
  <2>10. CASE CopyEnds(o)
    BY <2>10 DEF CopyEnds
  <2>11. CASE FlushStdout(o)
    BY <2>11 DEF FlushStdout
  <2>12. CASE StdoutFails(o)
    BY <2>12 DEF StdoutFails
  <2>13. CASE Unlink(o)
    BY <2>13 DEF Unlink, Rewrite
  <2>14. CASE UnlinkFails(o)
    BY <2>14 DEF UnlinkFails
  <2>15. CASE Return(o)
    BY <2>15 DEF Return
  <2>16. QED BY <1>3, <2>1, <2>2, <2>3, <2>4, <2>5, <2>6, <2>7, <2>8, <2>9, <2>10, <2>11, <2>12, <2>13, <2>14, <2>15 DEF Commit
<1>4. ASSUME NEW o \in Output, Drop(o) PROVE CopiesOwn'
  <2>1. CASE DropRemoves(o)
    BY <2>1 DEF DropRemoves, Rewrite
  <2>2. CASE DropLeaves(o)
    BY <2>2 DEF DropLeaves
  <2>3. QED BY <1>4, <2>1, <2>2 DEF Drop
<1>5. ASSUME NEW p \in Process, Kill(p) PROVE CopiesOwn'
  BY <1>5 DEF Kill, Terminal
<1>6. CASE PowerLoss
  BY <1>6 DEF PowerLoss, Terminal
<1>7. CASE UNCHANGED vars
  BY <1>7 DEF vars
<1>8. QED
  BY <1>1, <1>2, <1>3, <1>4, <1>5, <1>6, <1>7 DEF Next, OutputStep, Finished

\* Only Write, Abandon and Flush change what a file holds, all before sync_all.
LEMMA WholeStep == TypeOK /\ WholeAfterSync /\ [Next]_vars => WholeAfterSync'
<1> SUFFICES ASSUME TypeOK, WholeAfterSync, [Next]_vars PROVE WholeAfterSync'
  OBVIOUS
<1>b. PowerLoss => \A o \in Output : Whole(o) => Whole(o)'
  BY PowerLossKeepsWhole
<1> USE DEF TypeOK, WholeAfterSync, Whole, IsStdio, Goto, control, data, stdout, disk
<1>1. ASSUME NEW o \in Output, New(o) PROVE WholeAfterSync'
  <2>1. CASE Start(o)
    BY <2>1 DEF Start
  <2>2. CASE FetchSequence(o)
    BY <2>2 DEF FetchSequence
  <2>3. CASE OpenTemporary(o)
    BY <2>3 DEF OpenTemporary, Rewrite
  <2>4. CASE OpenCollides(o)
    BY <2>4 DEF OpenCollides
  <2>5. CASE OpenFails(o)
    BY <2>5 DEF OpenFails
  <2>6. QED BY <1>1, <2>1, <2>2, <2>3, <2>4, <2>5 DEF New
<1>2. ASSUME NEW o \in Output, Use(o) PROVE WholeAfterSync'
  <2>1. CASE Write(o)
    BY <2>1 DEF Write, Spill
  <2>2. CASE Abandon(o)
    BY <2>2 DEF Abandon, Spill
  <2>3. QED BY <1>2, <2>1, <2>2 DEF Use
<1>3. ASSUME NEW o \in Output, Commit(o) PROVE WholeAfterSync'
  <2>1. CASE Flush(o)
    BY <2>1 DEF Flush
  <2>2. CASE FlushFails(o)
    BY <2>2 DEF FlushFails, Spill
  <2>3. CASE Sync(o)
    BY <2>3 DEF Sync
  <2>4. CASE SyncFails(o)
    BY <2>4 DEF SyncFails
  <2>5. CASE Rename(o)
    BY <2>5 DEF Rename, Rewrite
  <2>6. CASE RenameFails(o)
    BY <2>6 DEF RenameFails
  <2>7. CASE Reopen(o)
    BY <2>7 DEF Reopen
  <2>8. CASE ReopenFails(o)
    BY <2>8 DEF ReopenFails
  <2>9. CASE CopyPart(o)
    BY <2>9 DEF CopyPart
  <2>10. CASE CopyEnds(o)
    BY <2>10 DEF CopyEnds
  <2>11. CASE FlushStdout(o)
    BY <2>11 DEF FlushStdout
  <2>12. CASE StdoutFails(o)
    BY <2>12 DEF StdoutFails
  <2>13. CASE Unlink(o)
    BY <2>13 DEF Unlink, Rewrite
  <2>14. CASE UnlinkFails(o)
    BY <2>14 DEF UnlinkFails
  <2>15. CASE Return(o)
    BY <2>15 DEF Return
  <2>16. QED BY <1>3, <2>1, <2>2, <2>3, <2>4, <2>5, <2>6, <2>7, <2>8, <2>9, <2>10, <2>11, <2>12, <2>13, <2>14, <2>15 DEF Commit
<1>4. ASSUME NEW o \in Output, Drop(o) PROVE WholeAfterSync'
  <2>1. CASE DropRemoves(o)
    BY <2>1 DEF DropRemoves, Rewrite
  <2>2. CASE DropLeaves(o)
    BY <2>2 DEF DropLeaves
  <2>3. QED BY <1>4, <2>1, <2>2 DEF Drop
<1>5. ASSUME NEW p \in Process, Kill(p) PROVE WholeAfterSync'
  BY <1>5 DEF Kill, Terminal
<1>6. CASE PowerLoss
  <2>1. \A q \in Output : pc'[q] # "sync" /\ (pc'[q] = pc[q] \/ pc'[q] = "killed")
    BY <1>6 DEF PowerLoss, Started, Terminal
  <2>2. QED BY <1>6, <1>b, <2>1

<1>7. CASE UNCHANGED vars
  BY <1>7 DEF vars
<1>8. QED
  BY <1>1, <1>2, <1>3, <1>4, <1>5, <1>6, <1>7 DEF Next, OutputStep, Finished

\* Only the rename puts an output at a destination, and it leaves commit then;
\* a power loss restores nothing that was not there since the last one.
LEMMA CommittedStep == TypeOK /\ OwnsTemporary /\ MayHoldCurrent /\ WholeAfterSync /\ OnlyCommittedReachDestination /\ [Next]_vars => OnlyCommittedReachDestination'
<1> SUFFICES ASSUME TypeOK, OwnsTemporary, MayHoldCurrent, WholeAfterSync, OnlyCommittedReachDestination, [Next]_vars PROVE OnlyCommittedReachDestination'
  OBVIOUS
<1>a. ASSUME NEW o \in Output, Rename(o)
      PROVE  \A d \in Destination, q \in Output :
                q \in mayHold'[d] => q \in mayHold[d] \/ (q = o /\ d = DestinationOf[o])
  BY <1>a, RenameAdds
<1> USE ConstantsAssumption, SentinelsAssumption DEF TypeOK, OwnsTemporary, OnlyCommittedReachDestination, WholeAfterSync, IsStdio, Goto, control, data, stdout, disk
<1>1. ASSUME NEW o \in Output, New(o) PROVE OnlyCommittedReachDestination'
  <2>1. CASE Start(o)
    BY <2>1 DEF Start
  <2>2. CASE FetchSequence(o)
    BY <2>2 DEF FetchSequence
  <2>3. CASE OpenTemporary(o)
    BY <2>3, TemporaryOnly DEF OpenTemporary
  <2>4. CASE OpenCollides(o)
    BY <2>4 DEF OpenCollides
  <2>5. CASE OpenFails(o)
    BY <2>5 DEF OpenFails
  <2>6. QED BY <1>1, <2>1, <2>2, <2>3, <2>4, <2>5 DEF New
<1>2. ASSUME NEW o \in Output, Use(o) PROVE OnlyCommittedReachDestination'
  <2>1. CASE Write(o)
    BY <2>1 DEF Write, Spill
  <2>2. CASE Abandon(o)
    BY <2>2 DEF Abandon, Spill
  <2>3. QED BY <1>2, <2>1, <2>2 DEF Use
<1>3. ASSUME NEW o \in Output, Commit(o) PROVE OnlyCommittedReachDestination'
  <2>1. CASE Flush(o)
    BY <2>1 DEF Flush
  <2>2. CASE FlushFails(o)
    BY <2>2 DEF FlushFails, Spill
  <2>3. CASE Sync(o)
    BY <2>3 DEF Sync
  <2>4. CASE SyncFails(o)
    BY <2>4 DEF SyncFails
  <2>5. CASE Rename(o)
    <3>1. \A d \in Destination, q \in Output :
             q \in mayHold'[d] => q \in mayHold[d] \/ (q = o /\ d = DestinationOf[o])
      BY <2>5, <1>a
    <3>2. pc' = [pc EXCEPT ![o] = "committed"]
      BY <2>5 DEF Rename
    <3>3. ASSUME NEW d \in Destination, NEW q \in Output, q \in mayHold'[d]
          PROVE  pc'[q] \in {"committed", "ok", "killed"} /\ DestinationOf[q] = d
      <4>1. (q = o /\ d = DestinationOf[o]) \/ q \in mayHold[d]
        BY <3>1, <3>3
      <4>2. QED BY <3>2, <4>1
    <3>4. QED BY <3>3
  <2>6. CASE RenameFails(o)
    BY <2>6 DEF RenameFails
  <2>7. CASE Reopen(o)
    BY <2>7 DEF Reopen
  <2>8. CASE ReopenFails(o)
    BY <2>8 DEF ReopenFails
  <2>9. CASE CopyPart(o)
    BY <2>9 DEF CopyPart
  <2>10. CASE CopyEnds(o)
    BY <2>10 DEF CopyEnds
  <2>11. CASE FlushStdout(o)
    BY <2>11 DEF FlushStdout
  <2>12. CASE StdoutFails(o)
    BY <2>12 DEF StdoutFails
  <2>13. CASE Unlink(o)
    BY <2>13, TemporaryOnly DEF Unlink
  <2>14. CASE UnlinkFails(o)
    BY <2>14 DEF UnlinkFails
  <2>15. CASE Return(o)
    BY <2>15 DEF Return
  <2>16. QED BY <1>3, <2>1, <2>2, <2>3, <2>4, <2>5, <2>6, <2>7, <2>8, <2>9, <2>10, <2>11, <2>12, <2>13, <2>14, <2>15 DEF Commit
<1>4. ASSUME NEW o \in Output, Drop(o) PROVE OnlyCommittedReachDestination'
  <2>1. CASE DropRemoves(o)
    BY <2>1, TemporaryOnly DEF DropRemoves
  <2>2. CASE DropLeaves(o)
    BY <2>2 DEF DropLeaves
  <2>3. QED BY <1>4, <2>1, <2>2 DEF Drop
<1>5. ASSUME NEW p \in Process, Kill(p) PROVE OnlyCommittedReachDestination'
  BY <1>5 DEF Kill, Terminal
<1>6. CASE PowerLoss
  <2>1. \A d \in Destination : mayHold'[d] \subseteq mayHold[d]
    BY <1>6 DEF PowerLoss, Name
  <2>2. \A q \in Output : pc[q] \in {"committed", "ok", "killed"}
                            => pc'[q] \in {"committed", "ok", "killed"}
    BY <1>6 DEF PowerLoss, Terminal
  <2>3. QED BY <2>1, <2>2

<1>7. CASE UNCHANGED vars
  BY <1>7 DEF vars
<1>8. QED
  BY <1>1, <1>2, <1>3, <1>4, <1>5, <1>6, <1>7 DEF Next, OutputStep, Finished

\* What reaches a destination was synchronised before, and is not written again.
LEMMA WholeDestinationStep == TypeOK /\ OwnsTemporary /\ MayHoldCurrent /\ WholeAfterSync /\ OnlyCommittedReachDestination /\ DestinationWhole /\ [Next]_vars => DestinationWhole'
<1> SUFFICES ASSUME TypeOK, OwnsTemporary, MayHoldCurrent, WholeAfterSync, OnlyCommittedReachDestination, DestinationWhole, [Next]_vars PROVE DestinationWhole'
  OBVIOUS
<1>a. ASSUME NEW o \in Output, Rename(o)
      PROVE  \A d \in Destination, q \in Output :
                q \in mayHold'[d] => q \in mayHold[d] \/ (q = o /\ d = DestinationOf[o])
  BY <1>a, RenameAdds
<1>b. PowerLoss => \A o \in Output : Whole(o) => Whole(o)'
  BY PowerLossKeepsWhole
<1> USE ConstantsAssumption, SentinelsAssumption DEF TypeOK, OwnsTemporary, OnlyCommittedReachDestination, DestinationWhole, WholeAfterSync, Whole, Goto, control, data, stdout, disk
<1>1. ASSUME NEW o \in Output, New(o) PROVE DestinationWhole'
  <2>1. CASE Start(o)
    BY <2>1 DEF Start
  <2>2. CASE FetchSequence(o)
    BY <2>2 DEF FetchSequence
  <2>3. CASE OpenTemporary(o)
    BY <2>3, TemporaryOnly DEF OpenTemporary
  <2>4. CASE OpenCollides(o)
    BY <2>4 DEF OpenCollides
  <2>5. CASE OpenFails(o)
    BY <2>5 DEF OpenFails
  <2>6. QED BY <1>1, <2>1, <2>2, <2>3, <2>4, <2>5 DEF New
<1>2. ASSUME NEW o \in Output, Use(o) PROVE DestinationWhole'
  <2>1. CASE Write(o)
    BY <2>1 DEF Write, Spill
  <2>2. CASE Abandon(o)
    BY <2>2 DEF Abandon, Spill
  <2>3. QED BY <1>2, <2>1, <2>2 DEF Use
<1>3. ASSUME NEW o \in Output, Commit(o) PROVE DestinationWhole'
  <2>1. CASE Flush(o)
    BY <2>1 DEF Flush
  <2>2. CASE FlushFails(o)
    BY <2>2 DEF FlushFails, Spill
  <2>3. CASE Sync(o)
    BY <2>3 DEF Sync
  <2>4. CASE SyncFails(o)
    BY <2>4 DEF SyncFails
  <2>5. CASE Rename(o)
    <3>1. \A d \in Destination, q \in Output :
             q \in mayHold'[d] => q \in mayHold[d] \/ (q = o /\ d = DestinationOf[o])
      BY <2>5, <1>a
    <3>2. Whole(o)
      BY <2>5 DEF Rename
    <3>3. ASSUME NEW d \in Destination, NEW q \in Output, q \in mayHold'[d]
          PROVE  Whole(q)'
      <4>1. q = o \/ q \in mayHold[d]
        BY <3>1, <3>3
      <4>2. Whole(q)
        BY <3>2, <4>1
      <4>3. QED BY <2>5, <4>2 DEF Rename
    <3>4. QED BY <3>3
  <2>6. CASE RenameFails(o)
    BY <2>6 DEF RenameFails
  <2>7. CASE Reopen(o)
    BY <2>7 DEF Reopen
  <2>8. CASE ReopenFails(o)
    BY <2>8 DEF ReopenFails
  <2>9. CASE CopyPart(o)
    BY <2>9 DEF CopyPart
  <2>10. CASE CopyEnds(o)
    BY <2>10 DEF CopyEnds
  <2>11. CASE FlushStdout(o)
    BY <2>11 DEF FlushStdout
  <2>12. CASE StdoutFails(o)
    BY <2>12 DEF StdoutFails
  <2>13. CASE Unlink(o)
    BY <2>13, TemporaryOnly DEF Unlink
  <2>14. CASE UnlinkFails(o)
    BY <2>14 DEF UnlinkFails
  <2>15. CASE Return(o)
    BY <2>15 DEF Return
  <2>16. QED BY <1>3, <2>1, <2>2, <2>3, <2>4, <2>5, <2>6, <2>7, <2>8, <2>9, <2>10, <2>11, <2>12, <2>13, <2>14, <2>15 DEF Commit
<1>4. ASSUME NEW o \in Output, Drop(o) PROVE DestinationWhole'
  <2>1. CASE DropRemoves(o)
    BY <2>1, TemporaryOnly DEF DropRemoves
  <2>2. CASE DropLeaves(o)
    BY <2>2 DEF DropLeaves
  <2>3. QED BY <1>4, <2>1, <2>2 DEF Drop
<1>5. ASSUME NEW p \in Process, Kill(p) PROVE DestinationWhole'
  BY <1>5 DEF Kill
<1>6. CASE PowerLoss
  <2>1. \A d \in Destination : mayHold'[d] \subseteq mayHold[d]
    BY <1>6 DEF PowerLoss, Name
  <2>2. \A q \in Output : Whole(q) => Whole(q)'
    BY <1>6, <1>b
  <2>3. QED BY <2>1, <2>2

<1>7. CASE UNCHANGED vars
  BY <1>7 DEF vars
<1>8. QED
  BY <1>1, <1>2, <1>3, <1>4, <1>5, <1>6, <1>7 DEF Next, OutputStep, Finished

\* commit has no way back to writing.
LEMMA SendsLateStep == TypeOK /\ SendsLate /\ [Next]_vars => SendsLate'
<1> SUFFICES ASSUME TypeOK, SendsLate, [Next]_vars PROVE SendsLate'
  OBVIOUS
<1> USE DEF TypeOK, SendsLate, Goto, control, data, stdout, disk
<1>1. ASSUME NEW o \in Output, New(o) PROVE SendsLate'
  <2>1. CASE Start(o)
    BY <2>1 DEF Start
  <2>2. CASE FetchSequence(o)
    BY <2>2 DEF FetchSequence
  <2>3. CASE OpenTemporary(o)
    BY <2>3 DEF OpenTemporary, Rewrite
  <2>4. CASE OpenCollides(o)
    BY <2>4 DEF OpenCollides
  <2>5. CASE OpenFails(o)
    BY <2>5 DEF OpenFails
  <2>6. QED BY <1>1, <2>1, <2>2, <2>3, <2>4, <2>5 DEF New
<1>2. ASSUME NEW o \in Output, Use(o) PROVE SendsLate'
  <2>1. CASE Write(o)
    BY <2>1 DEF Write, Spill
  <2>2. CASE Abandon(o)
    BY <2>2 DEF Abandon, Spill
  <2>3. QED BY <1>2, <2>1, <2>2 DEF Use
<1>3. ASSUME NEW o \in Output, Commit(o) PROVE SendsLate'
  <2>1. CASE Flush(o)
    BY <2>1 DEF Flush
  <2>2. CASE FlushFails(o)
    BY <2>2 DEF FlushFails, Spill
  <2>3. CASE Sync(o)
    BY <2>3 DEF Sync
  <2>4. CASE SyncFails(o)
    BY <2>4 DEF SyncFails
  <2>5. CASE Rename(o)
    BY <2>5 DEF Rename, Rewrite
  <2>6. CASE RenameFails(o)
    BY <2>6 DEF RenameFails
  <2>7. CASE Reopen(o)
    BY <2>7 DEF Reopen
  <2>8. CASE ReopenFails(o)
    BY <2>8 DEF ReopenFails
  <2>9. CASE CopyPart(o)
    BY <2>9 DEF CopyPart
  <2>10. CASE CopyEnds(o)
    BY <2>10 DEF CopyEnds
  <2>11. CASE FlushStdout(o)
    BY <2>11 DEF FlushStdout
  <2>12. CASE StdoutFails(o)
    BY <2>12 DEF StdoutFails
  <2>13. CASE Unlink(o)
    BY <2>13 DEF Unlink, Rewrite
  <2>14. CASE UnlinkFails(o)
    BY <2>14 DEF UnlinkFails
  <2>15. CASE Return(o)
    BY <2>15 DEF Return
  <2>16. QED BY <1>3, <2>1, <2>2, <2>3, <2>4, <2>5, <2>6, <2>7, <2>8, <2>9, <2>10, <2>11, <2>12, <2>13, <2>14, <2>15 DEF Commit
<1>4. ASSUME NEW o \in Output, Drop(o) PROVE SendsLate'
  <2>1. CASE DropRemoves(o)
    BY <2>1 DEF DropRemoves, Rewrite
  <2>2. CASE DropLeaves(o)
    BY <2>2 DEF DropLeaves
  <2>3. QED BY <1>4, <2>1, <2>2 DEF Drop
<1>5. ASSUME NEW p \in Process, Kill(p) PROVE SendsLate'
  BY <1>5 DEF Kill
<1>6. CASE PowerLoss
  BY <1>6 DEF PowerLoss
<1>7. CASE UNCHANGED vars
  BY <1>7 DEF vars
<1>8. QED
  BY <1>1, <1>2, <1>3, <1>4, <1>5, <1>6, <1>7 DEF Next, OutputStep, Finished

\* The first unit is sent from a whole file, which stays as it is.
LEMMA StdoutStep == TypeOK /\ CopiesOwn /\ WholeAfterSync /\ SendsLate /\ StdoutOnlyWholeResults /\ [Next]_vars => StdoutOnlyWholeResults'
<1> SUFFICES ASSUME TypeOK, CopiesOwn, WholeAfterSync, SendsLate, StdoutOnlyWholeResults, [Next]_vars PROVE StdoutOnlyWholeResults'
  OBVIOUS
<1> USE DEF TypeOK, CopiesOwn, WholeAfterSync, SendsLate, StdoutOnlyWholeResults, Whole, IsStdio, Goto, control, data, stdout, disk
<1>1. ASSUME NEW o \in Output, New(o) PROVE StdoutOnlyWholeResults'
  <2>1. CASE Start(o)
    BY <2>1 DEF Start
  <2>2. CASE FetchSequence(o)
    BY <2>2 DEF FetchSequence
  <2>3. CASE OpenTemporary(o)
    BY <2>3 DEF OpenTemporary, Rewrite
  <2>4. CASE OpenCollides(o)
    BY <2>4 DEF OpenCollides
  <2>5. CASE OpenFails(o)
    BY <2>5 DEF OpenFails
  <2>6. QED BY <1>1, <2>1, <2>2, <2>3, <2>4, <2>5 DEF New
<1>2. ASSUME NEW o \in Output, Use(o) PROVE StdoutOnlyWholeResults'
  <2>1. CASE Write(o)
    BY <2>1 DEF Write, Spill
  <2>2. CASE Abandon(o)
    BY <2>2 DEF Abandon, Spill
  <2>3. QED BY <1>2, <2>1, <2>2 DEF Use
<1>3. ASSUME NEW o \in Output, Commit(o) PROVE StdoutOnlyWholeResults'
  <2>1. CASE Flush(o)
    BY <2>1 DEF Flush
  <2>2. CASE FlushFails(o)
    BY <2>2 DEF FlushFails, Spill
  <2>3. CASE Sync(o)
    BY <2>3 DEF Sync
  <2>4. CASE SyncFails(o)
    BY <2>4 DEF SyncFails
  <2>5. CASE Rename(o)
    BY <2>5 DEF Rename, Rewrite
  <2>6. CASE RenameFails(o)
    BY <2>6 DEF RenameFails
  <2>7. CASE Reopen(o)
    BY <2>7 DEF Reopen
  <2>8. CASE ReopenFails(o)
    BY <2>8 DEF ReopenFails
  <2>9. CASE CopyPart(o)
    BY <2>9 DEF CopyPart
  <2>10. CASE CopyEnds(o)
    BY <2>10 DEF CopyEnds
  <2>11. CASE FlushStdout(o)
    BY <2>11 DEF FlushStdout
  <2>12. CASE StdoutFails(o)
    BY <2>12 DEF StdoutFails
  <2>13. CASE Unlink(o)
    BY <2>13 DEF Unlink, Rewrite
  <2>14. CASE UnlinkFails(o)
    BY <2>14 DEF UnlinkFails
  <2>15. CASE Return(o)
    BY <2>15 DEF Return
  <2>16. QED BY <1>3, <2>1, <2>2, <2>3, <2>4, <2>5, <2>6, <2>7, <2>8, <2>9, <2>10, <2>11, <2>12, <2>13, <2>14, <2>15 DEF Commit
<1>4. ASSUME NEW o \in Output, Drop(o) PROVE StdoutOnlyWholeResults'
  <2>1. CASE DropRemoves(o)
    BY <2>1 DEF DropRemoves, Rewrite
  <2>2. CASE DropLeaves(o)
    BY <2>2 DEF DropLeaves
  <2>3. QED BY <1>4, <2>1, <2>2 DEF Drop
<1>5. ASSUME NEW p \in Process, Kill(p) PROVE StdoutOnlyWholeResults'
  BY <1>5 DEF Kill
<1>6. CASE PowerLoss
  BY <1>6 DEF PowerLoss
<1>7. CASE UNCHANGED vars
  BY <1>7 DEF vars
<1>8. QED
  BY <1>1, <1>2, <1>3, <1>4, <1>5, <1>6, <1>7 DEF Next, OutputStep, Finished

\* What stdout has does not change once commit went on from it.
LEMMA UnlinkStep ==
    TypeOK /\ CopiesOwn /\ WholeAfterSync /\ SentBeforeUnlink /\ [Next]_vars
      => SentBeforeUnlink'
<1> SUFFICES ASSUME TypeOK, CopiesOwn, WholeAfterSync, SentBeforeUnlink, [Next]_vars
             PROVE  SentBeforeUnlink'
  OBVIOUS
<1> USE ConstantsAssumption DEF TypeOK, CopiesOwn, WholeAfterSync, SentBeforeUnlink, Whole,
        IsStdio, Goto, control, data, stdout, disk
<1>1. ASSUME NEW o \in Output, New(o) PROVE SentBeforeUnlink'
  <2>1. CASE Start(o)
    BY <2>1 DEF Start
  <2>2. CASE FetchSequence(o)
    BY <2>2 DEF FetchSequence
  <2>3. CASE OpenTemporary(o)
    BY <2>3 DEF OpenTemporary, Rewrite, Name
  <2>4. CASE OpenCollides(o)
    BY <2>4 DEF OpenCollides
  <2>5. CASE OpenFails(o)
    BY <2>5 DEF OpenFails
  <2>6. QED BY <1>1, <2>1, <2>2, <2>3, <2>4, <2>5 DEF New
<1>2. ASSUME NEW o \in Output, Use(o) PROVE SentBeforeUnlink'
  <2>1. CASE Write(o)
    BY <2>1 DEF Write, Spill
  <2>2. CASE Abandon(o)
    BY <2>2 DEF Abandon, Spill
  <2>3. QED BY <1>2, <2>1, <2>2 DEF Use
<1>3. ASSUME NEW o \in Output, Commit(o) PROVE SentBeforeUnlink'
  <2>1. CASE Flush(o)
    BY <2>1 DEF Flush
  <2>2. CASE FlushFails(o)
    BY <2>2 DEF FlushFails, Spill
  <2>3. CASE Sync(o)
    BY <2>3 DEF Sync
  <2>4. CASE SyncFails(o)
    BY <2>4 DEF SyncFails
  <2>5. CASE Rename(o)
    BY <2>5 DEF Rename, Rewrite, Name
  <2>6. CASE RenameFails(o)
    BY <2>6 DEF RenameFails
  <2>7. CASE Reopen(o)
    BY <2>7 DEF Reopen
  <2>8. CASE ReopenFails(o)
    BY <2>8 DEF ReopenFails
  <2>9. CASE CopyPart(o)
    BY <2>9 DEF CopyPart
  <2>10. CASE CopyEnds(o)
    BY <2>10 DEF CopyEnds
  <2>11. CASE FlushStdout(o)
    BY <2>11 DEF FlushStdout
  <2>12. CASE StdoutFails(o)
    BY <2>12 DEF StdoutFails
  <2>13. CASE Unlink(o)
    BY <2>13 DEF Unlink, Rewrite, Name
  <2>14. CASE UnlinkFails(o)
    BY <2>14 DEF UnlinkFails
  <2>15. CASE Return(o)
    BY <2>15 DEF Return
  <2>16. QED BY <1>3, <2>1, <2>2, <2>3, <2>4, <2>5, <2>6, <2>7, <2>8, <2>9, <2>10, <2>11,
         <2>12, <2>13, <2>14, <2>15 DEF Commit
<1>4. ASSUME NEW o \in Output, Drop(o) PROVE SentBeforeUnlink'
  <2>1. CASE DropRemoves(o)
    BY <2>1 DEF DropRemoves, Rewrite, Name
  <2>2. CASE DropLeaves(o)
    BY <2>2 DEF DropLeaves
  <2>3. QED BY <1>4, <2>1, <2>2 DEF Drop
<1>5. ASSUME NEW p \in Process, Kill(p) PROVE SentBeforeUnlink'
  BY <1>5 DEF Kill, Terminal
<1>6. CASE PowerLoss
  BY <1>6 DEF PowerLoss, Started, Terminal
<1>7. CASE UNCHANGED vars
  BY <1>7 DEF vars
<1>8. QED
  BY <1>1, <1>2, <1>3, <1>4, <1>5, <1>6, <1>7 DEF Next, OutputStep, Finished

\* A rename puts an output's file at its destination, and nothing else but another
\* rename changes what is there.
LEMMA DeliveredStep ==
    TypeOK /\ OwnsTemporary /\ WholeAfterSync /\ Delivered /\ [Next]_vars => Delivered'
<1> SUFFICES ASSUME TypeOK, OwnsTemporary, WholeAfterSync, Delivered, [Next]_vars
             PROVE  Delivered'
  OBVIOUS
<1> USE DEF TypeOK, Delivered, IsStdio, Goto, control, data, stdout, disk
<1>0. \A q \in Output : DestinationOf[q] \notin TempName \/ IsStdio(q)
  BY ConstantsAssumption, NamesAssumption
<1>1. ASSUME NEW o \in Output, New(o) PROVE Delivered'
  <2>1. CASE Start(o)
    BY <2>1 DEF Start
  <2>2. CASE FetchSequence(o)
    BY <2>2 DEF FetchSequence
  <2>3. CASE OpenTemporary(o)
    BY <1>0, <2>3 DEF OpenTemporary, Rewrite, Name
  <2>4. CASE OpenCollides(o)
    BY <2>4 DEF OpenCollides
  <2>5. CASE OpenFails(o)
    BY <2>5 DEF OpenFails
  <2>6. QED BY <1>1, <2>1, <2>2, <2>3, <2>4, <2>5 DEF New
<1>2. ASSUME NEW o \in Output, Use(o) PROVE Delivered'
  <2>1. CASE Write(o)
    BY <2>1 DEF Write, Spill
  <2>2. CASE Abandon(o)
    BY <2>2 DEF Abandon, Spill
  <2>3. QED BY <1>2, <2>1, <2>2 DEF Use
<1>3. ASSUME NEW o \in Output, Commit(o) PROVE Delivered'
  <2>1. CASE Flush(o)
    BY <2>1 DEF Flush
  <2>2. CASE FlushFails(o)
    BY <2>2 DEF FlushFails, Spill
  <2>3. CASE Sync(o)
    BY <2>3 DEF Sync
  <2>4. CASE SyncFails(o)
    BY <2>4 DEF SyncFails
  <2>5. CASE Rename(o)
    <3>1. path[o] \in TempName /\ dir[path[o]] = o /\ DestinationOf[o] \in Destination
      BY <2>5, ConstantsAssumption DEF Rename, OwnsTemporary, WholeAfterSync, Holding
    <3>2. powerLosses' = powerLosses /\ \A q \in Output \ {o} : pc'[q] = pc[q]
      BY <2>5 DEF Rename, Rewrite
    <3>3. \A d \in Destination : dir'[d] = IF d = DestinationOf[o] THEN o ELSE dir[d]
      BY <2>5, <3>1, NamesAssumption DEF Rename, Rewrite, Name
    <3>4. ASSUME NEW q \in Output, powerLosses' = 0, pc'[q] \in {"committed", "ok"},
                 ~IsStdio(q)
          PROVE  dir'[DestinationOf[q]] \in Output
      <4>1. DestinationOf[q] \in Destination
        BY <3>4, ConstantsAssumption
      <4>2. CASE q = o
        BY <3>1, <3>3, <4>2
      <4>3. CASE q # o
        BY <3>2, <3>3, <3>4, <4>1, <4>3
      <4>4. QED BY <4>2, <4>3
    <3>5. QED BY <3>4
  <2>6. CASE RenameFails(o)
    BY <2>6 DEF RenameFails
  <2>7. CASE Reopen(o)
    BY <2>7 DEF Reopen
  <2>8. CASE ReopenFails(o)
    BY <2>8 DEF ReopenFails
  <2>9. CASE CopyPart(o)
    BY <2>9 DEF CopyPart
  <2>10. CASE CopyEnds(o)
    BY <2>10 DEF CopyEnds
  <2>11. CASE FlushStdout(o)
    BY <2>11 DEF FlushStdout
  <2>12. CASE StdoutFails(o)
    BY <2>12 DEF StdoutFails
  <2>13. CASE Unlink(o)
    BY <1>0, <2>13 DEF Unlink, Rewrite, Name, WholeAfterSync, Holding
  <2>14. CASE UnlinkFails(o)
    BY <2>14 DEF UnlinkFails
  <2>15. CASE Return(o)
    BY <2>15 DEF Return
  <2>16. QED BY <1>3, <2>1, <2>2, <2>3, <2>4, <2>5, <2>6, <2>7, <2>8, <2>9, <2>10, <2>11,
         <2>12, <2>13, <2>14, <2>15 DEF Commit
<1>4. ASSUME NEW o \in Output, Drop(o) PROVE Delivered'
  <2>1. CASE DropRemoves(o)
    BY <1>0, <2>1 DEF DropRemoves, Rewrite, Name, Holding
  <2>2. CASE DropLeaves(o)
    BY <2>2 DEF DropLeaves
  <2>3. QED BY <1>4, <2>1, <2>2 DEF Drop
<1>5. ASSUME NEW p \in Process, Kill(p) PROVE Delivered'
  BY <1>5 DEF Kill, Terminal
<1>6. CASE PowerLoss
  BY <1>6 DEF PowerLoss, Started, Terminal
<1>7. CASE UNCHANGED vars
  BY <1>7 DEF vars
<1>8. QED
  BY <1>1, <1>2, <1>3, <1>4, <1>5, <1>6, <1>7 DEF Next, OutputStep, Finished

\* A file gets its temporary name by create_new and keeps it until rename or remove_file.
LEMMA CreatedOnceStep ==
    TypeOK /\ WholeAfterSync /\ CreatedOnce /\ [Next]_vars
      => CreatedOnce'
<1> SUFFICES ASSUME TypeOK, WholeAfterSync, CreatedOnce, [Next]_vars
             PROVE  CreatedOnce'
  OBVIOUS
<1> USE ConstantsAssumption, SentinelsAssumption, NamesAssumption DEF TypeOK,
        WholeAfterSync, CreatedOnce, IsStdio, Holding, Goto, control, data, stdout, disk
<1>1. ASSUME NEW o \in Output, New(o) PROVE CreatedOnce'
  <2>1. CASE Start(o)
    BY <2>1 DEF Start
  <2>2. CASE FetchSequence(o)
    BY <2>2 DEF FetchSequence
  <2>3. CASE OpenTemporary(o)
    BY <2>3 DEF OpenTemporary, Rewrite, Name
  <2>4. CASE OpenCollides(o)
    BY <2>4 DEF OpenCollides
  <2>5. CASE OpenFails(o)
    BY <2>5 DEF OpenFails
  <2>6. QED BY <1>1, <2>1, <2>2, <2>3, <2>4, <2>5 DEF New
<1>2. ASSUME NEW o \in Output, Use(o) PROVE CreatedOnce'
  <2>1. CASE Write(o)
    BY <2>1 DEF Write, Spill
  <2>2. CASE Abandon(o)
    BY <2>2 DEF Abandon, Spill
  <2>3. QED BY <1>2, <2>1, <2>2 DEF Use
<1>3. ASSUME NEW o \in Output, Commit(o) PROVE CreatedOnce'
  <2>1. CASE Flush(o)
    BY <2>1 DEF Flush
  <2>2. CASE FlushFails(o)
    BY <2>2 DEF FlushFails, Spill
  <2>3. CASE Sync(o)
    BY <2>3 DEF Sync
  <2>4. CASE SyncFails(o)
    BY <2>4 DEF SyncFails
  <2>5. CASE Rename(o)
    BY <2>5 DEF Rename, Rewrite, Name
  <2>6. CASE RenameFails(o)
    BY <2>6 DEF RenameFails
  <2>7. CASE Reopen(o)
    BY <2>7 DEF Reopen
  <2>8. CASE ReopenFails(o)
    BY <2>8 DEF ReopenFails
  <2>9. CASE CopyPart(o)
    BY <2>9 DEF CopyPart
  <2>10. CASE CopyEnds(o)
    BY <2>10 DEF CopyEnds
  <2>11. CASE FlushStdout(o)
    BY <2>11 DEF FlushStdout
  <2>12. CASE StdoutFails(o)
    BY <2>12 DEF StdoutFails
  <2>13. CASE Unlink(o)
    BY <2>13 DEF Unlink, Rewrite, Name
  <2>14. CASE UnlinkFails(o)
    BY <2>14 DEF UnlinkFails
  <2>15. CASE Return(o)
    BY <2>15 DEF Return
  <2>16. QED BY <1>3, <2>1, <2>2, <2>3, <2>4, <2>5, <2>6, <2>7, <2>8, <2>9, <2>10, <2>11,
         <2>12, <2>13, <2>14, <2>15 DEF Commit
<1>4. ASSUME NEW o \in Output, Drop(o) PROVE CreatedOnce'
  <2>1. CASE DropRemoves(o)
    BY <2>1 DEF DropRemoves, Rewrite, Name
  <2>2. CASE DropLeaves(o)
    BY <2>2 DEF DropLeaves
  <2>3. QED BY <1>4, <2>1, <2>2 DEF Drop
<1>5. ASSUME NEW p \in Process, Kill(p) PROVE CreatedOnce'
  BY <1>5 DEF Kill, Terminal
<1>6. CASE PowerLoss
  BY <1>6 DEF PowerLoss, Started, Terminal
<1>7. CASE UNCHANGED vars
  BY <1>7 DEF vars
<1>8. QED
  BY <1>1, <1>2, <1>3, <1>4, <1>5, <1>6, <1>7 DEF Next, OutputStep, Finished

\* After it was reopened the file does not change, and is whole, also after a power loss.
LEMMA SourceIsOwnStep ==
    TypeOK /\ OwnsTemporary /\ WholeAfterSync /\ SourceIsOwn /\ [Next]_vars
      => SourceIsOwn'
<1> SUFFICES ASSUME TypeOK, OwnsTemporary, WholeAfterSync, SourceIsOwn, [Next]_vars
             PROVE  SourceIsOwn'
  OBVIOUS
<1> USE ConstantsAssumption, SentinelsAssumption DEF TypeOK, OwnsTemporary, WholeAfterSync,
        SourceIsOwn, IsStdio, Whole, Holding, Goto, control, data, stdout, disk
<1>1. ASSUME NEW o \in Output, New(o) PROVE SourceIsOwn'
  <2>1. CASE Start(o)
    BY <2>1 DEF Start
  <2>2. CASE FetchSequence(o)
    BY <2>2 DEF FetchSequence
  <2>3. CASE OpenTemporary(o)
    BY <2>3 DEF OpenTemporary, Rewrite, Name
  <2>4. CASE OpenCollides(o)
    BY <2>4 DEF OpenCollides
  <2>5. CASE OpenFails(o)
    BY <2>5 DEF OpenFails
  <2>6. QED BY <1>1, <2>1, <2>2, <2>3, <2>4, <2>5 DEF New
<1>2. ASSUME NEW o \in Output, Use(o) PROVE SourceIsOwn'
  <2>1. CASE Write(o)
    BY <2>1 DEF Write, Spill
  <2>2. CASE Abandon(o)
    BY <2>2 DEF Abandon, Spill
  <2>3. QED BY <1>2, <2>1, <2>2 DEF Use
<1>3. ASSUME NEW o \in Output, Commit(o) PROVE SourceIsOwn'
  <2>1. CASE Flush(o)
    BY <2>1 DEF Flush
  <2>2. CASE FlushFails(o)
    BY <2>2 DEF FlushFails, Spill
  <2>3. CASE Sync(o)
    BY <2>3 DEF Sync
  <2>4. CASE SyncFails(o)
    BY <2>4 DEF SyncFails
  <2>5. CASE Rename(o)
    BY <2>5 DEF Rename, Rewrite, Name
  <2>6. CASE RenameFails(o)
    BY <2>6 DEF RenameFails
  <2>7. CASE Reopen(o)
    BY <2>7 DEF Reopen
  <2>8. CASE ReopenFails(o)
    BY <2>8 DEF ReopenFails
  <2>9. CASE CopyPart(o)
    BY <2>9 DEF CopyPart
  <2>10. CASE CopyEnds(o)
    BY <2>10 DEF CopyEnds
  <2>11. CASE FlushStdout(o)
    BY <2>11 DEF FlushStdout
  <2>12. CASE StdoutFails(o)
    BY <2>12 DEF StdoutFails
  <2>13. CASE Unlink(o)
    BY <2>13 DEF Unlink, Rewrite, Name
  <2>14. CASE UnlinkFails(o)
    BY <2>14 DEF UnlinkFails
  <2>15. CASE Return(o)
    BY <2>15 DEF Return
  <2>16. QED BY <1>3, <2>1, <2>2, <2>3, <2>4, <2>5, <2>6, <2>7, <2>8, <2>9, <2>10, <2>11,
         <2>12, <2>13, <2>14, <2>15 DEF Commit
<1>4. ASSUME NEW o \in Output, Drop(o) PROVE SourceIsOwn'
  <2>1. CASE DropRemoves(o)
    BY <2>1 DEF DropRemoves, Rewrite, Name
  <2>2. CASE DropLeaves(o)
    BY <2>2 DEF DropLeaves
  <2>3. QED BY <1>4, <2>1, <2>2 DEF Drop
<1>5. ASSUME NEW p \in Process, Kill(p) PROVE SourceIsOwn'
  BY <1>5 DEF Kill, Terminal
<1>6. CASE PowerLoss
  BY <1>6, PowerLossKeepsWhole DEF PowerLoss, Started, Terminal
<1>7. CASE UNCHANGED vars
  BY <1>7 DEF vars
<1>8. QED
  BY <1>1, <1>2, <1>3, <1>4, <1>5, <1>6, <1>7 DEF Next, OutputStep, Finished

\* The copy reads the output's own file, which is whole.
LEMMA WithinStep == TypeOK /\ CopiesOwn /\ WithinSource /\ [Next]_vars => WithinSource'
<1> SUFFICES ASSUME TypeOK, CopiesOwn, WithinSource, [Next]_vars
             PROVE  WithinSource'
  OBVIOUS
<1> USE ConstantsAssumption DEF TypeOK, CopiesOwn, WithinSource, Goto, control, data,
        stdout, disk
<1>1. ASSUME NEW o \in Output, New(o) PROVE WithinSource'
  <2>1. CASE Start(o)
    BY <2>1 DEF Start
  <2>2. CASE FetchSequence(o)
    BY <2>2 DEF FetchSequence
  <2>3. CASE OpenTemporary(o)
    BY <2>3 DEF OpenTemporary, Rewrite, Name
  <2>4. CASE OpenCollides(o)
    BY <2>4 DEF OpenCollides
  <2>5. CASE OpenFails(o)
    BY <2>5 DEF OpenFails
  <2>6. QED BY <1>1, <2>1, <2>2, <2>3, <2>4, <2>5 DEF New
<1>2. ASSUME NEW o \in Output, Use(o) PROVE WithinSource'
  <2>1. CASE Write(o)
    BY <2>1 DEF Write, Spill
  <2>2. CASE Abandon(o)
    BY <2>2 DEF Abandon, Spill
  <2>3. QED BY <1>2, <2>1, <2>2 DEF Use
<1>3. ASSUME NEW o \in Output, Commit(o) PROVE WithinSource'
  <2>1. CASE Flush(o)
    BY <2>1 DEF Flush
  <2>2. CASE FlushFails(o)
    BY <2>2 DEF FlushFails, Spill
  <2>3. CASE Sync(o)
    BY <2>3 DEF Sync
  <2>4. CASE SyncFails(o)
    BY <2>4 DEF SyncFails
  <2>5. CASE Rename(o)
    BY <2>5 DEF Rename, Rewrite, Name
  <2>6. CASE RenameFails(o)
    BY <2>6 DEF RenameFails
  <2>7. CASE Reopen(o)
    BY <2>7 DEF Reopen
  <2>8. CASE ReopenFails(o)
    BY <2>8 DEF ReopenFails
  <2>9. CASE CopyPart(o)
    BY <2>9 DEF CopyPart
  <2>10. CASE CopyEnds(o)
    BY <2>10 DEF CopyEnds
  <2>11. CASE FlushStdout(o)
    BY <2>11 DEF FlushStdout
  <2>12. CASE StdoutFails(o)
    BY <2>12 DEF StdoutFails
  <2>13. CASE Unlink(o)
    BY <2>13 DEF Unlink, Rewrite, Name
  <2>14. CASE UnlinkFails(o)
    BY <2>14 DEF UnlinkFails
  <2>15. CASE Return(o)
    BY <2>15 DEF Return
  <2>16. QED BY <1>3, <2>1, <2>2, <2>3, <2>4, <2>5, <2>6, <2>7, <2>8, <2>9, <2>10, <2>11,
         <2>12, <2>13, <2>14, <2>15 DEF Commit
<1>4. ASSUME NEW o \in Output, Drop(o) PROVE WithinSource'
  <2>1. CASE DropRemoves(o)
    BY <2>1 DEF DropRemoves, Rewrite, Name
  <2>2. CASE DropLeaves(o)
    BY <2>2 DEF DropLeaves
  <2>3. QED BY <1>4, <2>1, <2>2 DEF Drop
<1>5. ASSUME NEW p \in Process, Kill(p) PROVE WithinSource'
  BY <1>5 DEF Kill, Terminal
<1>6. CASE PowerLoss
  BY <1>6 DEF PowerLoss, Started, Terminal
<1>7. CASE UNCHANGED vars
  BY <1>7 DEF vars
<1>8. QED
  BY <1>1, <1>2, <1>3, <1>4, <1>5, <1>6, <1>7 DEF Next, OutputStep, Finished

\* What RemovesOnlyOwn says of one name and one output, as an action.
RemovedByOwner(n, q) ==
    dir[n] = q /\ dir'[n] # q /\ powerLosses' = powerLosses
       => pc[q] \in Holding /\ pc'[q] \in {"committed", "err"}

\* A name changes only in the steps of the output whose path it is, and that output
\* ends: what it removes or renames is its own file.
LEMMA RemovesStep ==
    TypeOK /\ OwnsTemporary /\ WholeAfterSync /\ [Next]_vars
      => \A n \in TempName, q \in Output : RemovedByOwner(n, q)
<1> SUFFICES ASSUME TypeOK, OwnsTemporary, WholeAfterSync, [Next]_vars,
                   NEW n \in TempName, NEW q \in Output
             PROVE  RemovedByOwner(n, q)
  OBVIOUS
<1> USE ConstantsAssumption, SentinelsAssumption, NamesAssumption DEF TypeOK, OwnsTemporary,
        WholeAfterSync, RemovedByOwner, IsStdio, Holding, Goto, control, data, stdout, disk
<1>1. ASSUME NEW o \in Output, New(o) PROVE RemovedByOwner(n, q)
  <2>1. CASE Start(o)
    BY <2>1 DEF Start
  <2>2. CASE FetchSequence(o)
    BY <2>2 DEF FetchSequence
  <2>3. CASE OpenTemporary(o)
    BY <2>3 DEF OpenTemporary, Rewrite, Name
  <2>4. CASE OpenCollides(o)
    BY <2>4 DEF OpenCollides
  <2>5. CASE OpenFails(o)
    BY <2>5 DEF OpenFails
  <2>6. QED BY <1>1, <2>1, <2>2, <2>3, <2>4, <2>5 DEF New
<1>2. ASSUME NEW o \in Output, Use(o) PROVE RemovedByOwner(n, q)
  <2>1. CASE Write(o)
    BY <2>1 DEF Write, Spill
  <2>2. CASE Abandon(o)
    BY <2>2 DEF Abandon, Spill
  <2>3. QED BY <1>2, <2>1, <2>2 DEF Use
<1>3. ASSUME NEW o \in Output, Commit(o) PROVE RemovedByOwner(n, q)
  <2>1. CASE Flush(o)
    BY <2>1 DEF Flush
  <2>2. CASE FlushFails(o)
    BY <2>2 DEF FlushFails, Spill
  <2>3. CASE Sync(o)
    BY <2>3 DEF Sync
  <2>4. CASE SyncFails(o)
    BY <2>4 DEF SyncFails
  <2>5. CASE Rename(o)
    BY <2>5 DEF Rename, Rewrite, Name
  <2>6. CASE RenameFails(o)
    BY <2>6 DEF RenameFails
  <2>7. CASE Reopen(o)
    BY <2>7 DEF Reopen
  <2>8. CASE ReopenFails(o)
    BY <2>8 DEF ReopenFails
  <2>9. CASE CopyPart(o)
    BY <2>9 DEF CopyPart
  <2>10. CASE CopyEnds(o)
    BY <2>10 DEF CopyEnds
  <2>11. CASE FlushStdout(o)
    BY <2>11 DEF FlushStdout
  <2>12. CASE StdoutFails(o)
    BY <2>12 DEF StdoutFails
  <2>13. CASE Unlink(o)
    BY <2>13 DEF Unlink, Rewrite, Name
  <2>14. CASE UnlinkFails(o)
    BY <2>14 DEF UnlinkFails
  <2>15. CASE Return(o)
    BY <2>15 DEF Return
  <2>16. QED BY <1>3, <2>1, <2>2, <2>3, <2>4, <2>5, <2>6, <2>7, <2>8, <2>9, <2>10, <2>11,
         <2>12, <2>13, <2>14, <2>15 DEF Commit
<1>4. ASSUME NEW o \in Output, Drop(o) PROVE RemovedByOwner(n, q)
  <2>1. CASE DropRemoves(o)
    BY <2>1 DEF DropRemoves, Rewrite, Name
  <2>2. CASE DropLeaves(o)
    BY <2>2 DEF DropLeaves
  <2>3. QED BY <1>4, <2>1, <2>2 DEF Drop
<1>5. ASSUME NEW p \in Process, Kill(p) PROVE RemovedByOwner(n, q)
  BY <1>5 DEF Kill, Terminal
<1>6. CASE PowerLoss
  BY <1>6 DEF PowerLoss, Started, Terminal
<1>7. CASE UNCHANGED vars
  BY <1>7 DEF vars
<1>8. QED
  BY <1>1, <1>2, <1>3, <1>4, <1>5, <1>6, <1>7 DEF Next, OutputStep, Finished

-----------------------------------------------------------------------------
LEMMA InitIInv == Init => IInv
<1> SUFFICES ASSUME Init PROVE IInv
  OBVIOUS
<1> USE ConstantsAssumption, SentinelsAssumption, NamesAssumption
<1>1. TypeOK
  BY DEF Init, TypeOK, Name, Content, Location, Holding, Terminal, NoPath
<1>2. OwnsTemporary /\ CopiesOwn /\ WholeAfterSync
  BY DEF Init, OwnsTemporary, CopiesOwn, WholeAfterSync, Holding
<1>3. MayHoldCurrent
  BY DEF Init, MayHoldCurrent
<1>4. OnlyCommittedReachDestination /\ DestinationWhole
  BY DEF Init, OnlyCommittedReachDestination, DestinationWhole, Name
<1>5. SendsLate /\ StdoutOnlyWholeResults
  BY DEF Init, SendsLate, StdoutOnlyWholeResults
<1>6. SentBeforeUnlink /\ CreatedOnce /\ SourceIsOwn /\ WithinSource
  BY DEF Init, SentBeforeUnlink, CreatedOnce, SourceIsOwn, WithinSource
<1>7. Delivered
  BY DEF Init, Delivered
<1>8. QED BY <1>1, <1>2, <1>3, <1>4, <1>5, <1>6, <1>7 DEF IInv

LEMMA NextIInv == IInv /\ [Next]_vars => IInv'
  BY TypeStep, OwnsStep, MayHoldStep, CopiesOwnStep, WholeStep, CommittedStep,
     WholeDestinationStep, SendsLateStep, StdoutStep, UnlinkStep, DeliveredStep,
     CreatedOnceStep, SourceIsOwnStep, WithinStep DEF IInv

\* The conjunction that is inductive holds in every behaviour.
THEOREM Inductive == Spec => []IInv
  BY InitIInv, NextIInv, PTL DEF Spec

\* The types of the variables; in particular new forms at most MaxAttempts names.
THEOREM TypeCorrect == Spec => []TypeOK
<1>1. IInv => TypeOK
  BY DEF IInv
<1>2. QED BY <1>1, Inductive, PTL

\* commit never publishes, and drop never removes, another output's file (io.rs,
\* create_new with sequence and process id), however pids are shared.
THEOREM TemporaryIsOwn == Spec => []OwnsTemporary
<1>1. IInv => OwnsTemporary
  BY DEF IInv
<1>2. QED BY <1>1, Inductive, PTL

\* No destination ever refers to part of a result, power losses included
\* (io.rs, commit: flush, sync_all, rename in this order).
THEOREM DestinationIsWhole == Spec => []DestinationWhole
<1>1. IInv => DestinationWhole
  BY DEF IInv
<1>2. QED BY <1>1, Inductive, PTL

\* An output that fails leaves its destination as it was (io.rs, drop).
THEOREM FailureLeavesDestination == Spec => []OnlyCommittedReachDestination
<1>1. IInv => OnlyCommittedReachDestination
  BY DEF IInv
<1>2. QED BY <1>1, Inductive, PTL

\* stdout receives nothing but whole, synchronised results (io.rs, commit).
THEOREM StdoutIsWhole == Spec => []StdoutOnlyWholeResults
<1>1. IInv => StdoutOnlyWholeResults
  BY DEF IInv
<1>2. QED BY <1>1, Inductive, PTL

\* Behind an Ok of commit is a result: all of it on stdout, or a file of one of the runs
\* at the destination; and no temporary name refers to the output's file, unless a power
\* loss brought one back (io.rs, commit: copy, flush, remove_file in this order, or
\* rename, and an error of any of them ends it).
THEOREM OkMeansDelivered == Spec => []OkDelivers
<1>1. IInv => OkDelivers
  BY DEF IInv, OkDelivers, SentBeforeUnlink, Delivered, CreatedOnce, Holding
<1>2. QED BY <1>1, Inductive, PTL

\* Whatever processes share a pid or a directory, a temporary file that exists is
\* removed or renamed by the output it belongs to, as its last step (io.rs,
\* create_new in new, remove_file in commit and drop).
THEOREM OnlyTheOwnerRemoves == Spec => RemovesOnlyOwn
<1>1. IInv /\ [Next]_vars =>
         [\A n \in TempName, o \in Output :
             dir[n] = o /\ dir'[n] # o /\ powerLosses' = powerLosses
                => pc[o] \in Holding /\ pc'[o] \in {"committed", "err"}]_vars
  BY RemovesStep DEF IInv, RemovedByOwner
<1>2. QED BY <1>1, Inductive, PTL DEF Spec, RemovesOnlyOwn

-----------------------------------------------------------------------------
(* TransactionalOutput implements AtomicPublish.                           *)

OutcomeBar == [o \in Output |-> AbstractOutcome(o)]
ShownBar == [d \in Destination |-> Seen(dir[d])]
MayShowBar == [d \in Destination |-> {Seen(c) : c \in mayHold[d]}]
SentBar == [o \in Output |-> AbstractSent(o)]

\* Nothing of output q that the promise sees changes.
Same(q) ==
    /\ pc'[q] = pc[q]
    /\ source'[q] = source[q]
    /\ emitted'[q] = emitted[q]
    /\ accepted'[q] = accepted[q]
    /\ cached'[q] = cached[q]
    /\ durable'[q] = durable[q]

\* Destinations show whole results only: "torn" never appears.
LEMMA SeenIsThere ==
    ASSUME IInv
    PROVE  /\ ShownBar = [d \in Destination |-> dir[d]]
           /\ MayShowBar = [d \in Destination |-> mayHold[d]]
<1>1. \A d \in Destination : \A c \in mayHold[d] : Seen(c) = c
  BY DEF IInv, DestinationWhole, Seen
<1>2. \A d \in Destination : dir[d] \in mayHold[d]
  BY DEF IInv, MayHoldCurrent, Name
<1>3. \A d \in Destination : {Seen(c) : c \in mayHold[d]} = mayHold[d]
  BY <1>1
<1>4. QED BY <1>1, <1>2, <1>3 DEF ShownBar, MayShowBar

\* The same in the next state.
LEMMA SeenIsThereNext ==
    ASSUME IInv'
    PROVE  /\ ShownBar' = [d \in Destination |-> dir'[d]]
           /\ MayShowBar' = [d \in Destination |-> mayHold'[d]]
<1>1. \A d \in Destination : \A c \in mayHold'[d] : Seen(c)' = c
  BY DEF IInv, DestinationWhole, Seen
<1>2. \A d \in Destination : dir'[d] \in mayHold'[d]
  BY DEF IInv, MayHoldCurrent, Name
<1>3. \A d \in Destination : {Seen(c)' : c \in mayHold'[d]} = mayHold'[d]
  BY <1>1
<1>4. QED BY <1>1, <1>2, <1>3 DEF ShownBar, MayShowBar

\* Only the rename changes what a reader of a destination finds.
LEMMA DestinationsStay ==
    ASSUME IInv, IInv', NEW o \in Output, OutputStep(o), ~Rename(o)
    PROVE  ShownBar' = ShownBar /\ MayShowBar' = MayShowBar
<1> USE DEF IInv
<1>1. CASE OpenTemporary(o) \/ Unlink(o) \/ DropRemoves(o)
  <2>1. path[o] \in TempName
    BY <1>1 DEF TypeOK, OpenTemporary, Unlink, DropRemoves, Holding
  <2>2. \A d \in Destination : dir'[d] = dir[d]
    BY <1>1, <2>1, NamesAssumption
       DEF TypeOK, Name, OpenTemporary, Unlink, DropRemoves, Rewrite
  <2>3. \A d \in Destination : mayHold'[d] = mayHold[d]
    BY <1>1, TemporaryOnly
  <2>4. QED BY <2>2, <2>3, SeenIsThere, SeenIsThereNext
<1>2. CASE ~(OpenTemporary(o) \/ Unlink(o) \/ DropRemoves(o))
  <2>1. UNCHANGED <<dir, mayHold>>
    BY <1>2 DEF OutputStep, New, Use, Commit, Drop, Start, FetchSequence, OpenCollides,
       OpenFails, Write, Abandon, Flush, FlushFails, Sync, SyncFails, RenameFails, Reopen,
       ReopenFails, CopyPart, CopyEnds, FlushStdout, StdoutFails, UnlinkFails, Return,
       DropLeaves, control, data, stdout, disk
  <2>2. QED BY <2>1, SeenIsThere, SeenIsThereNext
<1>3. QED BY <1>1, <1>2

\* A step of one output is invisible in every other one.
LEMMA OthersSame ==
    ASSUME TypeOK, NEW o \in Output, OutputStep(o), NEW q \in Output \ {o}
    PROVE  Same(q)
<1> USE DEF TypeOK, Same, Goto, control, data, stdout, disk
<1>1. CASE New(o)
  <2>1. CASE Start(o)
    BY <2>1 DEF Start
  <2>2. CASE FetchSequence(o)
    BY <2>2 DEF FetchSequence
  <2>3. CASE OpenTemporary(o)
    BY <2>3 DEF OpenTemporary
  <2>4. CASE OpenCollides(o)
    BY <2>4 DEF OpenCollides
  <2>5. CASE OpenFails(o)
    BY <2>5 DEF OpenFails
  <2>6. QED BY <1>1, <2>1, <2>2, <2>3, <2>4, <2>5 DEF New
<1>2. CASE Use(o)
  <2>1. CASE Write(o)
    BY <2>1 DEF Write, Spill
  <2>2. CASE Abandon(o)
    BY <2>2 DEF Abandon, Spill
  <2>3. QED BY <1>2, <2>1, <2>2 DEF Use
<1>3. CASE Commit(o)
  <2>1. CASE Flush(o)
    BY <2>1 DEF Flush
  <2>2. CASE FlushFails(o)
    BY <2>2 DEF FlushFails, Spill
  <2>3. CASE Sync(o)
    BY <2>3 DEF Sync
  <2>4. CASE SyncFails(o)
    BY <2>4 DEF SyncFails
  <2>5. CASE Rename(o)
    BY <2>5 DEF Rename
  <2>6. CASE RenameFails(o)
    BY <2>6 DEF RenameFails
  <2>7. CASE Reopen(o)
    BY <2>7 DEF Reopen
  <2>8. CASE ReopenFails(o)
    BY <2>8 DEF ReopenFails
  <2>9. CASE CopyPart(o)
    BY <2>9 DEF CopyPart
  <2>10. CASE CopyEnds(o)
    BY <2>10 DEF CopyEnds
  <2>11. CASE FlushStdout(o)
    BY <2>11 DEF FlushStdout
  <2>12. CASE StdoutFails(o)
    BY <2>12 DEF StdoutFails
  <2>13. CASE Unlink(o)
    BY <2>13 DEF Unlink
  <2>14. CASE UnlinkFails(o)
    BY <2>14 DEF UnlinkFails
  <2>15. CASE Return(o)
    BY <2>15 DEF Return
  <2>16. QED BY <1>3, <2>1, <2>2, <2>3, <2>4, <2>5, <2>6, <2>7, <2>8, <2>9, <2>10, <2>11,
         <2>12, <2>13, <2>14, <2>15 DEF Commit
<1>4. CASE Drop(o)
  <2>1. CASE DropRemoves(o)
    BY <2>1 DEF DropRemoves
  <2>2. CASE DropLeaves(o)
    BY <2>2 DEF DropLeaves
  <2>3. QED BY <1>4, <2>1, <2>2 DEF Drop
<1>5. QED BY <1>1, <1>2, <1>3, <1>4 DEF OutputStep

\* So that a step of one output changes the promise's view of that output only.
LEMMA OneMoves ==
    ASSUME TypeOK, NEW o \in Output, OutputStep(o)
    PROVE  /\ OutcomeBar' = [OutcomeBar EXCEPT ![o] = AbstractOutcome(o)']
           /\ SentBar' = [SentBar EXCEPT ![o] = AbstractSent(o)']
<1>1. ASSUME NEW q \in Output \ {o}
      PROVE  AbstractOutcome(q)' = AbstractOutcome(q) /\ AbstractSent(q)' = AbstractSent(q)
  <2>1. Same(q)
    BY OthersSame
  <2>2. Whole(q)' = Whole(q)
    BY <2>1 DEF Same, Whole
  <2>3. AbstractOutcome(q)' = AbstractOutcome(q)
    BY <2>1 DEF Same, AbstractOutcome
  <2>4. AbstractSent(q)' = AbstractSent(q)
    BY <2>1 DEF Same, AbstractSent, Whole
  <2>5. QED BY <2>3, <2>4
<1>2. QED BY <1>1 DEF OutcomeBar, SentBar

\* With the file whole and the output's own, what was sent is told by two counters.
LEMMA SentIs ==
    ASSUME SourceIsOwn, NEW o \in Output
    PROVE  AbstractSent(o) =
              IF source[o] = Missing THEN "nothing"
              ELSE IF emitted[o] = accepted[o] THEN "whole"
              ELSE IF emitted[o] = 0 THEN "nothing" ELSE "part"
  BY SentinelsAssumption DEF SourceIsOwn, AbstractSent

LEMMA SentIsNext ==
    ASSUME SourceIsOwn', NEW o \in Output
    PROVE  AbstractSent(o)' =
              IF source'[o] = Missing THEN "nothing"
              ELSE IF emitted'[o] = accepted'[o] THEN "whole"
              ELSE IF emitted'[o] = 0 THEN "nothing" ELSE "part"
  BY SentinelsAssumption DEF SourceIsOwn, AbstractSent

LEMMA RefinesInit == Init => Promise!Init
<1> SUFFICES ASSUME Init PROVE Promise!Init
  OBVIOUS
<1>1. ASSUME NEW o \in Output
      PROVE  AbstractOutcome(o) = "working" /\ AbstractSent(o) = "nothing"
  <2>1. pc[o] = "idle" /\ source[o] = Missing
    BY DEF Init
  <2>2. AbstractOutcome(o) = "working"
    BY <2>1 DEF AbstractOutcome, Terminal
  <2>3. AbstractSent(o) = "nothing"
    BY <2>1, SentinelsAssumption DEF AbstractSent
  <2>4. QED BY <2>2, <2>3
<1>2. \A d \in Destination : dir[d] \in {Original, Missing} /\ Seen(dir[d]) = dir[d]
  BY SentinelsAssumption DEF Init, Name, Seen
<1>3. \A d \in Destination : {Seen(c) : c \in mayHold[d]} = {Seen(dir[d])}
  BY DEF Init, Name
<1>4. QED BY <1>1, <1>2, <1>3 DEF Promise!Init

\* The outcome that the promise sees, place by place.
LEMMA OutcomeIs ==
    ASSUME TypeOK, NEW o \in Output
    PROVE  /\ pc[o] \in Terminal => AbstractOutcome(o) = pc[o]
           /\ pc[o] = "committed" => AbstractOutcome(o) = "published"
           /\ pc[o] \notin Terminal \cup {"committed"} =>
                 AbstractOutcome(o) = IF source[o] = Missing THEN "working" ELSE "sending"
<1>1. CASE pc[o] \in Terminal
  BY <1>1 DEF AbstractOutcome, Terminal
<1>2. CASE pc[o] = "committed"
  BY <1>2 DEF AbstractOutcome, Terminal
<1>3. CASE pc[o] \notin Terminal \cup {"committed"}
  BY <1>3 DEF AbstractOutcome
<1>4. QED BY <1>1, <1>2, <1>3 DEF Terminal

LEMMA OutcomeIsNext ==
    ASSUME TypeOK', NEW o \in Output
    PROVE  /\ pc'[o] \in Terminal => AbstractOutcome(o)' = pc'[o]
           /\ pc'[o] = "committed" => AbstractOutcome(o)' = "published"
           /\ pc'[o] \notin Terminal \cup {"committed"} =>
                 AbstractOutcome(o)' = IF source'[o] = Missing THEN "working" ELSE "sending"
<1>1. CASE pc'[o] \in Terminal
  BY <1>1 DEF AbstractOutcome, Terminal
<1>2. CASE pc'[o] = "committed"
  BY <1>2 DEF AbstractOutcome, Terminal
<1>3. CASE pc'[o] \notin Terminal \cup {"committed"}
  BY <1>3 DEF AbstractOutcome
<1>4. QED BY <1>1, <1>2, <1>3 DEF Terminal

\* Steps that the promise does not see.
Hidden(o) ==
    \/ Start(o) \/ FetchSequence(o) \/ OpenTemporary(o) \/ (OpenCollides(o) /\ pc'[o] = "fetch")
    \/ Use(o)
    \/ Flush(o) \/ FlushFails(o) \/ Sync(o) \/ SyncFails(o) \/ RenameFails(o)
    \/ ReopenFails(o) \/ CopyEnds(o) \/ StdoutFails(o) \/ UnlinkFails(o)

LEMMA HiddenStutters ==
    ASSUME IInv, IInv', NEW o \in Output, Hidden(o)
    PROVE  UNCHANGED <<OutcomeBar, ShownBar, MayShowBar, SentBar>>
<1> USE DEF IInv
<1>1. OutputStep(o) /\ ~Rename(o)
  BY DEF Hidden, OutputStep, New, Use, Commit, TypeOK, Goto, Start, FetchSequence,
     OpenTemporary, OpenCollides, Write, Abandon, Flush, FlushFails, Sync, SyncFails, Rename,
     RenameFails, ReopenFails, CopyEnds, StdoutFails, UnlinkFails, Spill, control, Rewrite
<1>2. ShownBar' = ShownBar /\ MayShowBar' = MayShowBar
  BY <1>1, DestinationsStay
<1>3. /\ pc[o] \notin Terminal \cup {"committed"}
      /\ pc'[o] \notin Terminal \cup {"committed"}
      /\ source' = source
      /\ emitted' = emitted
      /\ source[o] # Missing => accepted' = accepted
  BY DEF Hidden, Use, TypeOK, SourceIsOwn, Goto, Terminal, Start, FetchSequence,
     OpenTemporary, OpenCollides, Write, Abandon, Flush, FlushFails, Sync, SyncFails,
     RenameFails, ReopenFails, CopyEnds, StdoutFails, UnlinkFails, control, data, stdout
<1>4. AbstractOutcome(o)' = AbstractOutcome(o)
  BY <1>3, OutcomeIs, OutcomeIsNext
<1>5. AbstractSent(o)' = AbstractSent(o)
  BY <1>3, SentIs, SentIsNext
<1>6. QED
  BY <1>1, <1>2, <1>4, <1>5, OneMoves DEF OutcomeBar, SentBar

\* stdout never has more of an output than was written to it.
LEMMA CopyWithin ==
    ASSUME IInv, NEW o \in Output PROVE emitted[o] <= accepted[o]
  BY DEF IInv, WithinSource

LEMMA CopyWithinNext ==
    ASSUME IInv', NEW o \in Output PROVE emitted'[o] <= accepted'[o]
  BY DEF IInv, WithinSource

\* A failure ends the output, and leaves its destination and stdout as they are.
LEMMA FailureFails ==
    ASSUME IInv, IInv', NEW o \in Output,
           OpenFails(o) \/ (OpenCollides(o) /\ pc'[o] = "err") \/ Drop(o)
    PROVE  Promise!Fail(o)
<1> USE DEF IInv
<1>1. OutputStep(o) /\ ~Rename(o)
  BY DEF OutputStep, New, Drop, OpenFails, OpenCollides, DropRemoves, DropLeaves, Rename
<1>2. ShownBar' = ShownBar /\ MayShowBar' = MayShowBar
  BY <1>1, DestinationsStay
<1>3. /\ pc[o] \notin Terminal \cup {"committed"}
      /\ pc'[o] = "err"
      /\ source' = source
      /\ emitted' = emitted
      /\ accepted' = accepted
  BY DEF Drop, TypeOK, Goto, Terminal, OpenFails, OpenCollides, DropRemoves, DropLeaves,
     data, stdout
<1>4. AbstractOutcome(o) \in {"working", "sending"} /\ AbstractOutcome(o)' = "err"
  BY <1>3, OutcomeIs, OutcomeIsNext DEF Terminal
<1>5. AbstractSent(o)' = AbstractSent(o)
  BY <1>3, SentIs, SentIsNext
<1>6. OutcomeBar' = [OutcomeBar EXCEPT ![o] = "err"] /\ SentBar' = SentBar
  BY <1>1, <1>4, <1>5, OneMoves DEF SentBar
<1>7. QED
  BY <1>2, <1>4, <1>6
     DEF Promise!Fail, Promise!Become, OutcomeBar, ShownBar, MayShowBar, SentBar

\* Every call that passes data to stdout sends, and sends only more.
LEMMA CopySends ==
    ASSUME IInv, IInv', NEW o \in Output, Reopen(o) \/ CopyPart(o) \/ FlushStdout(o)
    PROVE  Promise!Send(o)
<1> USE DEF IInv
<1>1. OutputStep(o) /\ ~Rename(o)
  BY DEF OutputStep, Commit, Reopen, CopyPart, FlushStdout, Rename
<1>2. ShownBar' = ShownBar /\ MayShowBar' = MayShowBar
  BY <1>1, DestinationsStay
<1>3. /\ pc[o] \in {"reopen", "copy", "flushStdout"}
      /\ pc'[o] \in {"copy", "flushStdout", "unlink"}
      /\ accepted' = accepted /\ cached' = cached
  BY DEF TypeOK, Goto, Reopen, CopyPart, FlushStdout, control, data
<1>4. DestinationOf[o] = Stdio
  BY <1>3 DEF WholeAfterSync, IsStdio
<1>5. source'[o] = o
  BY <1>3 DEF CopiesOwn
<1>6. AbstractOutcome(o) \in {"working", "sending"} /\ AbstractOutcome(o)' = "sending"
  BY <1>3, <1>5, OutcomeIs, OutcomeIsNext, SentinelsAssumption DEF Terminal
<1>7. cached[o] = accepted[o] /\ emitted[o] <= accepted[o] /\ accepted[o] \in Nat /\ emitted[o] \in Nat
  <2>1. cached[o] = accepted[o]
    BY <1>3 DEF WholeAfterSync, Whole
  <2>2. emitted[o] <= accepted[o]
    BY CopyWithin
  <2>3. QED BY <2>1, <2>2, ConstantsAssumption DEF TypeOK
<1>8. emitted[o] <= emitted'[o]
  <2>1. CASE Reopen(o)
    BY <2>1, <1>7 DEF Reopen, TypeOK
  <2>2. CASE CopyPart(o)
    BY <2>2, <1>7 DEF CopyPart, TypeOK
  <2>3. CASE FlushStdout(o)
    <3>1. source[o] = o
      BY <2>3 DEF FlushStdout, CopiesOwn
    <3>2. emitted'[o] = cached[o]
      BY <2>3, <3>1 DEF FlushStdout, TypeOK
    <3>3. QED BY <1>7, <3>2
  <2>4. QED BY <2>1, <2>2, <2>3
<1>9. emitted'[o] <= accepted[o] /\ emitted'[o] \in Nat
  <2>1. emitted'[o] <= accepted'[o]
    BY CopyWithinNext
  <2>2. QED BY <1>3, <2>1, ConstantsAssumption DEF TypeOK
<1>10. /\ AbstractSent(o)' \in {"nothing", "part", "whole"}
       /\ AbstractSent(o) = "whole" => AbstractSent(o)' = "whole"
       /\ AbstractSent(o) = "part" => AbstractSent(o)' # "nothing"
  BY <1>3, <1>5, <1>7, <1>8, <1>9, SentIs, SentIsNext, SentinelsAssumption
<1>11. /\ OutcomeBar' = [OutcomeBar EXCEPT ![o] = "sending"]
       /\ SentBar' = [SentBar EXCEPT ![o] = AbstractSent(o)']
  BY <1>1, <1>6, OneMoves
<1>12. OutcomeBar[o] = AbstractOutcome(o) /\ SentBar[o] = AbstractSent(o)
  BY DEF OutcomeBar, SentBar
<1>13. /\ OutcomeBar[o] \in {"working", "sending"}
       /\ \E amount \in {"nothing", "part", "whole"} :
             /\ SentBar[o] = "whole" => amount = "whole"
             /\ SentBar[o] = "part" => amount # "nothing"
             /\ SentBar' = [SentBar EXCEPT ![o] = amount]
  BY <1>6, <1>10, <1>11, <1>12
<1>14. QED
  BY <1>2, <1>4, <1>11, <1>13
     DEF Promise!Send, Promise!Become, OutcomeBar, ShownBar, MayShowBar, SentBar

\* The rename is the one step that publishes.
LEMMA RenamePublishes ==
    ASSUME IInv, IInv', NEW o \in Output, Rename(o)
    PROVE  Promise!Publish(o)
<1> USE DEF IInv
<1>1. OutputStep(o)
  BY DEF OutputStep, Commit
<1>2. pc[o] = "rename" /\ pc'[o] = "committed" /\ source' = source /\ emitted' = emitted
      /\ accepted' = accepted
  BY DEF TypeOK, Goto, Rename, data, stdout
<1>3. source[o] = Missing /\ DestinationOf[o] # Stdio /\ DestinationOf[o] \in Destination
  BY <1>2, ConstantsAssumption DEF SourceIsOwn, WholeAfterSync, IsStdio
<1>4. OutcomeBar[o] = "working" /\ OutcomeBar' = [OutcomeBar EXCEPT ![o] = "published"]
  BY <1>1, <1>2, <1>3, OneMoves, OutcomeIs, OutcomeIsNext DEF OutcomeBar, Terminal
<1>5. SentBar' = SentBar
  BY <1>1, <1>2, <1>3, OneMoves, SentIs, SentIsNext DEF SentBar
<1>6. path[o] \in TempName /\ dir[path[o]] = o
  BY <1>2 DEF TypeOK, OwnsTemporary, Holding
<1>7. \A d \in Destination : dir'[d] = IF d = DestinationOf[o] THEN o ELSE dir[d]
  BY <1>3, <1>6, NamesAssumption DEF TypeOK, Name, Rename, Rewrite
<1>8. \A d \in Destination : mayHold'[d] = mayHold[d] \cup {dir'[d]} /\ dir[d] \in mayHold[d]
  BY RewriteAdds DEF Name, Rename, MayHoldCurrent
<1>9. ShownBar' = [ShownBar EXCEPT ![DestinationOf[o]] = o]
  BY <1>3, <1>7, SeenIsThere, SeenIsThereNext
<1>10. MayShowBar' = [MayShowBar EXCEPT ![DestinationOf[o]] = @ \cup {o}]
  <2>1. \A d \in Destination \ {DestinationOf[o]} : mayHold'[d] = mayHold[d]
    <3>1. ASSUME NEW d \in Destination \ {DestinationOf[o]} PROVE mayHold'[d] = mayHold[d]
      <4>1. mayHold'[d] = mayHold[d] \cup {dir[d]} /\ dir[d] \in mayHold[d]
        BY <1>7, <1>8
      <4>2. QED BY <4>1
    <3>2. QED BY <3>1
  <2>2. mayHold'[DestinationOf[o]] = mayHold[DestinationOf[o]] \cup {o}
    BY <1>3, <1>7, <1>8
  <2>3. QED BY <1>3, <2>1, <2>2, SeenIsThere, SeenIsThereNext
<1>11. QED
  BY <1>3, <1>4, <1>5, <1>9, <1>10
     DEF Promise!Publish, Promise!Become, OutcomeBar, ShownBar, MayShowBar, SentBar

\* remove_file after the copy ends a sending whose whole result is out.
LEMMA UnlinkEndsSending ==
    ASSUME IInv, IInv', NEW o \in Output, Unlink(o)
    PROVE  Promise!SendEnds(o)
<1> USE DEF IInv
<1>1. OutputStep(o) /\ ~Rename(o)
  BY DEF OutputStep, Commit, Unlink, Rename
<1>2. ShownBar' = ShownBar /\ MayShowBar' = MayShowBar
  BY <1>1, DestinationsStay
<1>3. pc[o] = "unlink" /\ pc'[o] = "committed" /\ source' = source /\ emitted' = emitted
      /\ accepted' = accepted
  BY DEF TypeOK, Goto, Unlink, data, stdout
<1>4. source[o] # Missing /\ emitted[o] = accepted[o]
  BY <1>3, SentinelsAssumption DEF CopiesOwn, SentBeforeUnlink, WholeAfterSync
<1>5. OutcomeBar[o] = "sending" /\ OutcomeBar' = [OutcomeBar EXCEPT ![o] = "published"]
  BY <1>1, <1>3, <1>4, OneMoves, OutcomeIs, OutcomeIsNext DEF OutcomeBar, Terminal
<1>6. SentBar[o] = "whole" /\ SentBar' = SentBar
  BY <1>1, <1>3, <1>4, OneMoves, SentIs, SentIsNext DEF SentBar
<1>7. QED
  BY <1>2, <1>5, <1>6
     DEF Promise!SendEnds, Promise!Become, OutcomeBar, ShownBar, MayShowBar, SentBar

LEMMA ReturnSucceeds ==
    ASSUME IInv, IInv', NEW o \in Output, Return(o)
    PROVE  Promise!Succeed(o)
<1> USE DEF IInv
<1>1. OutputStep(o) /\ ~Rename(o)
  BY DEF OutputStep, Commit, Return, Rename
<1>2. ShownBar' = ShownBar /\ MayShowBar' = MayShowBar
  BY <1>1, DestinationsStay
<1>3. pc[o] = "committed" /\ pc'[o] = "ok" /\ source' = source /\ emitted' = emitted
      /\ accepted' = accepted
  BY DEF TypeOK, Goto, Return, data, stdout
<1>4. OutcomeBar[o] = "published" /\ OutcomeBar' = [OutcomeBar EXCEPT ![o] = "ok"]
  BY <1>1, <1>3, OneMoves, OutcomeIs, OutcomeIsNext DEF OutcomeBar, Terminal
<1>5. SentBar' = SentBar
  BY <1>1, <1>3, OneMoves, SentIs, SentIsNext DEF SentBar
<1>6. QED
  BY <1>2, <1>4, <1>5
     DEF Promise!Succeed, Promise!Become, OutcomeBar, ShownBar, MayShowBar, SentBar

\* The outputs of a process that dies are those that had not ended.
LEMMA DeathIsDeath ==
    ASSUME TypeOK, TypeOK', NEW dying \in SUBSET Output, source' = source,
           pc' = [o \in Output |->
                     IF o \in dying /\ pc[o] \notin Terminal THEN "killed" ELSE pc[o]]
    PROVE  Promise!Die(dying)
<1>1. ASSUME NEW o \in Output
      PROVE  AbstractOutcome(o)' = IF o \in dying /\ AbstractOutcome(o) \notin {"ok", "err", "killed"}
                                     THEN "killed" ELSE AbstractOutcome(o)
  <2>1. pc'[o] = IF o \in dying /\ pc[o] \notin Terminal THEN "killed" ELSE pc[o]
    OBVIOUS
  <2>2. AbstractOutcome(o) \in {"ok", "err", "killed"} <=> pc[o] \in Terminal
    BY OutcomeIs DEF Terminal
  <2>3. CASE o \in dying /\ pc[o] \notin Terminal
    <3>1. pc'[o] = "killed"
      BY <2>1, <2>3
    <3>2. AbstractOutcome(o)' = "killed"
      BY <3>1, OutcomeIsNext DEF Terminal
    <3>3. QED BY <2>2, <2>3, <3>2
  <2>4. CASE ~(o \in dying /\ pc[o] \notin Terminal)
    <3>1. pc'[o] = pc[o] /\ source'[o] = source[o]
      BY <2>1, <2>4
    <3>2. AbstractOutcome(o)' = AbstractOutcome(o)
      BY <3>1, OutcomeIs, OutcomeIsNext
    <3>3. QED BY <2>2, <2>4, <3>2
  <2>5. QED BY <2>3, <2>4
<1>2. QED BY <1>1 DEF Promise!Die, Promise!Ended

LEMMA KillKills ==
    ASSUME IInv, IInv', NEW p \in Process, Kill(p)
    PROVE  Promise!Kill
<1> USE DEF IInv
<1> DEFINE dying == {o \in Output : ProcessOf[o] = p}
<1>1. Promise!Die(dying)
  BY DeathIsDeath DEF Kill, stdout
<1>2. ShownBar' = ShownBar /\ MayShowBar' = MayShowBar
  BY SeenIsThere, SeenIsThereNext DEF Kill, disk
<1>3. SentBar' = SentBar
  BY DEF Kill, SentBar, AbstractSent, Whole, data, stdout
<1>4. QED
  BY <1>1, <1>2, <1>3 DEF Promise!Kill, ShownBar, MayShowBar, SentBar

\* A power loss shows at each destination a whole file that it may show, or none.
LEMMA PowerLossIsOne ==
    ASSUME IInv, IInv', PowerLoss PROVE Promise!PowerLoss
<1> USE DEF IInv
<1> DEFINE dying == {o \in Output : Started(ProcessOf[o])}
<1>1. Promise!Die(dying)
  BY DeathIsDeath DEF PowerLoss, stdout
<1>2. PICK entry \in [Name -> Content] :
         /\ \A n \in Name : entry[n] \in mayHold[n]
         /\ dir' = entry
         /\ mayHold' = [n \in Name |-> {entry[n]}]
  BY DEF PowerLoss
<1>3. \A d \in Destination : dir'[d] \in mayHold[d] /\ mayHold'[d] = {dir'[d]} /\ dir'[d] \in Content
  BY <1>2 DEF Name
<1>4. /\ ShownBar' \in [Destination -> Output \cup {Original, Missing}]
      /\ \A d \in Destination : ShownBar'[d] \in MayShowBar[d]
      /\ MayShowBar' = [d \in Destination |-> {ShownBar'[d]}]
  BY <1>3, SeenIsThere, SeenIsThereNext DEF Content
<1>5. SentBar' = SentBar
  <2>1. ASSUME NEW o \in Output PROVE AbstractSent(o)' = AbstractSent(o)
    BY SentIs, SentIsNext DEF PowerLoss, stdout
  <2>2. QED BY <2>1 DEF SentBar
<1>6. QED
  BY <1>1, <1>4, <1>5 DEF Promise!PowerLoss, ShownBar, MayShowBar, SentBar

\* Every step is a step of the promise, or the promise does not see it.
LEMMA RefinesNext == IInv /\ IInv' /\ [Next]_vars => [Promise!Next]_(Promise!vars)
<1> SUFFICES ASSUME IInv, IInv', [Next]_vars PROVE [Promise!Next]_(Promise!vars)
  OBVIOUS
<1>1. ASSUME NEW o \in Output, OutputStep(o) PROVE [Promise!Next]_(Promise!vars)
  <2>1. OpenCollides(o) => pc'[o] \in {"fetch", "err"}
    BY DEF OpenCollides, Goto, IInv, TypeOK
  <2>2. CASE Hidden(o)
    BY <2>2, HiddenStutters DEF Promise!vars, OutcomeBar, ShownBar, MayShowBar, SentBar
  <2>3. CASE OpenFails(o) \/ (OpenCollides(o) /\ pc'[o] = "err") \/ Drop(o)
    BY <2>3, FailureFails DEF Promise!Next
  <2>4. CASE Reopen(o) \/ CopyPart(o) \/ FlushStdout(o)
    BY <2>4, CopySends DEF Promise!Next
  <2>5. CASE Rename(o)
    BY <2>5, RenamePublishes DEF Promise!Next
  <2>6. CASE Unlink(o)
    BY <2>6, UnlinkEndsSending DEF Promise!Next
  <2>7. CASE Return(o)
    BY <2>7, ReturnSucceeds DEF Promise!Next
  <2>8. QED
    BY <1>1, <2>1, <2>2, <2>3, <2>4, <2>5, <2>6, <2>7 DEF OutputStep, New, Commit, Hidden
<1>2. ASSUME NEW p \in Process, Kill(p) PROVE [Promise!Next]_(Promise!vars)
  BY <1>2, KillKills DEF Promise!Next
<1>3. CASE PowerLoss
  BY <1>3, PowerLossIsOne DEF Promise!Next
<1>4. CASE UNCHANGED vars
  <2>1. UNCHANGED <<OutcomeBar, ShownBar, MayShowBar, SentBar>>
    BY <1>4 DEF vars, control, data, stdout, disk, OutcomeBar, ShownBar, MayShowBar, SentBar,
       AbstractOutcome, AbstractSent, Seen, Whole
  <2>2. QED
    BY <2>1 DEF Promise!vars, OutcomeBar, ShownBar, MayShowBar, SentBar
<1>5. QED BY <1>1, <1>2, <1>3, <1>4 DEF Next, Finished

\* TransactionalOutput keeps its promise: to whoever looks at the destinations, now or
\* after a power loss, and at stdout, new, write, commit, drop, kills and power losses
\* are nothing but one step that publishes a whole result, or sending it, or failing
\* (io.rs, TransactionalOutput; README, "temporary files").
THEOREM Implements == Spec => KeepsPromise
<1>1. Spec => []IInv
  BY Inductive
<1>2. QED BY <1>1, RefinesInit, RefinesNext, PTL DEF Spec, KeepsPromise, Promise!Spec
=============================================================================
