------------------------ MODULE TransactionalOutput ------------------------
(***************************************************************************)
(* TransactionalOutput (src/src/io.rs): an output is collected in a        *)
(* private temporary file and reaches its destination in commit(), by a    *)
(* rename, or by a copy when the destination is standard output.           *)
(*                                                                         *)
(* Several processes, each with several outputs, share the directories.    *)
(* The file system is external: a directory entry that was changed may,    *)
(* after a power loss, be back at any value it had since the last power    *)
(* loss (the code never synchronises a directory), and of a file's bytes   *)
(* only those that sync_all returned for are sure to survive.              *)
(*                                                                         *)
(* A file is named by the output that created it, its contents by how many *)
(* of that output's units it holds.                                        *)
(***************************************************************************)
EXTENDS Naturals, FiniteSets

CONSTANTS
    Output,         \* the TransactionalOutput values ever created
    Process,        \* processes: each is one run of the program
    ProcessOf,      \* [Output -> Process]
    Pid,            \* process ids
    PidOf,          \* [Process -> Pid]: ids are reused, and shared by containers
    Destination,    \* destination files
    Stdio,          \* the destination "-" or "stdio"
    DestinationOf,  \* [Output -> Destination \cup {Stdio}]
    Stem,           \* parent directory and stem of a temporary name
    StemOf,         \* [Destination \cup {Stdio} -> Stem], not always injective:
                    \* names that are not UTF-8 share the stem "muenc-output"
    Original,       \* the file a destination held before any of the runs
    Missing,        \* no such directory entry
    MaxAttempts,    \* 100 in the code
    MaxSequence,    \* bound: values TEMP_COUNTER takes in one process
    MaxUnits,       \* bound: units the caller writes to one output
    MaxPowerLosses  \* bound: power losses in a behaviour

TempName == [stem: Stem, pid: Pid, sequence: 0 .. MaxSequence - 1]
Name == Destination \cup TempName
Content == Output \cup {Original, Missing}

ASSUME ConstantsAssumption ==
    /\ ProcessOf \in [Output -> Process]
    /\ PidOf \in [Process -> Pid]
    /\ DestinationOf \in [Output -> Destination \cup {Stdio}]
    /\ StemOf \in [Destination \cup {Stdio} -> Stem]
    /\ MaxAttempts \in Nat \ {0}
    /\ MaxSequence \in Nat
    /\ MaxUnits \in Nat
    /\ MaxPowerLosses \in Nat

ASSUME SentinelsAssumption ==
    /\ Stdio \notin Destination
    /\ Original \notin Output
    /\ Missing \notin Output
    /\ Original # Missing

\* No destination is itself called like a temporary file, ".<stem>.<pid>.<n>.tmp".
ASSUME NamesAssumption == Destination \cap TempName = {}

VARIABLES
    pc,           \* pc[o]: where output o is in new, write, commit or drop
    attempts,     \* attempts[o]: iterations of the loop in new
    path,         \* path[o]: temporary_path, once a name was formed
    tempCounter,  \* tempCounter[p]: the static TEMP_COUNTER of process p
    accepted,     \* accepted[o]: units the caller wrote
    cached,       \* cached[o]: of these, in the file as other readers see it
    durable,      \* durable[o]: of these, sure to survive a power loss
    source,       \* source[o]: the file commit reopened to copy it to stdout
    emitted,      \* emitted[o]: units stdout has received
    dir,          \* dir[n]: the file that name n refers to
    mayHold,      \* mayHold[n]: what dir[n] may be after a power loss now
    powerLosses

control == <<pc, attempts, path, tempCounter>>
data == <<accepted, cached, durable>>
stdout == <<source, emitted>>
disk == <<dir, mayHold, powerLosses>>
vars == <<control, data, stdout, disk>>

NoPath == Missing
Holding == {"writing", "sync", "rename", "reopen", "copy", "flushStdout",
            "unlink", "drop"}
Terminal == {"ok", "err", "killed"}
Location == {"idle", "fetch", "open", "committed"} \cup Holding \cup Terminal

IsStdio(o) == DestinationOf[o] = Stdio
Started(p) == \E o \in Output : ProcessOf[o] = p /\ pc[o] # "idle"
Whole(o) == durable[o] = accepted[o] /\ cached[o] = accepted[o]

-----------------------------------------------------------------------------
Init ==
    /\ pc = [o \in Output |-> "idle"]
    /\ attempts = [o \in Output |-> 0]
    /\ path = [o \in Output |-> NoPath]
    /\ tempCounter = [p \in Process |-> 0]
    /\ accepted = [o \in Output |-> 0]
    /\ cached = [o \in Output |-> 0]
    /\ durable = [o \in Output |-> 0]
    /\ source = [o \in Output |-> Missing]
    /\ emitted = [o \in Output |-> 0]
    /\ dir \in [Name -> {Original, Missing}]
    /\ \A n \in TempName : dir[n] = Missing
    /\ mayHold = [n \in Name |-> {dir[n]}]
    /\ powerLosses = 0

Goto(o, location) == pc' = [pc EXCEPT ![o] = location]

\* Names change to the files given by entry; both the old and the new file of
\* a name may be found there after a power loss.
Rewrite(entry) ==
    /\ dir' = entry
    /\ mayHold' = [n \in Name |-> mayHold[n] \cup {entry[n]}]
    /\ UNCHANGED powerLosses

-----------------------------------------------------------------------------
(* Mistakes that each property is tested against: every operator here is   *)
(* the action its comment names, gone wrong. Next uses none of them.       *)

\* FetchSequence: the loop tries the same name again, and does not count.
FetchSameSequence(o) ==
    /\ pc[o] = "fetch"
    /\ path' = [path EXCEPT ![o] = [stem |-> StemOf[DestinationOf[o]],
                                    pid |-> PidOf[ProcessOf[o]], sequence |-> 0]]
    /\ Goto(o, "open")
    /\ UNCHANGED <<attempts, tempCounter, data, stdout, disk>>

\* OpenTemporary: create(true) in place of create_new(true).
OpenExisting(o) ==
    /\ pc[o] = "open"
    /\ Rewrite([dir EXCEPT ![path[o]] = o])
    /\ Goto(o, "writing")
    /\ UNCHANGED <<attempts, path, tempCounter, data, stdout>>

\* OpenCollides: no limit on the attempts.
RetryForever(o) ==
    /\ pc[o] = "open"
    /\ dir[path[o]] # Missing
    /\ Goto(o, "fetch")
    /\ UNCHANGED <<attempts, path, tempCounter, data, stdout, disk>>

\* OpenCollides: the value is built, and so dropped, before the file is opened.
DropOnCollision(o) ==
    /\ pc[o] = "open"
    /\ dir[path[o]] # Missing
    /\ Goto(o, "drop")
    /\ UNCHANGED <<attempts, path, tempCounter, data, stdout, disk>>

\* Flush: commit synchronises the file without flushing the BufWriter.
NoFlush(o) ==
    /\ pc[o] = "writing"
    /\ Goto(o, "sync")
    /\ UNCHANGED <<attempts, path, tempCounter, data, stdout, disk>>

\* Sync: flush only, no sync_all.
NoSync(o) ==
    /\ pc[o] = "sync"
    /\ Goto(o, IF IsStdio(o) THEN "reopen" ELSE "rename")
    /\ UNCHANGED <<attempts, path, tempCounter, data, stdout, disk>>

\* Rename: committed is not set.
RenameThenDrop(o) ==
    /\ pc[o] = "rename"
    /\ dir[path[o]] # Missing
    /\ Rewrite([dir EXCEPT ![DestinationOf[o]] = dir[path[o]],
                           ![path[o]] = Missing])
    /\ Goto(o, "drop")
    /\ UNCHANGED <<attempts, path, tempCounter, data, stdout>>

\* CopyEnds: stdout is not flushed.
NoFlushStdout(o) ==
    /\ pc[o] = "copy"
    /\ Goto(o, "unlink")
    /\ UNCHANGED <<attempts, path, tempCounter, data, stdout, disk>>

\* StdoutFails: an error of the copy is ignored.
StdoutErrorIgnored(o) ==
    /\ pc[o] \in {"copy", "flushStdout"}
    /\ Goto(o, "unlink")
    /\ UNCHANGED <<attempts, path, tempCounter, data, stdout, disk>>

-----------------------------------------------------------------------------
(* new: draw a sequence number, try to create that name, and again.        *)

Start(o) ==
    /\ pc[o] = "idle"
    /\ Goto(o, "fetch")
    /\ UNCHANGED <<attempts, path, tempCounter, data, stdout, disk>>

FetchSequence(o) ==
    LET p == ProcessOf[o] IN
    /\ pc[o] = "fetch"
    /\ tempCounter[p] < MaxSequence
    /\ tempCounter' = [tempCounter EXCEPT ![p] = @ + 1]
    /\ attempts' = [attempts EXCEPT ![o] = @ + 1]
    /\ path' = [path EXCEPT ![o] = [stem |-> StemOf[DestinationOf[o]],
                                    pid |-> PidOf[p],
                                    sequence |-> tempCounter[p]]]
    /\ Goto(o, "open")
    /\ UNCHANGED <<data, stdout, disk>>

\* create_new(true): one call that checks for the name and creates it.
OpenTemporary(o) ==
    /\ pc[o] = "open"
    /\ dir[path[o]] = Missing
    /\ Rewrite([dir EXCEPT ![path[o]] = o])
    /\ Goto(o, "writing")
    /\ UNCHANGED <<attempts, path, tempCounter, data, stdout>>

OpenCollides(o) ==
    /\ pc[o] = "open"
    /\ dir[path[o]] # Missing
    /\ Goto(o, IF attempts[o] < MaxAttempts THEN "fetch" ELSE "err")
    /\ UNCHANGED <<attempts, path, tempCounter, data, stdout, disk>>

\* Any other error ends new: there is no value yet that could be dropped.
OpenFails(o) ==
    /\ pc[o] = "open"
    /\ Goto(o, "err")
    /\ UNCHANGED <<attempts, path, tempCounter, data, stdout, disk>>

-----------------------------------------------------------------------------
(* write, through a BufWriter that passes on any part of what it holds.    *)

Spill(o, limit) ==
    \E n \in cached[o] .. limit : cached' = [cached EXCEPT ![o] = n]

Write(o) ==
    /\ pc[o] = "writing"
    /\ accepted[o] < MaxUnits
    /\ accepted' = [accepted EXCEPT ![o] = @ + 1]
    /\ Spill(o, accepted[o] + 1)
    /\ UNCHANGED <<control, durable, stdout, disk>>

\* A write fails, or the caller returns early (a failed authentication, say):
\* either way the value is dropped without commit.
Abandon(o) ==
    /\ pc[o] = "writing"
    /\ Spill(o, accepted[o])
    /\ Goto(o, "drop")
    /\ UNCHANGED <<attempts, path, tempCounter, accepted, durable, stdout, disk>>

-----------------------------------------------------------------------------
(* commit. It consumes the value, so that every early return drops it.     *)

Flush(o) ==
    /\ pc[o] = "writing"
    /\ cached' = [cached EXCEPT ![o] = accepted[o]]
    /\ Goto(o, "sync")
    /\ UNCHANGED <<attempts, path, tempCounter, accepted, durable, stdout, disk>>

\* The writer is dropped with the error and tries once more to write.
FlushFails(o) ==
    /\ pc[o] = "writing"
    /\ Spill(o, accepted[o])
    /\ Goto(o, "drop")
    /\ UNCHANGED <<attempts, path, tempCounter, accepted, durable, stdout, disk>>

Sync(o) ==
    /\ pc[o] = "sync"
    /\ durable' = [durable EXCEPT ![o] = cached[o]]
    /\ Goto(o, IF IsStdio(o) THEN "reopen" ELSE "rename")
    /\ UNCHANGED <<attempts, path, tempCounter, accepted, cached, stdout, disk>>

SyncFails(o) ==
    /\ pc[o] = "sync"
    /\ Goto(o, "drop")
    /\ UNCHANGED <<attempts, path, tempCounter, data, stdout, disk>>

Rename(o) ==
    /\ pc[o] = "rename"
    /\ dir[path[o]] # Missing
    /\ Rewrite([dir EXCEPT ![DestinationOf[o]] = dir[path[o]],
                           ![path[o]] = Missing])
    /\ Goto(o, "committed")
    /\ UNCHANGED <<attempts, path, tempCounter, data, stdout>>

RenameFails(o) ==
    /\ pc[o] = "rename"
    /\ Goto(o, "drop")
    /\ UNCHANGED <<attempts, path, tempCounter, data, stdout, disk>>

Reopen(o) ==
    /\ pc[o] = "reopen"
    /\ dir[path[o]] # Missing
    /\ source' = [source EXCEPT ![o] = dir[path[o]]]
    /\ Goto(o, "copy")
    /\ UNCHANGED <<attempts, path, tempCounter, data, emitted, disk>>

ReopenFails(o) ==
    /\ pc[o] = "reopen"
    /\ Goto(o, "drop")
    /\ UNCHANGED <<attempts, path, tempCounter, data, stdout, disk>>

\* io::copy: what it wrote may have reached the reader or still be in the
\* buffer of stdout.
CopyPart(o) ==
    /\ pc[o] = "copy"
    /\ emitted[o] < cached[source[o]]
    /\ emitted' = [emitted EXCEPT ![o] = @ + 1]
    /\ UNCHANGED <<control, data, source, disk>>

CopyEnds(o) ==
    /\ pc[o] = "copy"
    /\ Goto(o, "flushStdout")
    /\ UNCHANGED <<attempts, path, tempCounter, data, stdout, disk>>

FlushStdout(o) ==
    /\ pc[o] = "flushStdout"
    /\ emitted' = [emitted EXCEPT ![o] = cached[source[o]]]
    /\ Goto(o, "unlink")
    /\ UNCHANGED <<attempts, path, tempCounter, data, source, disk>>

StdoutFails(o) ==
    /\ pc[o] \in {"copy", "flushStdout"}
    /\ Goto(o, "drop")
    /\ UNCHANGED <<attempts, path, tempCounter, data, stdout, disk>>

Unlink(o) ==
    /\ pc[o] = "unlink"
    /\ dir[path[o]] # Missing
    /\ Rewrite([dir EXCEPT ![path[o]] = Missing])
    /\ Goto(o, "committed")
    /\ UNCHANGED <<attempts, path, tempCounter, data, stdout>>

UnlinkFails(o) ==
    /\ pc[o] = "unlink"
    /\ Goto(o, "drop")
    /\ UNCHANGED <<attempts, path, tempCounter, data, stdout, disk>>

\* committed = true, so that drop does nothing, and Ok(()).
Return(o) ==
    /\ pc[o] = "committed"
    /\ Goto(o, "ok")
    /\ UNCHANGED <<attempts, path, tempCounter, data, stdout, disk>>

-----------------------------------------------------------------------------
(* Drop of a value that was not committed.                                 *)

DropRemoves(o) ==
    /\ pc[o] = "drop"
    /\ dir[path[o]] # Missing
    /\ Rewrite([dir EXCEPT ![path[o]] = Missing])
    /\ Goto(o, "err")
    /\ UNCHANGED <<attempts, path, tempCounter, data, stdout>>

\* The result of remove_file is ignored.
DropLeaves(o) ==
    /\ pc[o] = "drop"
    /\ Goto(o, "err")
    /\ UNCHANGED <<attempts, path, tempCounter, data, stdout, disk>>

-----------------------------------------------------------------------------
(* The environment.                                                        *)

\* A signal or a panic (Cargo.toml: panic = "abort") ends process p: nothing
\* is dropped.
Kill(p) ==
    /\ Started(p)
    /\ \E o \in Output : ProcessOf[o] = p /\ pc[o] \notin Terminal
    /\ pc' = [o \in Output |->
                IF ProcessOf[o] = p /\ pc[o] \notin Terminal THEN "killed" ELSE pc[o]]
    /\ UNCHANGED <<attempts, path, tempCounter, data, stdout, disk>>

\* Every process that had started is gone; the others run after the restart.
PowerLoss ==
    /\ powerLosses < MaxPowerLosses
    /\ powerLosses' = powerLosses + 1
    /\ pc' = [o \in Output |->
                IF Started(ProcessOf[o]) /\ pc[o] \notin Terminal THEN "killed" ELSE pc[o]]
    /\ \E entry \in [Name -> Content] :
          /\ \A n \in Name : entry[n] \in mayHold[n]
          /\ dir' = entry
          /\ mayHold' = [n \in Name |-> {entry[n]}]
    /\ \E kept \in [Output -> 0 .. MaxUnits] :
          /\ \A o \in Output : durable[o] <= kept[o] /\ kept[o] <= cached[o]
          /\ durable' = kept
          /\ cached' = kept
    /\ UNCHANGED <<attempts, path, tempCounter, accepted, stdout>>

New(o) ==
    Start(o) \/ FetchSequence(o) \/ OpenTemporary(o) \/ OpenCollides(o) \/ OpenFails(o)
Use(o) == Write(o) \/ Abandon(o)
Commit(o) ==
    \/ Flush(o) \/ FlushFails(o) \/ Sync(o) \/ SyncFails(o)
    \/ Rename(o) \/ RenameFails(o)
    \/ Reopen(o) \/ ReopenFails(o) \/ CopyPart(o) \/ CopyEnds(o)
    \/ FlushStdout(o) \/ StdoutFails(o) \/ Unlink(o) \/ UnlinkFails(o)
    \/ Return(o)
Drop(o) == DropRemoves(o) \/ DropLeaves(o)

OutputStep(o) == New(o) \/ Use(o) \/ Commit(o) \/ Drop(o)
Finished == (\A o \in Output : pc[o] \in Terminal) /\ UNCHANGED vars

Next ==
    \/ \E o \in Output : OutputStep(o)
    \/ \E p \in Process : Kill(p)
    \/ PowerLoss
    \/ Finished

Spec == Init /\ [][Next]_vars

\* A thread that is running is scheduled again and its system calls return.
\* Nothing forces a run to start, a process to die or the power to fail.
Fairness == \A o \in Output : WF_vars(pc[o] # "idle" /\ OutputStep(o))
FairSpec == Spec /\ Fairness

-----------------------------------------------------------------------------
(* Properties                                                              *)

TypeOK ==
    /\ pc \in [Output -> Location]
    /\ attempts \in [Output -> 0 .. MaxAttempts]
    /\ path \in [Output -> TempName \cup {NoPath}]
    /\ \A o \in Output : pc[o] \in Holding \cup {"open"} => path[o] \in TempName
    /\ \A o \in Output : pc[o] \in {"idle", "fetch"} => attempts[o] < MaxAttempts
    /\ tempCounter \in [Process -> 0 .. MaxSequence]
    /\ accepted \in [Output -> 0 .. MaxUnits]
    /\ cached \in [Output -> 0 .. MaxUnits]
    /\ durable \in [Output -> 0 .. MaxUnits]
    /\ \A o \in Output : durable[o] <= cached[o] /\ cached[o] <= accepted[o]
    /\ source \in [Output -> Content]
    /\ emitted \in [Output -> 0 .. MaxUnits]
    /\ dir \in [Name -> Content]
    /\ mayHold \in [Name -> SUBSET Content]
    /\ powerLosses \in 0 .. MaxPowerLosses

\* While an output lives, its temporary name refers to its own file, whatever
\* processes with the same pid, or left-over temporaries, are around: what
\* commit renames or copies, and drop removes, is never somebody else's file
\* (io.rs: create_new in new, remove_file in commit and drop).
OwnsTemporary ==
    \A o \in Output : pc[o] \in Holding => dir[path[o]] = o

\* An output that a destination refers to, or may refer to after a power loss,
\* is there with every unit the caller wrote, and on stable storage: no reader
\* and no crash ever sees part of a result (io.rs, "exposes the result only
\* after all crypto operations succeed"; README, "temporary files").
DestinationWhole ==
    \A d \in Destination, o \in Output : o \in mayHold[d] => Whole(o)

\* An output for which commit did not get as far as the rename, in particular
\* every one that reports an error, is at no destination, nor can a power loss
\* put it there (README, "preserve existing outputs on failure").
OnlyCommittedReachDestination ==
    \A d \in Destination, o \in Output :
        o \in mayHold[d] => /\ pc[o] \in {"committed", "ok", "killed"}
                            /\ DestinationOf[o] = d

\* The first unit on stdout is sent after the last one was written and synced,
\* and all of it is the output's own: a result that fails to authenticate sends
\* nothing, and a process cannot send another one's data (README, "before
\* publishing plaintext, including stdout").
StdoutOnlyWholeResults ==
    \A o \in Output :
        emitted[o] > 0 => IsStdio(o) /\ Whole(o) /\ source[o] = o

\* commit returns Ok only when the result is delivered: stdout has all of it, or
\* the file at the destination is a result of one of the runs, this one's or a later
\* one's (whole, by DestinationWhole). And it leaves no temporary. Only a power loss
\* could undo either (io.rs, commit).
OkDelivers ==
    \A o \in Output : pc[o] \in {"committed", "ok"} =>
        /\ IsStdio(o) => emitted[o] = accepted[o]
        /\ powerLosses = 0 /\ ~IsStdio(o) => dir[DestinationOf[o]] \in Output
        /\ powerLosses = 0 => \A n \in TempName : dir[n] # o

\* An existing temporary is only ever removed by the output it belongs to, and
\* then that output ends: no run deletes the file another one is writing.
RemovesOnlyOwn ==
    [][\A n \in TempName, o \in Output :
          dir[n] = o /\ dir'[n] # o /\ powerLosses' = powerLosses
             => pc[o] \in Holding /\ pc'[o] \in {"committed", "err"}]_vars

\* Every output that was started ends: the loop over colliding names is finite,
\* and no failure path waits.
Ends == \A o \in Output : pc[o] = "fetch" ~> pc[o] \in Terminal

-----------------------------------------------------------------------------
(* The promise. A destination that refers to a file without all its units  *)
(* shows "Torn", which no abstract step can produce.                       *)

Torn == "torn"
Seen(content) == IF content \in Output /\ ~Whole(content) THEN Torn ELSE content

AbstractOutcome(o) ==
    CASE pc[o] \in Terminal -> pc[o]
      [] pc[o] = "committed" -> "published"
      [] pc[o] \notin Terminal \cup {"committed"} ->
            IF source[o] = Missing THEN "working" ELSE "sending"

AbstractSent(o) ==
    CASE source[o] = Missing -> "nothing"
      [] source[o] # Missing /\ ~(source[o] = o /\ Whole(o)) -> Torn
      [] source[o] = o /\ Whole(o) ->
            IF emitted[o] = accepted[o] THEN "whole"
            ELSE IF emitted[o] = 0 THEN "nothing" ELSE "part"

Promise == INSTANCE AtomicPublish WITH
    outcome <- [o \in Output |-> AbstractOutcome(o)],
    shown <- [d \in Destination |-> Seen(dir[d])],
    mayShow <- [d \in Destination |-> {Seen(c) : c \in mayHold[d]}],
    sent <- [o \in Output |-> AbstractSent(o)]

\* Every step of new, write, commit, drop and the environment is a step of the
\* promise or invisible in it (io.rs, TransactionalOutput).
KeepsPromise == Promise!Spec
=============================================================================
