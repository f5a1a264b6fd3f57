# A formal model of muenc

muenc encrypts and decrypts files with a key pair. This directory holds TLA+
modules that model the program in `src/src`, the configurations with which TLC
checks them on small instances, and proofs, checked by TLAPS, that the most
important results hold for all instances. `PROJECT.json` says for every
definition which lines of the source it models.

## The system

One run of the program is one thread. It has no server and no messages; what
makes it hard is what it shares with other runs and with the past: directories,
temporary files, a terminal, and files that were written by somebody else.

| Component | State | Operations | Talks to |
|---|---|---|---|
| **TransactionalOutput** (`io.rs`) | a temporary file, its name, the static name counter, the buffered writer | `new`, `write`, `commit`, drop | the file system, shared with every other run; stdout |
| **Decryption stream** (`application.rs`, `decrypt`) | input position, `pending` (read and not decrypted), cipher state, progress | read, feed the cipher, finalize, publish | file format, key files, TransactionalOutput |
| **Encryption stream** (`application.rs`, `encrypt`) | the cipher's state, progress | write the header, feed the cipher, append the tag, publish | file format, registry, TransactionalOutput |
| **Key-pair generation** (`cli.rs`, `application.rs`) | three TransactionalOutputs, the two key files | check for existing keys, prompt, stage, publish twice, roll back | TransactionalOutput, the user |
| **File format** (`file_format.rs`, `crypto/session.rs`, the legacy reader) | a reader's position and buffers | encode a header; read one up to the session | the two streams |
| **Algorithms and key files** (`crypto/registry.rs`, `key_utils.rs`, `algorithms/`) | key files; keys loaded so far | choose a scheme, encapsulate, load private keys, decapsulate | the two streams, openssl |
| **KEM binding** (`crypto/kem.rs`) | an openssl context, secrets that are wiped on drop | encapsulate, decapsulate | openssl |
| **Progress** (`progress.rs`) | a counter, the input's size, what the terminal shows | new, advance, finish, drop | the two streams, the terminal |
| **Command line and default paths** (`cli.rs`, `application.rs`) | none | parse, derive output paths, prompt | the user, all of the above |
| **Errors** (`error.rs`) | none | declarations and messages | |

What is hard in each, and what makes it correct:

* **TransactionalOutput.** Runs that share a process id (reuse, containers on one
  volume) form the same temporary names; runs that were killed leave files behind;
  every system call may fail; the power may fail, and no directory is ever
  synchronised. Correct means: a destination is replaced by a whole result or not at
  all, stdout gets nothing of a result that was not complete, nobody touches the
  temporary file of another output, and `new` gives up in the end.
* **Decryption stream.** Reads have any size, also smaller than the tag; plaintext is
  written before it is authenticated. Correct means: the cipher sees the body in order
  and never the tag, only an authentic file is published, a genuine one is never
  blamed, and no slice is out of range (the release build aborts on a panic and leaves
  the temporary file).
* **Encryption stream.** Whatever is read, in pieces of any size, while the file may grow or
  shrink; the tag exists only at the end. Correct means: what was published can be decrypted to
  what was read, by the holder of the key and by nobody else; the percentage that
  the terminal is told never falls nor passes 100, and it is left clean on every path.
* **Key-pair generation.** A pair is two files with two renames. Correct means: both
  or neither, or an error that says so; no key that is in use is lost to a kill
  between them; keys are replaced only as authorised.
* **File format.** Every length comes from a stored file, before anything is
  authenticated. Correct means: what was written is read back, every byte that
  decides anything is authenticated, no length is trusted, a cut header never gets
  a session.
* **Key files.** A file is a sequence of PEM blocks that is looked at several times, by
  functions that need not agree. Correct means: a file is used as a whole or refused,
  pairs round trip, openssl is never in a position to prompt by itself.
* **Key agreement and `kem.rs`.** openssl is asked for sizes that are upper bounds, each call may
  fail while secrets are in memory, a changed ciphertext decapsulates without an error. Correct
  means: both sides derive one key exactly if nothing was changed, and no secret that is promised to
  be overwritten stays in freed memory.
* **Default paths.** They are made of what a path is displayed as, which need not be the path.

`PROJECT.json` lists these hazards one by one, each at the line where it bites and with
the properties that would catch it.

## The modules

| Module | Models |
|---|---|
| `TransactionalOutput` | `new`, `write`, `commit` and drop, for several processes on one file system |
| `AtomicPublish` | what TransactionalOutput promises its callers |
| `TransactionalOutput_proofs` | proofs |
| `DecryptStream` | one run of `decrypt`, from the private key to the published plaintext |
| `DecryptStream_proofs` | proofs |
| `DefaultPaths` | the output paths of a run without `--output` |
| `EncryptStream` | one run of `encrypt`, from the public key to the published file, and the progress it shows |
| `EncryptStream_proofs` | proofs |
| `SealedStore` | what the program promises as a whole |
| `RoundTrip` | a run of `EncryptStream`, then one of `DecryptStream` on the file it left, as `SealedStore` |
| `RoundTrip_proofs` | proofs |
| `KeyAgreement` | `encapsulate` and `decapsulate` of the X25519 and the hybrid scheme, with the calls and buffers of `kem.rs` |
| `KeyAgreement_proofs` | proofs |
| `GenerateKeypair` | runs of `muenc generate` in one directory |
| `GenerateKeypair_proofs` | proofs |
| `FileFormat` | encoding a header, and reading a stored one up to the session |
| `FileFormat_proofs` | proofs |
| `KeyFiles` | choosing a scheme from a public-key file, opening a file with a private-key file |
| `KeyFiles_proofs` | proofs |
| `MC...` | the instances that TLC checks |

Each module that is checked has a section *Mistakes*: operators that are actions or
helpers of the module gone wrong in a plausible way. The specification uses none of
them. Put in the place of the right one, each makes a property fail in its run, which
shows that the property watches that code (`PROJECT.json`, `mutants`).

### TransactionalOutput

Each member of `Output` is one value of the type, in the process `ProcessOf`. `pc` is
where it is: `fetch` and `open` are the loop of `new`, `writing` is the time in which the
caller writes, `sync` to `unlink` are the calls of `commit`, `drop` is the destructor. One
system call is one action, and its failure is another (`SyncFails`, `RenameFails`, ...).
`tempCounter` is the static `TEMP_COUNTER` of a process.

The file system is external, and modelled as weak as the code may meet it. `dir` is the
directory as running processes see it. `mayHold[n]` is what name `n` may refer to after a
power loss: anything it did since the last one, each entry by itself, because no
directory is synchronised. A file's contents are counted in units: `accepted` by `write`,
`cached` as other readers see them, `durable` once `sync_all` returned. `Kill` ends a
process; `PowerLoss` ends all that run and picks from `mayHold`.

`AtomicPublish` has no temporary files, names or buffers: a result is shown at its
destination in one step, or sent to stdout in pieces that only grow, or the run fails
with nothing shown. `KeepsPromise` is the refinement. It maps a destination whose file
lacks some of its units to `Torn`, and stdout that got anything but the output's own
whole file likewise; no abstract step makes these. The other modules rely on this promise
and model `commit` as one step that succeeds or fails.

### DecryptStream

`input` is the stored file and its circumstances: the body, the body that was sealed with its header and
key (`sealed`, which nobody knows but the cipher), whether header and key are these (`genuine`), whether its methods are known (`supported`), whether
it is a legacy file (`legacy`), whether the key recovers any data key of it (`recovers`), whether the
key is locked, whether stdin or stdout is used. A key that recovers none ends the run with `AuthenticationFailed` in
`PrepareDecryption`, before a part of the body is read: a wrong RSA key, or a public X25519 key of low order. A wrong key
of the other schemes makes a data key of its own, and only the tag shows it. A legacy file is still read there, so an I/O error may end it.
`pc` follows the calls of `decrypt` in their
order. `Read` takes any number of units from one to the buffer's size; `HoldBack` and
`Decrypt` are the rest of the loop's body, with the slice that could panic. `fed` is what the
cipher was given. The cipher is external: `Accepts` is true of the sealed body under the key
and header it was sealed with, and of nothing else.

### EncryptStream, DefaultPaths

`request` is what a run is asked for and finds: the two paths, the size that `open_input` was told and
whether stderr is a terminal. The plaintext is not given beforehand: each `Read` returns any units, and
`ReadEnds` ends it anywhere, so that the file may be shorter or longer than its size. `consumed` is all
that was read and `enciphered` what the cipher was given of it. The cipher, external, makes one unit of each, which knows
its position, may keep back less than a block of them (`held`) until `Finalize`, and then has a tag that
knows all units. `indicator` is the state and the percentage of the last OSC 9;4 sequence that went to the terminal.

A path is a stem and its suffixes; `Displayed` maps a stem that is not UTF-8 to the one it is shown as.

### RoundTrip, SealedStore

`Protect` is a step of `encrypt`. `Start` takes what its destination has, lets at most one thing be wrong
with it (the body is cut, changed or extended; the header, the method or the key is another one), and
starts `decrypt` on it, to the default path or to stdout. With another header or key there may be no data key to recover,
and another header may be taken for a legacy one. `Restore` is a step of `DecryptStream`, whose
`input.sealed` is `Sealing` of the plaintext. `Junk` is a unit that no encryption made. A copy to stdout that failed halfway also is a file that somebody
may have kept (`Sent`).

`SealedStore` keeps one thing, a plaintext and its path, and gives it back once, unchanged, or a
part of it if the receiver is stdout. `KeepsOrRefuses` is the refinement: what is kept is what was *read*, once the
whole file is published, and what is given is what `decrypt` published and where. Under it, nothing may be given
that was not kept: a damaged, partial or foreign file must be refused.

### KeyAgreement

`Route` lists the calls of a scheme and role in the order of the code, and each action is one of them. A
buffer is what it holds, its length and its capacity, and whether it is a `SecretBytes`; `KemSize` allocates by what a query
answers, up to `MaxExcess` more than the result needs, `KemRun` fills and truncates. `Return` ends a role
on every path and drops what is left; `residue` collects the secrets whose memory was freed as it was. Between the
roles, `Deliver` may change the key material, or hand it to the holder of other keys. `dataKey` is the
symbolic input of HKDF: a change anywhere is another key.

### GenerateKeypair

A key is named by the run that generated it, so `public = r` and `private = r` say that the
two files hold a pair. `held` are the outputs a run still owns and `files` their temporary
files, which may outlive them. `Checking` are the steps of `cli.rs`, `Publishing` those of
`generate_keypair`; an early return goes through `unwind`, where values are dropped one by one
and each removal may fail. `Concurrent` says whether runs may overlap; `before` and `overlapped` are history.
`InPublication` is the time from the look at the previous public key to the last rename.

### FileFormat

A byte is a digit to the base `Base` (256 in the program). `EncodeVersionedHeader` writes
with the casts of the code, which drop high digits. The reader goes from buffer to buffer:
`buffer` is the length of the one that `read_exact` fills next, `position` how much was read.
`Stored` is what may become of a file: any prefix, or any one byte changed. A legacy file has
no lengths; there the RSA key that is tried says how much is read (`rsaSize`), and it may be of another size than the one
that the file was written for (`LegacyKeySize`). `Unwraps`, external, is true of what was wrapped for that key.
`MaterialFits` says when key material of a versioned file has the size and form that its scheme requires.

### KeyFiles

A key file is its blocks, and whether text is left behind the last of them (`rest`), which `pem_blocks`
returns as one more block. A block is its type, its owner and, for a private key, the passphrase that locks it. `PemBlocks`, `IsEncrypted` and
`Parses` are the three ways in which the code looks at a file. A data key is told apart by the
public keys it was established from (`sealed`): another private key recovers another one, with
an error at once for RSA (`RecoverRsa`), and without one for key agreement and ML-KEM, where
only the body's tag shows it (`Authenticate`).

## What is checked

| Run | Instance | Shows | States |
|---|---|---|---|
| `output_file` | two processes with one pid, one output each to the same file; 2 attempts, 2 units, 1 power loss | `DestinationWhole`, `OnlyCommittedReachDestination` | 49,000 |
| `output_stdout` | the same, one of the two to stdout | `StdoutOnlyWholeResults`, `OkDelivers`, `Ends`, `KeepsPromise` | 78,000 |
| `output_contention` | three outputs in two processes with one pid and one stem | `TypeOK`, `OwnsTemporary`, `RemovesOnlyOwn` | 758,000 |
| `decrypt` | every body of up to 6 units over 2 values; buffer 3, tag 2, block 1; keys that recover a data key or none | `ChunkIndependent`, `NeverPanics`, `AuthenticatedBeforePublishing`, `BlamesOnlyDamage`, `ProgressExact` | 241,000 |
| `round_trip` | every plaintext of up to 3 units over 2 values; buffer, tag and block 2; seven requests | `KeepsOrRefuses`, `IntactRestored`, `IndicatorHonest` | 260,000 |
| `default_names` | the same | `AppendsEnc` fails (see below) | |
| `key_agreement` | two owners and a low-order key, sizes up to 1 more than needed | `DataKeysAgree`, `SecretsWiped` | 2,300 |
| `keypair_sequential` | three runs one after the other, two with `--force`, kills and failures everywhere | `SuccessPublishesPair`, `FailureRestoresPair`, `RollbackErrorIsAccurate`, `BothPairsRecoverable`, `ReplacesOnlyWithForce` | 238,000 |
| `keypair_concurrent` | three overlapping runs, two with `--force` | `UnforcedSparesOld`, `OrderedPublicationsPair` | 7,597,000 |
| `keypair_race` | two overlapping runs without `--force` | `ReplacesOnlyWithForce` fails (see below) | |
| `file_format` | base 4; a key material of 1 or 17 bytes; a legacy file with a wrapped key of 3, tried with RSA keys of 2, 3 and 5; every truncation and every change of one byte | `AuthenticatesWhatItRead`, `ReadsWhatWasWritten`, `AllocationBounded` | 44,000 |
| `key_files` | all files of up to 2 blocks, with or without text behind, of 2 owners and 2 passphrases, and the generated hybrid ones with a third block | `SealedToWholeFile`, `PairsRoundTrip`, `OpensOnlyForHolder`, `OpensslNeverPrompts`, `ErrorsAreAccurate` | 205,000 |

Every module has one type invariant, checked in one of its runs.

Why these bounds are enough to be interesting:

* `MaxAttempts = 2` with a pid and a stem in common: the first name collides and the second
  is free, or both collide and `new` gives up. `MaxSequence` only bounds the counter of a
  process: it is the number of its outputs times the attempts, so it never stops a run. Two
  units let a file be empty, partial and whole. One power loss is followed by nothing but new
  runs, which see its result as they would an initial state.
* A body of up to 6 units, with a tag of 2 and a buffer of 3: reads smaller and larger than
  the tag, bodies shorter than a tag, the sealed body of 5 cut at every place, extended by one,
  and changed in every way.
* The seven requests of `round_trip`: a file of which less, as much and more is read than its size
  said, one of size 0, one that already ends in `.enc`, one whose name is not UTF-8, and stdin to a
  file and to stdout. Three units, a buffer and a block of 2: reads of one and of two, units that the
  cipher keeps until the next read or until `finalize`, and no input at all.
* An excess of 1 is enough for a buffer whose length, capacity and contents differ.
* In `keypair_concurrent` two runs have `--force`, and the third publishes when it looked at an empty
  directory. So all three may publish, over each other and with stale looks, in any order.
* Two sequential runs are enough for a rollback that must restore what an earlier run
  published; the third comes after a kill between the two renames.
* With base 4 a `u16` ends at 15 and a `u32` at 255: the length 17 of a key
  material does not fit into a `u16`, as 65,537 would not with base 256, and the limits of the three
  lengths are met from both sides. The RSA keys that are tried on the legacy file are smaller than its
  own, its own and larger, so that a reader stops within the wrapped key, or behind it, or finds the file too short.
* Two owners and two passphrases: one right and one wrong of each.

**Deadlock** is checked everywhere: states in which the program has ended have a stuttering
step of their own (`Finished`, `Returned`).

**Fairness** is assumed only for `Ends` of `TransactionalOutput` and for `IntactRestored`. An output that
was started is scheduled again and its system calls return: weak fairness of the steps of one output. The same
for `decrypt`; nothing makes `encrypt` end or anyone start `decrypt`, and no process has to die or
power to fail. In `FairRoundTrip` the fair step excludes I/O errors, so that no run ends only because its disk fails. The code
justifies it: each run is one thread with no locks, and it waits for nothing but its own calls and
the user.

`OrderedPublicationsPair` has a hypothesis that the program does not ensure, as it has no lock: that no two runs
ever were between their backup and their last rename at once (`overlapped`, history). It shows how
little would have to be ensured: checks, prompts and staging may overlap.

### The findings

The README of muenc (`src/README.md`, lines 47-48) says that existing keys require `--force` to replace. The code checks once,
before the passphrase prompt, and `rename` replaces whatever is there when the prompt was
answered. `keypair_race` shows two runs without `--force` in an empty directory, of which the
second replaces the keys the first has published. `keypair_concurrent` shows what does hold when
runs overlap: a run without `--force` never replaces keys that were there before all of them; and
`keypair_sequential`, that the sentence holds of runs that do not overlap.

The README (line 77) says that encryption appends `.enc` to the input path by default. The code appends it to
`input.display()`, where all that is not UTF-8 is replaced. `default_names` shows such an input: its output is
at another path. It follows, though the trace does not show it, that another input that is displayed alike has the same
output, where its file replaces the first. For UTF-8 paths, `KeepsOrRefuses` shows that `decrypt` by default gives the file back where it was.

## What is proved

TLAPS checks the modules `..._proofs`; no step is left open. Each has an inductive invariant
`IInv`, lemmas that each of its parts is kept by every step, and theorems that follow from it.

**TransactionalOutput**, for any number of outputs, processes, destinations, attempts, units and
power losses, however pids and stems are shared. Assumed: `ConstantsAssumption` (the types),
`SentinelsAssumption` (the sentinels are no outputs) and `NamesAssumption` (no destination is itself
called like a temporary file). Proved: `TypeCorrect`, `TemporaryIsOwn`, `DestinationIsWhole`,
`FailureLeavesDestination`, `StdoutIsWhole`, `OkMeansDelivered`, `OnlyTheOwnerRemoves`, and `Implements`, the
refinement of `AtomicPublish`. The properties are not inductive by themselves. That a
destination is whole needs that a file is whole *before* its rename (`WholeAfterSync`: in `rename`
it is durable and complete), that the temporary name renamed is the output's own
(`OwnsTemporary`, which rests on `create_new`), and that a name's present file is among those that
may come back (`MayHoldCurrent`), or a power loss could show what no step had put there. That stdout
gets whole results needs that the file reopened by its path is the output's own (`CopiesOwn`) and that
nothing is written once something was sent (`SendsLate`). `OkDelivers` says that, unless the power
failed, a destination has the result of one of the runs once one of them returned Ok, its own or a later one's
(`Delivered`), and stdout all of it; it needs that all was sent before the
temporary file is removed (`SentBeforeUnlink`), and that a file has one name (`CreatedOnce`). For the
refinement (`RefinesInit`, `RefinesNext`) the actions fall into groups with a lemma each: most of them are
stutters (`HiddenStutters`), `Rename` publishes (`RenamePublishes`), the pieces of the copy send
(`CopySends`), and a kill or a power loss is one (`KillKills`, `PowerLossIsOne`), because whatever may come back after it is whole.

**DecryptStream**, for any bodies, sizes of buffer, tag and block. Assumed: `SizesAssumption` (tag and
buffer not empty) and `BodyAssumption` (bodies are sequences; the sealed ones have a tag). Proved: all of
its safety properties. The heart is `SplitInv`: what the cipher was fed and what is held back make up the
part of the body read so far (`Split`), and between reads exactly the last `TagSize` units are held back
(`Held`). From it follow that slices fit, that progress is exact, and that an accepted body is the
whole sealed one. `Recovered` says that nothing of the body was read unless the key recovered a data key, so that
`NoFalseBlame` tells the two failures of authentication apart. `Counted`, `Authenticated`, `Outcome` and `Asked` carry
the rest from step to step.

**EncryptStream**, for inputs of any length, read in any pieces, and any sizes of block and buffer. Assumed:
`EncryptionAssumption` (the types; buffer, block and tag are not empty; exactly stdin has no size). Proved: `TypeCorrect`; `AllIsSealed`, that a published file is the header and
`Sealing(consumed)`, which in the runs is part of `KeepsOrRefuses`; `HonestIndicator`, an action
property: the percentage never falls nor passes 100, and the indicator is off at the end. It does not say that 100 means the
end: of a file that grew, it is shown before. `ReadInOrder` says that what was enciphered and the piece in hand are all that was consumed, in
order; `FileIs`, that the file and what the cipher holds back are the header and what was enciphered;
`Tells`, that the indicator is that of a count no larger than the present one, and off outside of the loop.

**RoundTrip**, for inputs of any length, read in any pieces on both sides, any sizes, and any damage or wrong key in
between. Assumed, besides what `EncryptStream` assumes: `SentinelAssumption` (`Nothing` is not a thing that can be kept,
`Junk` is not a unit that encryption makes); what `DecryptStream` assumes of its bodies is proved of what
`EncryptStream` makes (`DecryptionAssumptions`). Proved: `RoundTripKeeps`, the refinement of `SealedStore`, and
`RoundTripEncrypts`, that the theorems of `EncryptStream` hold in the composition. `RoundTripInv` joins the invariants of the two streams, whose proofs
are used as they are: before `Start` the variables of `decrypt` have their first values; after it
`encrypt` has ended, the sealed body is `Sealing` of what was enciphered, and only the body of a whole published file
equals it. The last part is where the damage matters: what was cut, changed or extended differs from what was sealed (`DamageShows`),
and the body of a copy that stopped halfway is too short (`BodyOf`). So a `decrypt` that publishes anything
publishes what was kept, of the right length (`GivesKept`), and a displayed path gives its input back if it was UTF-8 (`PathRestored`).
`IntactIsAccepted` is the other direction: a published file that nobody touched is never refused for what it is
(`IntactAccepted`). It is what of `IntactRestored` is safety.

**GenerateKeypair**, for any number of runs. Assumed: `RunsAssumption` (the types) and
`SentinelsAssumption` (the key that is there before, and there being none, are no run's). `IInv` holds of runs that overlap in whatever way: which outputs a run holds follows from where it is
(`HeldAsDeclared`), either the public key of the start is gone for good, or there always is a public key
(`PublicNeverVanishes`), so that a run without `--force` past its checks is in a directory where the old keys were not
(`UnforcedFoundNone`), and while publications are one after
the other, what a rollback would leave is settled already
(`PublishesAlone`). From it: `TypeCorrect`, `OrderedPublications`, `UnforcedSpares`. For runs that do not overlap, which the
theorems state as the hypothesis `~Concurrent`, `SInv` says more: at most one run has begun and not ended
(`OneAtATime`), its key is nowhere before it publishes (`FreshKey`), the two files are, at each of its steps, those that it
found or its own (`FilesFollow`), without `--force` it found none (`UnforcedStartsEmpty`), and what a rollback may
put back was itself recoverable (`FoundRecoverable`).
`KilledRunLosesNothing` is about kills: it exempts the new private key when the run returned an error, and the old public key when it
reported that it could not roll back, as these may be lost then.
From both: `KilledRunLosesNothing`, `SuccessIsAPair`, `FailureRestores`, `RollbackErrorAccurate` and
`ReplacingNeedsForce`. Without `~Concurrent` the last one is refuted by `keypair_race`.

**FileFormat**, for any base, limits, magic and stored files. Assumed: `FormatAssumption` (the types; the RSA keys tried have any sizes),
`WidthAssumption` (the IDs and sizes of the program's own methods fit their fields),
`HeaderAssumption` (headers written are of those methods, their key material and nonce within the limits that `EncryptionSession`
checks) and `StoredAssumption` (bytes are bytes; a legacy file is laid out as one).
Proved: `TypeCorrect`, `EveryByteAuthenticated`, `AllocationsBounded`, `WrittenIsRead`. `Located` says that what has been
put together so far is, byte by byte, what was read so far; the preamble is the interesting case, as the
code writes it anew in place of the one it read. `Limited` keeps the lengths that were validated validated. `WrittenIsRead` says of a file that
starts with what was written that it is read as that, and is refused for its format in one case: a legacy file that is too
short for the larger RSA key that is tried. And a file that was cut within its header never gets a session. For
it, `Follows` says where the reader is in a file that starts with what was written, with all that
it read so far decoded to the header's fields. It rests on arithmetic that is proved first: a number below
`Base^2` or `Base^4` is what is read back from its digits (`FromTo16`, `FromTo32`), which is where the limits are
needed, and what each slice of an encoded header is (`HeaderLayout`).

**KeyFiles**, for any sets of key files, with any number of blocks, any owners and passphrases. Assumed:
`KeyFileAssumption` (files are made of blocks; the sentinels are no values). Proved: all of its
properties. `IInv` has one part for each value that a run keeps, and says what it was computed from: `SelectedIs`, `SealedIs`,
`MethodIs`, `PromptedIs`, `LoadedIs` (the keys loaded so far are the blocks of the file, of the types asked for, unlocked by what
was typed), `OpenedIs`, `ErrorIs`. `OpensslNeverPrompts` then needs that the scan for locked blocks
saw every block that is loaded.

**KeyAgreement**, for any owners, sizes and excess. Assumed: `AgreementAssumption` (no size is zero; the low-order point is no owner's) and
`NoneAssumption` (there being no material is not a material). Proved: all of its properties. `Places` says
which call of which route a role is at, `BuffersWipe` that the buffers of the hybrid scheme are all `SecretBytes`, and `KemHeld`,
`AgreedHeld` and `InputHeld` which buffers hold what at each call: a buffer that was truncated still has the
secret within its capacity, and one to be derived from has nothing but it. `MaterialIs` and `DerivedFrom` say what the
material and the data keys were made of, from which they agree exactly if their inputs do; `KeysAgree` also says that with a public key of low order neither
side derives one.

`PromptsOnlyWhenNeeded` of `DecryptStream`, that the user is asked at most once and only for a locked key and a supported
file, is proved (`PromptsRarely`) and in no run.

**Only model-checked**: liveness (`Ends`, `IntactRestored`), which under fairness is out of the prover's reach. `AppendsEnc`,
and `ReplacesOnlyWithForce` for runs that overlap, do not hold. That no instance is empty, that is, that the
invariants hold of states in which something happens, is what the runs and their mutants show.

## What is abstracted

* The cipher is ideal: it accepts exactly what was sealed. Keys are told apart by owner, and a
  wrong passphrase never parses.
* The file system: `rename` is atomic, `create_new` is exclusive, entries survive a power loss one
  by one. A file name's text is left out, except for what may make two names equal.
* `TEMP_COUNTER` and the progress counter are `u64` and never wrap. `exists()` answers truthfully,
  also where the code takes an error for "no".
* openssl parses the first private block of a file it is given. Text outside of blocks does not
  contain the word `ENCRYPTED`.
* X25519 and ML-KEM are ideal: an agreement tells points apart (and not their encodings), a
  decapsulation tells ciphertexts and keys apart, HKDF all its inputs. `X25519` by itself keeps its
  shared secret and every scheme its data key in a plain `Vec`, which nobody promises to overwrite;
  `SecretsWiped` is about what is put into `SecretBytes`.
* A run that is killed does not clear the terminal, nor overwrite its secrets; `EncryptStream` and `KeyAgreement` have no
  kill. What it leaves on disk is in `TransactionalOutput` and `GenerateKeypair`.
* The name `stdio`, in any case, means stdin or stdout, also when a file is called so; an output
  `stdio.enc` is a file, and its default for decryption stdout again. The model has this as it is.

### Not modelled

* `error.rs`, `lib.rs`, `main.rs`: declarations, the text of messages, the exit code. The errors a run can
  return are values in the models.
* Argument parsing is clap's; the default directory of keys is the user's home and one name.
* The text of a progress line is layout. Only what the terminal's indicator is told is modelled.
* RSA, the generation of keys and the encoding of PEM blocks are openssl's.

## Plan

Done: all components with state of their own, the composition of the two streams, two abstract specifications,
and proofs of all safety properties that hold, both refinements included.

Left: `DefaultPaths` has no state, and its results are proved only as far as `RoundTrip` needs them (`PathRestored`). The
composition of `KeyFiles` and `KeyAgreement` with the streams is by their promises (`genuine`, `supported`),
and not a module.
