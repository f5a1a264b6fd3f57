---------------------------- MODULE EncryptStream ----------------------------
(***************************************************************************)
(* encrypt (src/src/application.rs): one run of encryption, from the       *)
(* public key to the published file, and the progress it shows             *)
(* (src/src/progress.rs).                                                  *)
(*                                                                         *)
(* The plaintext is whatever the reads return until one returns nothing:   *)
(* the input may be a pipe, or a file that is being written to. Its size   *)
(* is asked for once, before.                                              *)
(*                                                                         *)
(* External: the cipher (openssl). It turns units into as many, may hold   *)
(* back fewer than a block of them until finalize, and its tag, known only *)
(* then, depends on all of them. TransactionalOutput is used by its        *)
(* promise (AtomicPublish).                                                *)
(***************************************************************************)
EXTENDS DefaultPaths

CONSTANTS
    Unit,         \* the units (bytes) of a plaintext
    MaxLength,    \* bound: units that an input has
    Request,      \* what a run may be asked for, and what it finds: the paths,
                  \* the size of the input, whether stderr is a terminal
    Unknown,      \* the size of stdin
    TagSize,      \* session.tag_size
    BufferSize,   \* STREAM_BUFFER_SIZE
    BlockSize     \* session.block_size

ASSUME EncryptionAssumption ==
    /\ MaxLength \in Nat /\ Unknown \notin Nat
    /\ Request \subseteq [input: Path, output: Path, size: Nat \cup {Unknown},
                          terminal: BOOLEAN]
    /\ \A r \in Request : IsStdio(r.input) <=> r.size = Unknown
    /\ TagSize \in Nat \ {0} /\ BufferSize \in Nat \ {0} /\ BlockSize \in Nat \ {0}

VARIABLES
    request,
    pc,
    consumed,     \* the units that the reads returned
    piece,        \* those of the last read
    enciphered,   \* the units the cipher was given
    held,         \* units the cipher made and holds back
    file,         \* what was written to the temporary file
    processed,    \* progress.processed
    indicator,    \* what the terminal was last told: a state and a percentage
    destination,  \* "before", "part" (only stdout) or "result"
    error         \* the error returned

vars == <<request, pc, consumed, piece, enciphered, held, file, processed, indicator,
          destination, error>>
stream == <<consumed, piece, enciphered, held, file, processed>>

Preparing == {"readKey", "prepare", "openInput", "newOutput", "writeHeader"}
Streaming == {"read", "chunk", "finalize", "tag", "commit", "finish"}
Terminal == {"ok", "err"}
Error == {"none", "Io", "PublicKey", "Crypto"}

Header == [header |-> "session"]
CipherUnit == [at: 1 .. MaxLength, unit: Unit]

\* The units the cipher makes of those that follow count others.
Enciphered(units, count) == [i \in DOMAIN units |-> [at |-> count + i, unit |-> units[i]]]
Tag(plain) == [i \in 1 .. TagSize |-> [over |-> plain, part |-> i]]

\* What decryption takes to be the encryption of plain.
Sealing(plain) == Enciphered(plain, 0) \o Tag(plain)

Off == <<0, 0>>

Least(a, b) == IF a < b THEN a ELSE b

-----------------------------------------------------------------------------
Init ==
    /\ request \in Request
    /\ pc = "readKey"
    /\ consumed = << >>
    /\ piece = << >>
    /\ enciphered = << >>
    /\ held = << >>
    /\ file = << >>
    /\ processed = 0
    /\ indicator = Off
    /\ destination = "before"
    /\ error = "none"

Goto(location) == pc' = location /\ UNCHANGED error

-----------------------------------------------------------------------------
(* Progress.                                                               *)

\* TerminalProgress, mistaken: more is processed than metadata had said, and the
\* percentage is cast to u8.
UncheckedProgress(total, count) ==
    IF total = Unknown THEN <<4, 0>>
    ELSE IF total = 0 THEN <<1, 0>> ELSE <<1, ((count * 100) \div total) % 256>>

TerminalProgress(total, count) ==
    IF total = Unknown THEN <<4, 0>>
    ELSE IF total = 0 THEN <<1, 0>> ELSE <<1, (Least(count, total) * 100) \div total>>

Draw(count) ==
    IF request.terminal THEN indicator' = TerminalProgress(request.size, count)
                        ELSE UNCHANGED indicator

\* finish, and drop of a Progress that was not finished.
Clear == IF request.terminal THEN indicator' = Off ELSE UNCHANGED indicator

\* An early return, before Progress::new and after it.
FailEarly(kind) == pc' = "err" /\ error' = kind /\ UNCHANGED indicator
Fail(kind) == pc' = "err" /\ error' = kind /\ Clear

-----------------------------------------------------------------------------
(* Mistakes that each property is tested against: the operators below are  *)
(* the ones their comments name, gone wrong. Next uses none of them.       *)

\* WriteHeader: only the cipher gets the header.
HeaderNotWritten ==
    /\ pc = "writeHeader"
    /\ Draw(0) /\ Goto("read")
    /\ UNCHANGED <<request, stream, destination>>

\* Encrypt: the whole buffer is encrypted, also behind what was read.
EncryptWholeBuffer ==
    /\ pc = "chunk"
    /\ \E buffer \in [1 .. Least(BufferSize, MaxLength - Len(enciphered)) -> Unit] :
          /\ \A i \in DOMAIN piece \cap DOMAIN buffer : buffer[i] = piece[i]
          /\ enciphered' = enciphered \o buffer
          /\ file' = file \o held \o Enciphered(buffer, Len(enciphered))
    /\ held' = << >>
    /\ piece' = << >>
    /\ processed' = processed + Len(piece)
    /\ UNCHANGED indicator
    /\ Goto("read")
    /\ UNCHANGED <<request, consumed, destination>>

\* Finalize: the tag is written before the last units.
FinalizeLater ==
    /\ pc = "finalize"
    /\ file' = file \o Tag(enciphered) \o held
    /\ held' = << >>
    /\ Goto("commit")
    /\ UNCHANGED <<request, consumed, piece, enciphered, processed, indicator, destination>>

-----------------------------------------------------------------------------
(* Before the stream.                                                      *)

ReadKey ==
    /\ pc = "readKey"
    /\ (Goto("prepare") /\ UNCHANGED indicator) \/ FailEarly("Io")
    /\ UNCHANGED <<request, stream, destination>>

\* prepare_encryption: the key file may be refused, the algorithms may fail.
PrepareEncryption ==
    /\ pc = "prepare"
    /\ \/ Goto("openInput") /\ UNCHANGED indicator
       \/ FailEarly("PublicKey") \/ FailEarly("Crypto")
    /\ UNCHANGED <<request, stream, destination>>

\* open_input: opens the file and asks for its size.
OpenInput ==
    /\ pc = "openInput"
    /\ \/ Goto("newOutput") /\ UNCHANGED indicator
       \/ ~IsStdio(request.input) /\ FailEarly("Io")
    /\ UNCHANGED <<request, stream, destination>>

NewOutput ==
    /\ pc = "newOutput"
    /\ (Goto("writeHeader") /\ UNCHANGED indicator) \/ FailEarly("Io")
    /\ UNCHANGED <<request, stream, destination>>

\* write_output of session.header, then Progress::new.
WriteHeader ==
    /\ pc = "writeHeader"
    /\ \/ file' = <<Header>> /\ Draw(0) /\ Goto("read")
       \/ FailEarly("Io") /\ UNCHANGED file
    /\ UNCHANGED <<request, consumed, piece, enciphered, held, processed, destination>>

-----------------------------------------------------------------------------
(* The stream.                                                             *)

Read ==
    /\ pc = "read"
    /\ \E count \in 1 .. Least(BufferSize, MaxLength - Len(consumed)) :
          piece' \in [1 .. count -> Unit]
    /\ consumed' = consumed \o piece'
    /\ Goto("chunk")
    /\ UNCHANGED <<request, enciphered, held, file, processed, indicator, destination>>

ReadEnds ==
    /\ pc = "read"
    /\ Goto("finalize")
    /\ UNCHANGED <<request, stream, indicator, destination>>

\* update, write_output of what it returned, progress.advance, which draws when
\* the last time was long enough ago.
Encrypt ==
    /\ pc = "chunk"
    /\ LET made == held \o Enciphered(piece, Len(enciphered)) IN
       \E kept \in 0 .. Least(BlockSize - 1, Len(made)) :
          /\ file' = file \o SubSeq(made, 1, Len(made) - kept)
          /\ held' = SubSeq(made, Len(made) - kept + 1, Len(made))
    /\ enciphered' = enciphered \o piece
    /\ piece' = << >>
    /\ processed' = processed + Len(piece)
    /\ Draw(processed') \/ UNCHANGED indicator
    /\ Goto("read")
    /\ UNCHANGED <<request, consumed, destination>>

Finalize ==
    /\ pc = "finalize"
    /\ file' = file \o held
    /\ held' = << >>
    /\ Goto("tag")
    /\ UNCHANGED <<request, consumed, piece, enciphered, processed, indicator, destination>>

WriteTag ==
    /\ pc = "tag"
    /\ file' = file \o Tag(enciphered)
    /\ Goto("commit")
    /\ UNCHANGED <<request, consumed, piece, enciphered, held, processed, indicator, destination>>

\* read, update, finalize, authentication_tag, or a write.
StreamFails ==
    /\ \/ pc \in {"read", "chunk", "finalize", "tag"} /\ Fail("Io")
       \/ pc \in {"chunk", "finalize", "tag"} /\ Fail("Crypto")
    /\ UNCHANGED <<request, stream, destination>>

Commit ==
    /\ pc = "commit"
    /\ destination' = "result"
    /\ Goto("finish")
    /\ UNCHANGED <<request, stream, indicator>>

CommitFails ==
    /\ pc = "commit"
    /\ Fail("Io")
    /\ IF IsStdio(request.output) THEN destination' \in {"before", "part", "result"}
                                  ELSE UNCHANGED destination
    /\ UNCHANGED <<request, stream>>

\* progress.finish(), which draws once more and clears; Ok.
Finish ==
    /\ pc = "finish"
    /\ Clear
    /\ Goto("ok")
    /\ UNCHANGED <<request, stream, destination>>

Prepare == ReadKey \/ PrepareEncryption \/ OpenInput \/ NewOutput \/ WriteHeader
Loop == Read \/ ReadEnds \/ Encrypt \/ StreamFails
Conclude == Finalize \/ WriteTag \/ Commit \/ CommitFails \/ Finish

Step == Prepare \/ Loop \/ Conclude
Returned == pc \in Terminal /\ UNCHANGED vars

Next == Step \/ Returned
Spec == Init /\ [][Next]_vars

-----------------------------------------------------------------------------
(* Properties                                                              *)

TypeOK ==
    /\ request \in Request
    /\ pc \in Preparing \cup Streaming \cup Terminal
    /\ consumed \in Seq(Unit) /\ Len(consumed) <= MaxLength
    /\ piece \in Seq(Unit) /\ Len(piece) <= BufferSize
    /\ enciphered \in Seq(Unit) /\ Len(enciphered) <= MaxLength
    /\ held \in Seq(CipherUnit) /\ Len(held) < BlockSize
    /\ file # << >> => Head(file) = Header
    /\ processed \in 0 .. MaxLength
    /\ indicator \in {0, 1, 4} \X (0 .. 100)
    /\ destination \in {"before", "part", "result"}
    /\ error \in Error

\* What the terminal is told only grows while the run lasts, to 100 at most,
\* whatever the input's size has become since it was asked for, and it is told to
\* forget it on whatever path the run ends (progress.rs, terminal_progress, and
\* drop where finish was not reached).
IndicatorHonest ==
    [][/\ pc' \in Terminal => indicator' = Off
       /\ indicator # Off /\ indicator' # Off =>
             /\ indicator'[1] = indicator[1]
             /\ indicator'[2] \in indicator[2] .. 100]_vars
=============================================================================
