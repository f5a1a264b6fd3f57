------------------------------ MODULE RoundTrip ------------------------------
(***************************************************************************)
(* muenc encrypt, then muenc decrypt of what it left (src/src/cli.rs, the  *)
(* two streams of src/src/application.rs): a run of EncryptStream and a    *)
(* run of DecryptStream, joined by a stored file.                          *)
(*                                                                         *)
(* External: the storage of the file. It may cut it short, change or add   *)
(* to it; and the key it is decrypted with may be another one.             *)
(***************************************************************************)
EXTENDS EncryptStream

CONSTANTS
    Nothing, Part,
    Junk          \* a unit that encryption did not make

VARIABLES
    restoring,    \* whether decrypt was started
    restoredPath, \* its output path
    untouched,    \* the file it reads is the one published, and the key the right one
    input, position, pending, fed, tag, written, prompts,
    restorePc, restoreProcessed, restored, restoreError

restoration == <<input, position, pending, fed, tag, written, prompts,
                 restorePc, restoreProcessed, restored, restoreError>>
roundTrip == <<vars, restoring, restoredPath, untouched, restoration>>

Plain == UNION {[1 .. n -> Unit] : n \in 0 .. MaxLength}
SealedUnit == CipherUnit \cup [over: Plain, part: 1 .. TagSize]
StoredUnit == SealedUnit \cup {Junk}

ASSUME SentinelAssumption ==
    Nothing \notin [at: Path, plain: Plain] /\ Junk \notin SealedUnit

\* decrypt, of anything stored.
Decryption == INSTANCE DecryptStream WITH
    Unit <- StoredUnit, Body <- Seq(StoredUnit),
    Sealings <- {Sealing(plain) : plain \in Plain},
    pc <- restorePc, processed <- restoreProcessed, destination <- restored,
    error <- restoreError

-----------------------------------------------------------------------------
\* Before decrypt is started, its variables have their first values.
NoInput == [body |-> << >>, sealed |-> << >>, genuine |-> FALSE, recovers |-> FALSE,
            legacy |-> FALSE, supported |-> FALSE, keyEncrypted |-> FALSE,
            stdin |-> FALSE, stdout |-> FALSE]

RoundTripInit ==
    /\ Init
    /\ restoring = FALSE
    /\ restoredPath = Stdio
    /\ untouched = FALSE
    /\ input = NoInput
    /\ position = 0
    /\ pending = << >>
    /\ fed = << >>
    /\ tag = << >>
    /\ written = 0
    /\ prompts = 0
    /\ restorePc = "readKey"
    /\ restoreProcessed = 0
    /\ restored = "before"
    /\ restoreError = "none"

Protect ==
    /\ Step
    /\ UNCHANGED <<restoring, restoredPath, untouched, restoration>>

\* What the reader of the output has of the file: all, or what a copy to stdout
\* that failed had sent of it.
Sent == IF destination = "part"
          THEN {SubSeq(file, 1, length) : length \in 0 .. Len(file) - 1}
          ELSE {file}

\* What may become of a body.
Damaged(body) ==
    {SubSeq(body, 1, length) : length \in 0 .. Len(body) - 1}
        \cup {[body EXCEPT ![i] = Junk] : i \in DOMAIN body}
        \cup {Append(body, Junk)}

\* cli.rs, decrypt: the paths, given or default. Then one thing at most is wrong
\* with the file or the key. Key material that was changed, or is another key's, may
\* give no data key, and a changed header may be taken for a legacy one.
Start ==
    /\ ~restoring
    /\ pc \in Terminal /\ destination # "before"
    /\ restoring' = TRUE
    /\ restoredPath' \in {Stdio, DefaultDecryptedPath(request.output)}
    /\ \E sent \in Sent, locked \in BOOLEAN, wrong \in {"nothing", "body", "header", "key", "ids"} :
          LET body == SubSeq(sent, 2, Len(sent)) IN
          \E stored \in IF wrong = "body" THEN Damaged(body) ELSE {body},
             recovers \in IF wrong \in {"header", "key"} THEN BOOLEAN ELSE {TRUE} :
             /\ untouched' = (sent = file /\ wrong = "nothing")
             /\ input' = [body |-> stored,
                          sealed |-> Sealing(enciphered),
                          genuine |-> sent # << >> /\ wrong \in {"nothing", "body"},
                          recovers |-> recovers,
                          legacy |-> wrong = "header",
                          supported |-> wrong # "ids",
                          keyEncrypted |-> locked,
                          stdin |-> IsStdio(request.output),
                          stdout |-> IsStdio(restoredPath')]
    /\ UNCHANGED <<vars, position, pending, fed, tag, written, prompts,
                   restorePc, restoreProcessed, restored, restoreError>>

Restore ==
    /\ restoring
    /\ Decryption!Step
    /\ UNCHANGED <<vars, restoring, restoredPath, untouched>>

Ended ==
    /\ pc \in Terminal
    /\ IF restoring THEN restorePc \in {"ok", "err", "panic"} ELSE destination = "before"
    /\ UNCHANGED roundTrip

RoundTripNext == Protect \/ Start \/ Restore \/ Ended
RoundTripSpec == RoundTripInit /\ [][RoundTripNext]_roundTrip

\* As in DecryptStream; nothing makes encrypt end, nor anyone start decrypt.
FairRoundTrip ==
    RoundTripSpec /\ WF_roundTrip(Restore /\ restoreError' # "Io")

-----------------------------------------------------------------------------
(* Properties                                                              *)

\* The paths were left to the defaults.
ByDefault ==
    /\ IsUtf8(request.input)
    /\ request.output = DefaultEncryptedPath(request.input)
    /\ restoring => restoredPath = DefaultDecryptedPath(request.output)

\* What is kept is what was read, once all of its file is published.
Kept ==
    IF destination # "result" THEN Nothing
    ELSE [at |-> request.input, plain |-> consumed]

\* What was given back, and where.
Deciphered == [i \in DOMAIN fed |-> IF fed[i] \in CipherUnit THEN fed[i].unit ELSE Junk]
Given ==
    IF restored = "before" THEN Nothing
    ELSE [at |-> IF ByDefault THEN restoredPath ELSE request.input,
          plain |-> IF restored = "part" THEN Part ELSE Deciphered]

Store == INSTANCE SealedStore WITH
    Thing <- [at: Path, plain: Plain], kept <- Kept, given <- Given

\* Encryption followed by decryption is a store that gives back what it was given
\* or nothing: whatever was read, in whatever pieces, is what comes back, and by
\* default to the path it came from; nothing comes back of a file that was only
\* partly sent, or of a damaged one, or with another key (tests/compatibility.rs,
\* every_key_and_cipher_combination_round_trips; README, "Authenticates before
\* publishing plaintext").
KeepsOrRefuses == Store!Spec

\* Without --output, the file is at the path of the input with .enc behind it
\* (README, "Encryption appends `.enc` to the input path by default").
AppendsEnc ==
    destination = "result" /\ ~IsStdio(request.output) =>
        request.output = [request.input EXCEPT !.suffixes = Append(@, "enc")]

\* A file that was published, and that nobody touched, is decrypted with its key,
\* unless the run reports that something outside of the file failed
\* (application.rs, encrypt and decrypt: the header first, the tag last).
IntactRestored ==
    untouched ~> \/ restored = "result"
                 \/ restoreError \in {"Io", "Crypto", "PassphraseInput", "PrivateKey"}
=============================================================================
