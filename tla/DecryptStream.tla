---------------------------- MODULE DecryptStream ----------------------------
(***************************************************************************)
(* decrypt (src/src/application.rs): one run of decryption, from the       *)
(* private key to the published plaintext.                                 *)
(*                                                                         *)
(* The file is a header and a body. The header is looked at only as far as *)
(* it decides the run: supported or not, genuine or not. The body is a     *)
(* sequence of units read in pieces of any size up to the buffer's, of     *)
(* which the last TagSize, not known until the end, are the tag.           *)
(*                                                                         *)
(* External: the cipher (openssl). Its finalize accepts just the body that *)
(* encryption sealed, under the key, nonce and associated data it sealed   *)
(* it with. TransactionalOutput is used by its promise (AtomicPublish).    *)
(***************************************************************************)
EXTENDS Naturals, Sequences

CONSTANTS
    Unit,         \* the units (bytes) of a body
    Body,         \* the bodies a file may have
    Sealings,     \* the bodies encryption may produce: ciphertext, then tag
    TagSize,      \* session.tag_size
    BufferSize,   \* STREAM_BUFFER_SIZE
    BlockSize     \* session.block_size, the slack of the output buffer

ASSUME SizesAssumption ==
    TagSize \in Nat \ {0} /\ BufferSize \in Nat \ {0} /\ BlockSize \in Nat

ASSUME BodyAssumption ==
    /\ Body \subseteq Seq(Unit) /\ Sealings \subseteq Seq(Unit)
    /\ \A sealing \in Sealings : Len(sealing) >= TagSize

VARIABLES
    input,        \* the run's input: body, the one it was sealed as, and what the
                  \* header and keys are like
    pc,
    position,     \* units of the body that were read
    pending,      \* read and not yet decrypted
    fed,          \* units the cipher was given, in order
    tag,          \* what set_authentication_tag was given
    written,      \* units of plaintext in the temporary file
    processed,    \* progress.processed
    destination,  \* "before", "part" (only stdout) or "result"
    prompts,      \* passphrase prompts shown
    error         \* the error returned

vars == <<input, pc, position, pending, fed, tag, written, processed,
          destination, prompts, error>>
stream == <<position, pending, fed, tag, written, processed>>

\* genuine: header and key are those of the sealing; recovers: the key makes some
\* data key of the header's key material (RSA: the right one or none; key agreement
\* and ML-KEM: one of its own, unless the point is of low order); legacy: the file
\* has no versioned header.
Input ==
    {i \in [body: Body, sealed: Sealings, genuine: BOOLEAN, recovers: BOOLEAN,
            legacy: BOOLEAN, supported: BOOLEAN, keyEncrypted: BOOLEAN,
            stdin: BOOLEAN, stdout: BOOLEAN] :
        (i.genuine => i.recovers) /\ (i.legacy => i.supported)}

Sealed == input.sealed

Preparing == {"readKey", "openInput", "readHeader", "method", "passphrase",
              "prepare", "newOutput"}
Streaming == {"read", "chunk", "tag", "finalize", "commit"}
Terminal == {"ok", "err", "panic"}
Error == {"none", "Io", "InvalidFormat", "UnsupportedAlgorithms", "PassphraseInput",
          "PrivateKey", "Crypto", "Truncated", "AuthenticationFailed"}

Smaller(a, b) == IF a < b THEN a ELSE b
SaturatingSub(a, b) == IF a < b THEN 0 ELSE a - b

\* ciphertext_count: what of pending is certain not to be the tag.
CiphertextCount == SaturatingSub(Len(pending), TagSize)

\* ciphertext_size. The header's length cancels out.
Total == SaturatingSub(Len(input.body), TagSize)

-----------------------------------------------------------------------------
Init ==
    /\ input \in Input
    /\ pc = "readKey"
    /\ position = 0
    /\ pending = << >>
    /\ fed = << >>
    /\ tag = << >>
    /\ written = 0
    /\ processed = 0
    /\ destination = "before"
    /\ prompts = 0
    /\ error = "none"

Goto(location) == pc' = location /\ UNCHANGED error
Fail(kind) == pc' = "err" /\ error' = kind

-----------------------------------------------------------------------------
(* Mistakes that each property is tested against: the operators below are  *)
(* the ones their comments name, gone wrong. Next uses none of them.       *)

\* HoldBack: the units held back are dropped.
HoldNothing ==
    /\ pc = "chunk"
    /\ CiphertextCount = 0
    /\ pending' = << >>
    /\ Goto("read")
    /\ UNCHANGED <<input, position, fed, tag, written, processed, destination, prompts>>

\* Retained: truncate without copy_within.
NotMoved(units, count) == [i \in 1 .. Smaller(TagSize, Len(units)) |-> units[i]]

\* Retained: copy_within without truncate.
NotTruncated(units, count) ==
    [i \in 1 .. Len(units) |-> IF count + i <= Len(units) THEN units[count + i] ELSE units[i]]

\* Decrypt: the whole of pending is counted.
DecryptCountsTag ==
    /\ pc = "chunk"
    /\ CiphertextCount > 0
    /\ fed' = fed \o SubSeq(pending, 1, CiphertextCount)
    /\ written' = written + CiphertextCount
    /\ processed' = processed + Len(pending)
    /\ pending' = SubSeq(pending, CiphertextCount + 1, Len(pending))
    /\ Goto("read")
    /\ UNCHANGED <<input, position, tag, destination, prompts>>

\* Decrypt: the whole output buffer is written.
DecryptWritesBuffer ==
    /\ pc = "chunk"
    /\ CiphertextCount > 0
    /\ fed' = fed \o SubSeq(pending, 1, CiphertextCount)
    /\ written' = written + BufferSize
    /\ processed' = processed + CiphertextCount
    /\ pending' = SubSeq(pending, CiphertextCount + 1, Len(pending))
    /\ Goto("read")
    /\ UNCHANGED <<input, position, tag, destination, prompts>>

\* Finalize: the result of finalize is ignored.
FinalizeIgnored ==
    /\ pc = "finalize"
    /\ Goto("commit")
    /\ UNCHANGED <<input, stream, destination, prompts>>

-----------------------------------------------------------------------------
(* Before the stream: each step may end the run, and none has touched the  *)
(* destination.                                                            *)

ReadKey ==
    /\ pc = "readKey"
    /\ Goto("openInput") \/ Fail("Io")
    /\ UNCHANGED <<input, stream, destination, prompts>>

OpenInput ==
    /\ pc = "openInput"
    /\ Goto("readHeader") \/ (~input.stdin /\ Fail("Io"))
    /\ UNCHANGED <<input, stream, destination, prompts>>

ReadHeader ==
    /\ pc = "readHeader"
    /\ Goto("method") \/ Fail("Io") \/ (~input.genuine /\ Fail("InvalidFormat"))
    /\ UNCHANGED <<input, stream, destination, prompts>>

MethodForHeader ==
    /\ pc = "method"
    /\ IF input.supported THEN Goto("passphrase") ELSE Fail("UnsupportedAlgorithms")
    /\ UNCHANGED <<input, stream, destination, prompts>>

\* is_encrypted_pem(..).then(request_passphrase).transpose()?
RequestPassphrase ==
    /\ pc = "passphrase"
    /\ IF input.keyEncrypted
         THEN prompts' = prompts + 1 /\ (Goto("prepare") \/ Fail("PassphraseInput"))
         ELSE UNCHANGED prompts /\ Goto("prepare")
    /\ UNCHANGED <<input, stream, destination>>

\* Loads the key and recovers the data key; the legacy format reads on here.
PrepareDecryption ==
    /\ pc = "prepare"
    /\ \/ IF input.recovers THEN Goto("newOutput") ELSE Fail("AuthenticationFailed")
       \/ Fail("PrivateKey") \/ Fail("Crypto")
       \/ ~input.genuine /\ Fail("InvalidFormat")
       \/ input.legacy /\ Fail("Io")
    /\ UNCHANGED <<input, stream, destination, prompts>>

NewOutput ==
    /\ pc = "newOutput"
    /\ Goto("read") \/ Fail("Io")
    /\ UNCHANGED <<input, stream, destination, prompts>>

-----------------------------------------------------------------------------
(* The stream.                                                             *)

\* reader.read returns any part of what is left; pending.extend_from_slice.
Read ==
    /\ pc = "read"
    /\ position < Len(input.body)
    /\ \E count \in 1 .. Smaller(BufferSize, Len(input.body) - position) :
          /\ pending' = pending \o SubSeq(input.body, position + 1, position + count)
          /\ position' = position + count
    /\ Goto("chunk")
    /\ UNCHANGED <<input, fed, tag, written, processed, destination, prompts>>

ReadEnds ==
    /\ pc = "read"
    /\ position = Len(input.body)
    /\ Goto("tag")
    /\ UNCHANGED <<input, stream, destination, prompts>>

ReadFails ==
    /\ pc = "read"
    /\ Fail("Io")
    /\ UNCHANGED <<input, stream, destination, prompts>>

\* The output slice fits the buffer of BufferSize + BlockSize units.
SliceFits == CiphertextCount + BlockSize <= BufferSize + BlockSize

\* All of pending may be part of the tag: continue.
HoldBack ==
    /\ pc = "chunk"
    /\ CiphertextCount = 0
    /\ Goto("read")
    /\ UNCHANGED <<input, stream, destination, prompts>>

\* copy_within(count.., 0), then truncate(TagSize).
Retained(units, count) ==
    [i \in 1 .. Smaller(TagSize, Len(units)) |-> units[count + i]]

\* A slice past the end of the buffer would abort the (release) build.
Decrypt ==
    /\ pc = "chunk"
    /\ CiphertextCount > 0
    /\ IF SliceFits
         THEN /\ fed' = fed \o SubSeq(pending, 1, CiphertextCount)
              /\ written' = written + CiphertextCount
              /\ processed' = processed + CiphertextCount
              /\ pending' = Retained(pending, CiphertextCount)
              /\ Goto("read")
         ELSE Goto("panic") /\ UNCHANGED <<fed, written, processed, pending>>
    /\ UNCHANGED <<input, position, tag, destination, prompts>>

DecryptFails ==
    /\ pc = "chunk"
    /\ CiphertextCount > 0
    /\ SliceFits
    /\ Fail("Crypto") \/ Fail("Io")
    /\ UNCHANGED <<input, stream, destination, prompts>>

\* "missing or incomplete authentication tag", or set_authentication_tag.
SetTag ==
    /\ pc = "tag"
    /\ Len(pending) = TagSize
    /\ tag' = pending
    /\ Goto("finalize")
    /\ UNCHANGED <<input, position, pending, fed, written, processed, destination, prompts>>

SetTagFails ==
    /\ pc = "tag"
    /\ IF Len(pending) # TagSize THEN Fail("Truncated") ELSE Fail("Crypto")
    /\ UNCHANGED <<input, stream, destination, prompts>>

Accepts == input.genuine /\ fed \o tag = Sealed /\ Len(tag) = TagSize

\* finalize, and the write of the last units (none, for a stream cipher).
Finalize ==
    /\ pc = "finalize"
    /\ IF Accepts THEN Goto("commit") \/ Fail("Io") ELSE Fail("AuthenticationFailed")
    /\ UNCHANGED <<input, stream, destination, prompts>>

\* output.commit() and Ok: AtomicPublish.
Commit ==
    /\ pc = "commit"
    /\ destination' = "result"
    /\ Goto("ok")
    /\ UNCHANGED <<input, stream, prompts>>

CommitFails ==
    /\ pc = "commit"
    /\ Fail("Io")
    /\ IF input.stdout THEN destination' \in {"before", "part", "result"}
                       ELSE UNCHANGED destination
    /\ UNCHANGED <<input, stream, prompts>>

Prepare ==
    \/ ReadKey \/ OpenInput \/ ReadHeader \/ MethodForHeader
    \/ RequestPassphrase \/ PrepareDecryption \/ NewOutput
Loop == Read \/ ReadEnds \/ ReadFails \/ HoldBack \/ Decrypt \/ DecryptFails
Conclude == SetTag \/ SetTagFails \/ Finalize \/ Commit \/ CommitFails

Step == Prepare \/ Loop \/ Conclude
Returned == pc \in Terminal /\ UNCHANGED vars

Next == Step \/ Returned
Spec == Init /\ [][Next]_vars

-----------------------------------------------------------------------------
(* Properties                                                              *)

TypeOK ==
    /\ input \in Input
    /\ pc \in Preparing \cup Streaming \cup Terminal
    /\ position \in 0 .. Len(input.body)
    /\ pending \in Seq(Unit) /\ Len(pending) <= BufferSize + TagSize
    /\ fed \in Seq(Unit)
    /\ tag \in Seq(Unit)
    /\ written \in 0 .. Len(input.body)
    /\ processed \in 0 .. Len(input.body)
    /\ destination \in {"before", "part", "result"}
    /\ prompts \in 0 .. 1
    /\ error \in Error

\* However the body is cut into reads, the cipher is given its units in order,
\* each once, and between two reads exactly the last TagSize units read (all of
\* them, when there are fewer) are held back (application.rs, the loop of
\* decrypt: extend, update, copy_within, truncate).
ChunkIndependent ==
    /\ fed \o pending = SubSeq(input.body, 1, position)
    /\ pc \in Streaming \ {"chunk"} => Len(pending) = Smaller(position, TagSize)

\* No size of read makes the loop slice past the output buffer, which would
\* abort the run with the temporary file left behind (application.rs,
\* output_buffer[..ciphertext_count + block_size]).
NeverPanics == pc # "panic"

\* Whatever the stored file is, nothing of it is at the destination, stdout
\* included, unless it is the sealed file, and then all of its plaintext was
\* written (README, "Authenticates before publishing plaintext, including
\* stdout").
AuthenticatedBeforePublishing ==
    destination # "before" => /\ input.genuine /\ input.body = Sealed
                              /\ written = Len(Sealed) - TagSize

\* A genuine file is never reported as truncated or modified. "Missing or incomplete
\* authentication tag" is said only of a file that is too short for one, of which
\* the cipher then saw nothing, and only with a key that recovers a data key; a
\* failed authentication only of a body that the cipher got all of, or else before
\* any of it was read, for the key (application.rs, after the loop; rsa_oaep.rs and
\* legacy_rsa_aes_gcm.rs, AuthenticationFailed).
BlamesOnlyDamage ==
    /\ error \in {"Truncated", "AuthenticationFailed"} =>
          ~(input.genuine /\ input.body = Sealed)
    /\ error = "Truncated" =>
          input.recovers /\ Len(input.body) < TagSize /\ fed = << >>
    /\ error = "AuthenticationFailed" =>
          IF input.recovers THEN fed \o tag = input.body ELSE position = 0

\* The progress of a file never passes its total, and a run that got through the
\* body shows all of it, also for a body shorter than a tag (application.rs,
\* saturating_sub in ciphertext_size).
ProgressExact ==
    /\ processed <= Total
    /\ pc \in {"tag", "finalize", "commit", "ok"} => processed = Total

\* The passphrase is asked for at most once, and only when the key is encrypted
\* and the file is of a kind that can be decrypted (application.rs, the order of
\* method_for_header and request_passphrase).
PromptsOnlyWhenNeeded ==
    prompts > 0 => prompts = 1 /\ input.keyEncrypted /\ input.supported
=============================================================================
