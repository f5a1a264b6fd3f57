----------------------------- MODULE SealedStore -----------------------------
(***************************************************************************)
(* What muenc promises as a whole: something is kept, and whoever asks for *)
(* it gets it back, as it was and where it was, or gets nothing; stdout    *)
(* may get a part. There are no files, tags or failures here.              *)
(***************************************************************************)
CONSTANTS
    Thing,     \* what can be kept: a plaintext and where it is
    Nothing,
    Part       \* stands for the plaintext of which stdout got a part

VARIABLES kept, given

Init == kept = Nothing /\ given = Nothing

Keep == kept = Nothing /\ kept' \in Thing /\ UNCHANGED given

Give ==
    /\ kept # Nothing /\ given = Nothing
    /\ given' \in {kept, [kept EXCEPT !.plain = Part]}
    /\ UNCHANGED kept

Next == Keep \/ Give
Spec == Init /\ [][Next]_<<kept, given>>
=============================================================================
