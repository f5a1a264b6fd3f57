----------------------------- MODULE DefaultPaths -----------------------------
(***************************************************************************)
(* The paths that the command line (src/src/cli.rs) passes on when --output *)
(* is not given, and which of them mean stdin or stdout.                   *)
(*                                                                         *)
(* A path is a stem and the suffixes behind it. A stem is all that matters *)
(* of a name and its directory: whether it is one of the names of stdio,   *)
(* and how it is displayed, which for one that is not UTF-8 is another.    *)
(***************************************************************************)
EXTENDS Naturals, Sequences, SequencesExt

CONSTANTS
    Stem,
    Dash,         \* the stem "-"
    StdioStem,    \* "-" and, in any case, "stdio"
    Displayed     \* Displayed[s]: s with what is not UTF-8 replaced

ASSUME StemAssumption ==
    /\ Dash \in StdioStem /\ StdioStem \subseteq Stem
    /\ Displayed \in [Stem -> Stem]
    /\ \A s \in StdioStem : Displayed[s] = s
    /\ \A s \in Stem : Displayed[s] \in StdioStem => s \in StdioStem

Suffix == {"enc", "dec"}
Path == [stem: Stem, suffixes: Seq(Suffix)]
IsUtf8(path) == Displayed[path.stem] = path.stem

Stdio == [stem |-> Dash, suffixes |-> << >>]
IsStdio(path) == path.suffixes = << >> /\ path.stem \in StdioStem

Display(path) == [path EXCEPT !.stem = Displayed[@]]

\* input.display() and ".enc".
DefaultEncryptedPath(input) == [Display(input) EXCEPT !.suffixes = Append(@, "enc")]

\* strip_suffix(".enc"), or input.display() and ".dec".
DefaultDecryptedPath(input) ==
    IF input.suffixes # << >> /\ Last(input.suffixes) = "enc"
      THEN [Display(input) EXCEPT !.suffixes = Front(@)]
      ELSE [Display(input) EXCEPT !.suffixes = Append(@, "dec")]
=============================================================================
