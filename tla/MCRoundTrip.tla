----------------------------- MODULE MCRoundTrip -----------------------------
(***************************************************************************)
(* RoundTrip for a few runs of encrypt: of files whose size was said to be *)
(* less, as much or more than what is read, of stdin, to files and stdout. *)
(***************************************************************************)
EXTENDS RoundTrip

CONSTANTS a, b, Report, Bytes, Replaced, StdioName

Stems == {Dash, StdioName, Report, Bytes, Replaced}
Stdios == {Dash, StdioName}
Displays == [s \in Stems |-> IF s = Bytes THEN Replaced ELSE s]

File(stem, suffixes) == [stem |-> stem, suffixes |-> suffixes]
ToDefault(path, size, terminal) ==
    [input |-> path, output |-> DefaultEncryptedPath(path), size |-> size, terminal |-> terminal]

Requests ==
    {ToDefault(File(Report, << >>), size, TRUE) : size \in {0, 1, 3}}
        \cup {ToDefault(File(Report, <<"enc">>), 2, FALSE),
              ToDefault(File(Bytes, << >>), 4, FALSE),
              ToDefault(File(StdioName, << >>), Unknown, TRUE),
              [ToDefault(File(Dash, << >>), Unknown, FALSE) EXCEPT !.output = Stdio]}
=============================================================================
