---------------------------- MODULE MCFileFormat ----------------------------
EXTENDS FileFormat

\* Four values of a byte: u16 ends at 15 and u32 at 255. The key material of 17
\* bytes does not fit into one u16.
MCMagicPrefix == <<0, 3>>
MCHeader ==
    [keyEstablishment : {1, 3}, dataCipher : {1, 2}, tagSize : {TagSize},
     keyMaterial : {<<2>>, [i \in 1 .. 17 |-> i % Base]}, nonce : {<<3, 1>>}]
MCLegacyBytes == Preamble(LegacyVersion) \o <<1, 0, 2>> \o <<3, 3, 1>>
MCBody == {<< >>, <<1, 2, 0>>}
=============================================================================
