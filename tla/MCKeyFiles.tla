----------------------------- MODULE MCKeyFiles -----------------------------
EXTENDS KeyFiles

\* Every file of up to two blocks, with text behind them or not, and the generated
\* ones with a third block.
KeyFile(keys) == [blocks : BoundedSeq(keys, 2), rest : BOOLEAN]

MCPublicKeyFile ==
    KeyFile(PublicKey)
        \cup {File(Append(GeneratedPublic(Hybrid, owner), key)) :
                 owner \in Owner, key \in PublicKey}
MCPrivateKeyFile ==
    KeyFile(PrivateKey)
        \cup {File(Append(GeneratedPrivate(Hybrid, owner, NoPassphrase), key)) :
                 owner \in Owner, key \in PrivateKey}
=============================================================================
