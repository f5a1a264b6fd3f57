---------------------------- MODULE MCKeyAgreement ----------------------------
EXTENDS KeyAgreement

CONSTANTS a, b
=============================================================================
