--------------------------- MODULE MCCredentials ---------------------------
EXTENDS Credentials, TLC

CredentialSymmetry == Permutations(Emails) \cup Permutations(Devices) \cup Permutations(Requests)
=============================================================================
