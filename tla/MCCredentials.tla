--------------------------- MODULE MCCredentials ---------------------------
EXTENDS CredentialSync, TLC
SyncSymmetry == Permutations(Daemon) \cup Permutations(Secret)
=============================================================================
