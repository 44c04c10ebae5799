--------------------------- MODULE MCAuthSessions ---------------------------
EXTENDS AuthSessions, TLC

Symmetry == Permutations(Requests) \cup Permutations(Devices)

=============================================================================
