----------------------------- MODULE MCAccounts -----------------------------
EXTENDS Accounts, TLC

\* Both bodies carry the one token, with two passwords.
MCAsked == [b \in Bodies |-> CHOOSE t \in Tokens : TRUE]

Symmetry == Permutations(Requests) \cup Permutations(Bodies)

=============================================================================
