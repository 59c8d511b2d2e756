---------------------------- MODULE MCAccounts ----------------------------
EXTENDS Accounts, TLC

\* Sound: no liveness property is checked with it.
Symmetry == Permutations(Requests) \cup Permutations(Usernames)
                \cup Permutations(Emails) \cup Permutations(Identities)
=============================================================================
