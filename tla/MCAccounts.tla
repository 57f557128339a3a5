------------------------------ MODULE MCAccounts ------------------------------
EXTENDS Accounts, TLC

Symmetry == Permutations(Devices) \cup Permutations(Passwords) \cup
            Permutations(Keys)
=============================================================================
