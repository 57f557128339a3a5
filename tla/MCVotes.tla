------------------------------- MODULE MCVotes -------------------------------
EXTENDS Votes, TLC

Symmetry == Permutations(Outpoints) \cup Permutations(Requests)
              \cup Permutations(Reconcilers) \cup Permutations(Reads)
=============================================================================
