---- MODULE MCProposals ----
EXTENDS ProposalsImplements, TLC
Symmetry == Permutations(Txids) \cup Permutations(Workers) \cup Permutations(Requests)
====
