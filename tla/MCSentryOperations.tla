-------------------------- MODULE MCSentryOperations --------------------------
EXTENDS SentryOperations, TLC

Symmetry == Permutations(Signed) \cup Permutations(Calls)
=============================================================================
