----------------------------- MODULE MCDelegation -----------------------------
EXTENDS DelegationProps, TLC

CONSTANTS d1, d2, d3, k

Sym == Permutations({d1, d2, d3})
=============================================================================
