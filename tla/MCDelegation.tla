---------------------------- MODULE MCDelegation ----------------------------
\* One or two delegations of a session.
EXTENDS Delegation, TLC

TaskSymmetry == Permutations(Tasks)
=============================================================================
