-------------------------- MODULE MCLifecycleLock --------------------------
\* Model-checking instances of LifecycleLock.
EXTENDS LifecycleLock, TLC

ProcessSymmetry == Permutations(Process)
=============================================================================
