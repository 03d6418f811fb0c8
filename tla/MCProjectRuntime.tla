-------------------------- MODULE MCProjectRuntime -------------------------
EXTENDS ProjectRuntime, TLC

\* Opens, mounts and records are interchangeable.
Symmetry == Permutations(Opens) \cup Permutations(Mounts) \cup Permutations(Rows)
=============================================================================
