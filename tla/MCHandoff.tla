------------------------------ MODULE MCHandoff ----------------------------
EXTENDS Handoff, TLC

\* Publishers and domains are interchangeable, and so are the places of no seed.
Symmetry ==
  Permutations(Publishers) \cup Permutations(Domains) \cup Permutations(Places \ SeedPlaces)
=============================================================================
