---------------------------- MODULE MCDraftWriter --------------------------
EXTENDS DraftWriter, TLC

TabSymmetry == Permutations(Tabs)
=============================================================================
