---------------------------- MODULE MCSnapshots ----------------------------
EXTENDS Snapshots, TLC
MCSymmetry == Permutations(Agents) \cup Permutations(Files) \cup Permutations(Contents)
=============================================================================
