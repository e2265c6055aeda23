---------------------------- MODULE MCDiscoRelay ----------------------------
EXTENDS DiscoRelay, TLC

\* Callers are interchangeable, and so are pids.
Symmetry == Permutations(Callers) \cup Permutations(Pids)
=============================================================================
