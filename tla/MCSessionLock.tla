--------------------------- MODULE MCSessionLock ---------------------------
(* The session lock and what its clients show, for TLC.                    *)
EXTENDS LockSurface, TLC

CONSTANTS l1, l2, l3, s1, s2

\* A holder, an intruder, and one that takes over.
ThreeLocks == {l1, l2, l3}
\* Two surfaces of one client, or one of each of two.
TwoSurfaces == {s1, s2}

\* Clients and surfaces are interchangeable.
Interchangeable == Permutations(ThreeLocks) \cup Permutations(TwoSurfaces)

=============================================================================
