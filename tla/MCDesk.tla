------------------------------- MODULE MCDesk -------------------------------
(* Desk for TLC: a desk of windows, which can also lose its keyboard to a  *)
(* locked session, and the seal of one with a layer and a lock client.     *)
EXTENDS Desk

CONSTANTS w1, w2, w3, y1, k1

OneWindow == {w1}

TwoWindows == {w1, w2}

ThreeWindows == {w1, w2, w3}

OneLayer == {y1}

OneScreen == {k1}

Surfaces == Window \cup Layer \cup Screen

Tiling == {FALSE}

EitherLayout == {TRUE, FALSE}

\* What a world may bind to run behind the lock.
SomeDeeds == {"Minimize", "RestoreLast", "TabNext"}

WindowSymmetry == Permutations(Window)

=============================================================================
