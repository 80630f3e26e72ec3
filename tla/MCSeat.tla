------------------------------ MODULE MCSeat --------------------------------
(* Seat for TLC.                                                           *)
EXTENDS Seat

CONSTANTS l1, l2

OneLock == {l1}

TwoLocks == {l1, l2}

=============================================================================
