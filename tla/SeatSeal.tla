------------------------------ MODULE SeatSeal ------------------------------
(***************************************************************************)
(* What the session lock promises, with no wire, no frame and no machine.  *)
(*                                                                         *)
(* A seat is open or shut.  Shutting it hides the desktop.  A shut seat    *)
(* may hand out a key, to one client at a time, and a key once handed to a *)
(* client is never handed to it again.  Only the client with the key opens *)
(* the seat.  A lost key leaves the seat shut.                             *)
(***************************************************************************)
CONSTANTS
    Client,     \* who may hold the key
    Nobody      \* no one holds it

VARIABLES
    shut,       \* the desktop is hidden
    key,        \* who may open the seat
    handedTo    \* whom the key was ever handed to

sealVars == <<shut, key, handedTo>>

SealInit == shut = FALSE /\ key = Nobody /\ handedTo = {}

Shut ==
    /\ ~shut
    /\ shut' = TRUE
    /\ UNCHANGED <<key, handedTo>>

HandOver(c) ==
    /\ shut /\ key = Nobody
    /\ c \notin handedTo
    /\ key' = c
    /\ handedTo' = handedTo \cup {c}
    /\ UNCHANGED shut

LoseKey ==
    /\ key # Nobody
    /\ key' = Nobody
    /\ UNCHANGED <<shut, handedTo>>

OpenWithKey ==
    /\ shut /\ key # Nobody
    /\ shut' = FALSE
    /\ key' = Nobody
    /\ UNCHANGED handedTo

SealNext == Shut \/ (\E c \in Client : HandOver(c)) \/ LoseKey \/ OpenWithKey

SealSpec == SealInit /\ [][SealNext]_sealVars

=============================================================================
