---------------------------- MODULE SessionLock ----------------------------
(***************************************************************************)
(* The session lock of the seat: the machine `SessionLock` of omoya-spec   *)
(* and the ext-session-lock-v1 objects the compositor keeps around it.     *)
(*                                                                         *)
(* The machine decides; the shell holds what the wire needs: a map from    *)
(* lock ids to the objects that can be told `locked`.  An id is minted     *)
(* once and never again, so LockId is the set of ids the run may mint.     *)
(* Each lock object stands for its client: an object goes away because the *)
(* client destroys it, or because the client died or was disconnected.     *)
(*                                                                         *)
(* Frames are seen from here only as the machine sees them: a flip was     *)
(* accepted, a flip retired, or the display holds the hidden scene         *)
(* already.  Module Seat says when the frame loop makes those calls.       *)
(***************************************************************************)
EXTENDS FiniteSets

CONSTANTS
    LockId,     \* the ids `mint` hands out, one per ext_session_lock_v1 object
    NoLock      \* Option::None where the code stores an Option<LockId>

ASSUME NoLockAssumption == NoLock \notin LockId

VARIABLES
    held,           \* the seal is Held: the desktop is hidden
    holder,         \* Held.holder: whose lock it is, or NoLock
    announced,      \* Held.announced: the holder was told `locked`
    onGlass,        \* Held.on_glass: a hidden frame reached the display
    flipInFlight,   \* a frame of the hidden scene was handed to the display
    minted,         \* ids handed out so far
    alive,          \* lock objects that exist on the wire, finished ones too
    objects,        \* LockState.objects: the ones `locked` can be sent to
    told            \* history: the ids `locked` was ever sent to

seal == <<held, holder, announced, onGlass>>
wire == <<minted, alive, objects, told>>
lockVars == <<held, holder, announced, onGlass, flipInFlight, minted, alive, objects, told>>

-----------------------------------------------------------------------------
(* The seal.  Open carries no fields in the code; here it carries the      *)
(* values every reader of an Open seal answers.                            *)

Seal(h, a, g) ==
    /\ held' = TRUE
    /\ holder' = h
    /\ announced' = a
    /\ onGlass' = g

Unseal ==
    /\ held' = FALSE
    /\ holder' = NoLock
    /\ announced' = FALSE
    /\ onGlass' = FALSE

NeedsAClient == held /\ holder = NoLock

IsHolder(id) == held /\ holder = id

-----------------------------------------------------------------------------
(* A lock request: grant on an open seat, takeover of a vacant lock, or    *)
(* `finished`.                                                             *)

MintFresh(id) ==
    /\ id \notin minted
    /\ minted' = minted \cup {id}
    /\ alive' = alive \cup {id}

GrantOpen(id) ==
    /\ ~held
    /\ MintFresh(id)
    /\ Seal(id, FALSE, FALSE)
    /\ flipInFlight' = FALSE
    /\ objects' = objects \cup {id}
    /\ UNCHANGED told

\* Mutant: the taker-over waits for a frame, though one is on the glass.
GrantTakeoverUntold(id) ==
    /\ NeedsAClient
    /\ MintFresh(id)
    /\ Seal(id, FALSE, onGlass)
    /\ objects' = objects \cup {id}
    /\ UNCHANGED <<flipInFlight, told>>

\* The glass may be covered already: then the new holder is told at once.
GrantTakeover(id) ==
    /\ NeedsAClient
    /\ MintFresh(id)
    /\ Seal(id, onGlass, onGlass)
    /\ objects' = objects \cup {id}
    /\ told' = IF onGlass THEN told \cup {id} ELSE told
    /\ UNCHANGED flipInFlight

\* Mutant: a second lock takes the seat from a living holder.
FinishLockDisplaces(id) ==
    /\ held /\ holder # NoLock
    /\ MintFresh(id)
    /\ Seal(id, FALSE, FALSE)
    /\ objects' = objects \cup {id}
    /\ UNCHANGED <<flipInFlight, told>>

\* The object lives on, but the machine never heard of its id.
FinishLock(id) ==
    /\ held /\ holder # NoLock
    /\ MintFresh(id)
    /\ UNCHANGED <<seal, flipInFlight, objects, told>>

Lock(id) == GrantOpen(id) \/ GrantTakeover(id) \/ FinishLock(id)

-----------------------------------------------------------------------------
(* The ways a lock object ends.  unlock_and_destroy and destroy are        *)
(* destructors: the wire library runs the request, then the object's       *)
(* `destroyed` handler, in one dispatch.                                   *)

Forget(id) ==
    /\ id \in alive
    /\ alive' = alive \ {id}
    /\ objects' = objects \ {id}
    /\ UNCHANGED <<minted, told>>

\* Mutant: a dead holder takes the seal with it.
VacateOpens(id) == IF IsHolder(id) THEN Unseal ELSE UNCHANGED seal

\* The object `id` is gone: if it was the holder, its place falls vacant.
Vacate(id) ==
    IF IsHolder(id) THEN Seal(NoLock, FALSE, onGlass) ELSE UNCHANGED seal

\* Mutant: holding the lock is enough, told or not.
MayUnlockUntold(id) == IsHolder(id)

MayUnlock(id) == IsHolder(id) /\ announced

\* Mutant: the frame in flight survives the unlock.
UnlockKeepsTheFlip(id) ==
    /\ MayUnlock(id)
    /\ Forget(id)
    /\ Unseal
    /\ UNCHANGED flipInFlight

UnlockOpens(id) ==
    /\ MayUnlock(id)
    /\ Forget(id)
    /\ Unseal
    /\ flipInFlight' = FALSE

\* InvalidUnlock: the machine refuses, the object is destroyed all the same.
UnlockRefused(id) ==
    /\ ~MayUnlock(id)
    /\ Forget(id)
    /\ Vacate(id)
    /\ UNCHANGED flipInFlight

\* Mutant: the shell drops the object and never tells the machine.
LoseObjectSilently(id) == Forget(id) /\ UNCHANGED <<seal, flipInFlight>>

\* A destroy request, InvalidDestroy included, and a client that vanished
\* leave the machine the same.
LoseObject(id) ==
    /\ Forget(id)
    /\ Vacate(id)
    /\ UNCHANGED flipInFlight

-----------------------------------------------------------------------------
(* The compositor's own lock, and what the frame loop reports.             *)

CompositorLock ==
    /\ ~held
    /\ Seal(NoLock, FALSE, FALSE)
    /\ flipInFlight' = FALSE
    /\ UNCHANGED wire

FrameFlipped ==
    /\ flipInFlight' = (flipInFlight \/ held)
    /\ UNCHANGED <<seal, wire>>

\* Mutant: the machine notes the frame and announces it to no one.
CoverGlassUnannounced ==
    /\ held /\ onGlass' = TRUE
    /\ UNCHANGED <<held, holder, announced, wire>>

\* on_glass_now, and announce_lock with the id it returns: a holder that was
\* not told yet is told, if the map still has its object.
CoverGlass ==
    /\ IF held THEN Seal(holder, announced \/ holder # NoLock, TRUE) ELSE UNCHANGED seal
    /\ told' = IF held /\ ~announced THEN told \cup ({holder} \cap objects) ELSE told
    /\ UNCHANGED <<minted, alive, objects>>

OnGlassNow == CoverGlass /\ UNCHANGED flipInFlight

FrameRetired ==
    IF flipInFlight
    THEN CoverGlass /\ flipInFlight' = FALSE
    ELSE UNCHANGED lockVars

-----------------------------------------------------------------------------
LockInit ==
    /\ held = FALSE
    /\ holder = NoLock
    /\ announced = FALSE
    /\ onGlass = FALSE
    /\ flipInFlight = FALSE
    /\ minted = {}
    /\ alive = {}
    /\ objects = {}
    /\ told = {}

LockNext ==
    \/ \E id \in LockId : Lock(id) \/ UnlockOpens(id) \/ UnlockRefused(id) \/ LoseObject(id)
    \/ CompositorLock
    \/ FrameFlipped
    \/ FrameRetired
    \/ OnGlassNow

LockSpec == LockInit /\ [][LockNext]_lockVars

-----------------------------------------------------------------------------
(* Properties.                                                             *)

\* Every variable holds a value of its type, and an open seat remembers
\* nothing of the lock that was.
LockTypeOK ==
    /\ held \in BOOLEAN
    /\ holder \in LockId \cup {NoLock}
    /\ announced \in BOOLEAN
    /\ onGlass \in BOOLEAN
    /\ flipInFlight \in BOOLEAN
    /\ minted \subseteq LockId
    /\ alive \subseteq minted
    /\ objects \subseteq minted
    /\ told \subseteq minted
    /\ ~held => holder = NoLock /\ ~announced /\ ~onGlass /\ ~flipInFlight

\* A holder knows exactly what the glass shows: while somebody holds the
\* lock, it has been told `locked` if and only if a hidden frame is on the
\* glass, and then the message really went out to that very object.
\* (session_lock.rs request, on_glass_now; the shell's announce_lock.)
HolderKnowsTheGlass ==
    /\ announced <=> (holder # NoLock /\ onGlass)
    /\ holder # NoLock => (announced <=> holder \in told)

\* `locked` can always be delivered: the holder's object is in the map that
\* announce_lock looks it up in, and alive on the wire.  A holder missing
\* there would stay locked without ever being allowed to unlock.
HolderIsReachable ==
    holder # NoLock => holder \in objects /\ holder \in alive

\* A holder that can unlock knows it, and one that does not know it yet can be
\* told.
HolderIsServed == HolderKnowsTheGlass /\ HolderIsReachable

\* The seat opens in one way only: the holder, told that it is locked, asks
\* for it with its own object.  No frame, no other client, no crash opens it.
\* (SessionLock::unlock, and the tests' "no sequence opens the seat without
\* the holder's unlock".)
OnlyTheToldHolderOpens ==
    [][held /\ ~held' =>
          /\ holder \in told
          /\ holder \in alive
          /\ alive' = alive \ {holder}]_lockVars

\* A lock changes hands only through a vacant seal: nobody takes it from a
\* living holder, and a holder once gone never holds again.
\* (SessionLock::request and holder_gone.)
NobodyDisplacesAHolder ==
    [][/\ holder # NoLock /\ holder' # holder =>
             holder' = NoLock /\ holder \notin alive'
       /\ holder' # holder => holder' \notin minted]_lockVars

\* Nothing but its holder's own end or its own unlock moves the seal on.
SealStaysWithItsHolder == OnlyTheToldHolderOpens /\ NobodyDisplacesAHolder

\* The promise of SeatSeal, read off the machine: a holder has the key once it
\* has been told.
Promise == INSTANCE SeatSeal WITH
    Client <- LockId,
    Nobody <- NoLock,
    shut <- held,
    key <- IF announced THEN holder ELSE NoLock,
    handedTo <- told

\* The session lock keeps the promise of module SeatSeal: the seat is shut,
\* the key handed out, lost and used as that specification allows, and every
\* other step of the code leaves the promise alone.
KeepsThePromise == Promise!SealSpec

=============================================================================
