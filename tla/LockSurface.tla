---------------------------- MODULE LockSurface ----------------------------
(***************************************************************************)
(* What a lock client puts on the screen: its lock surfaces, from the      *)
(* request that makes one over the configure, the ack and the commits to   *)
(* the frame that draws it, composed with the session lock whose holder    *)
(* they belong to.  Clients break the protocol, are disconnected for it,   *)
(* die, and are followed by others.                                        *)
(*                                                                         *)
(* As in SessionLock a lock id stands for its client.  A wl_surface takes  *)
(* one role in its life, so it is configured once; a buffer either fits    *)
(* the size of that configure or does not.  A client lets go of a lock     *)
(* surface before its wl_surface, as wl_surface.destroy asks of it.        *)
(***************************************************************************)
EXTENDS SessionLock, Lists, SequencesExt

CONSTANTS
    Surface,        \* the wl_surfaces clients make lock surfaces of
    OutputHandle    \* the wl_output objects a client has bound, all of one screen

Nowhere == "nowhere"
AWindow == "window"

ASSUME LockSurfaceAssumption == {Nowhere, AWindow} \cap Surface = {}

VARIABLES
    surfaces,       \* LockState.surfaces
    surf,           \* what the compositor knows of each wl_surface
    client,         \* per id: its client is here, killed by an error, or gone
    keyFocus,       \* the surface with the keyboard
    frameOwed,      \* the ledger has a cause
    onScreen,       \* what the last frame drew
    gaveUp          \* history: the ids whose client destroyed the lock it held

clientVars == <<surf, client>>
shellVars == <<keyFocus, frameOwed>>
lockSurfaceVars == <<lockVars, surfaces, clientVars, shellVars, onScreen, gaveUp>>

MappedSurface(id, s, o) == [lock |-> id, surface |-> s, output |-> o]
Surf(owner, role, configure, content) ==
    [owner |-> owner, role |-> role, configure |-> configure, content |-> content]
Untouched == Surf(NoLock, "none", "none", "none")
Dead == Surf(NoLock, "dead", "none", "none")

\* surfaces_of_holder.
SurfacesOfHolder ==
    IF holder = NoLock THEN <<>>
    ELSE LET ours == {m \in ToSet(surfaces) : m.lock = holder /\ surf[m.surface].role # "dead"}
             its == Sift(surfaces, ours)
         IN  [i \in DOMAIN its |-> its[i].surface]

\* The hidden scene is the surfaces of the holder that have something to show.
Scene ==
    IF ~held THEN <<AWindow>>
    ELSE LET shows == {s \in Surface : surf[s].content # "none"}
             its == Sift(SurfacesOfHolder, shows)
         IN  [i \in DOMAIN its |-> <<its[i], surf[its[i]].content>>]

Acts(id) == client[id] = "here"
PostError(id) == client' = [client EXCEPT ![id] = "killed"]

-----------------------------------------------------------------------------
(* Lock objects.                                                           *)

\* session_shut: the keyboard is dropped and a frame is owed.
SessionShut == keyFocus' = Nowhere /\ frameOwed' = TRUE

RequestLock(id) ==
    /\ \/ GrantOpen(id) /\ SessionShut
       \/ (GrantTakeover(id) \/ FinishLock(id)) /\ UNCHANGED shellVars
    /\ client' = [client EXCEPT ![id] = "here"]
    /\ UNCHANGED <<surfaces, surf, onScreen, gaveUp>>

LockSession ==
    /\ CompositorLock
    /\ SessionShut
    /\ UNCHANGED <<surfaces, clientVars, onScreen, gaveUp>>

\* Mutant: the vacant lock's picture is left for the next frame to notice.
VacantUnowed(id) ==
    IF IsHolder(id) THEN keyFocus' = Nowhere /\ UNCHANGED frameOwed ELSE UNCHANGED shellVars

\* destroyed, of a lock object whose client the machine still has for its holder.
Vacant(id) ==
    IF IsHolder(id) THEN keyFocus' = Nowhere /\ frameOwed' = TRUE ELSE UNCHANGED shellVars

\* session_opened; focus_any_visible finds a window or leaves the keyboard.
Opened(id) ==
    /\ Acts(id)
    /\ UnlockOpens(id)
    /\ surfaces' = <<>>
    /\ frameOwed' = TRUE
    /\ keyFocus' \in {AWindow, keyFocus}
    /\ UNCHANGED <<clientVars, onScreen, gaveUp>>

\* InvalidUnlock leaves the machine alone: `destroyed` finds the holder gone.
RefuseUnlock(id) ==
    /\ Acts(id)
    /\ UnlockRefused(id)
    /\ PostError(id)
    /\ Vacant(id)
    /\ UNCHANGED <<surfaces, surf, onScreen, gaveUp>>

\* The machine's own destroy empties the holder before `destroyed` asks for
\* it: nothing is dropped and no frame is owed.  Only one that was told is in
\* error.
DestroyLock(id) ==
    /\ Acts(id)
    /\ LoseObject(id)
    /\ IF MayUnlock(id) THEN PostError(id) ELSE UNCHANGED client
    /\ gaveUp' = IF IsHolder(id) THEN gaveUp \cup {id} ELSE gaveUp
    /\ UNCHANGED <<surfaces, surf, shellVars, onScreen>>

\* A client dies, or is disconnected for its error: all it has goes at once.
ClientGone(id) ==
    /\ client[id] \in {"here", "killed"}
    /\ client' = [client EXCEPT ![id] = "gone"]
    /\ surf' = [s \in Surface |-> IF surf[s].owner = id THEN Dead ELSE surf[s]]
    /\ surfaces' = Sift(surfaces, {m \in ToSet(surfaces) : m.lock # id})
    /\ IF id \in alive THEN LoseObject(id) ELSE UNCHANGED lockVars
    /\ keyFocus' = IF IsHolder(id) THEN Nowhere ELSE keyFocus
    /\ frameOwed' = (frameOwed \/ IsHolder(id) \/ \E s \in Surface : surf[s].owner = id)
    /\ UNCHANGED <<onScreen, gaveUp>>

-----------------------------------------------------------------------------
(* Lock surfaces.                                                          *)

\* The output is known by the object the client names it with.
Taken(id, o) == \E i \in DOMAIN surfaces : surfaces[i].lock = id /\ surfaces[i].output = o

\* configure_lock_surface: a size is sent, the screen's.
Configured(id) == Surf(id, "lock", "sent", "none")

GetLockSurface(id, s, o) ==
    /\ Acts(id) /\ id \in alive
    /\ surf[s] = Untouched
    /\ ~Taken(id, o)
    /\ surfaces' = Append(surfaces, MappedSurface(id, s, o))
    /\ surf' = [surf EXCEPT ![s] = Configured(id)]
    /\ UNCHANGED <<lockVars, client, shellVars, onScreen, gaveUp>>

\* A surface with a role or a buffer already, an output that is taken, an ack
\* of a serial that is not pending.
ClientErrs(id) ==
    /\ Acts(id)
    /\ \/ id \in alive
       \/ \E s \in Surface : surf[s].owner = id /\ surf[s].role = "lock"
    /\ PostError(id)
    /\ UNCHANGED <<lockVars, surfaces, surf, shellVars, onScreen, gaveUp>>

AckConfigure(s) ==
    /\ surf[s].role = "lock" /\ Acts(surf[s].owner)
    /\ surf[s].configure = "sent"
    /\ surf' = [surf EXCEPT ![s].configure = "acked"]
    /\ UNCHANGED <<lockVars, surfaces, client, shellVars, onScreen, gaveUp>>

\* Mutant: the size is compared with whatever was configured, acked or not.
CommitIsLegalUnacked(s, buffer) == buffer \in {"nothing", "fits"}

\* check_commit, on the state the commit brings.
CommitIsLegal(s, buffer) == surf[s].configure = "acked" /\ buffer \in {"nothing", "fits"}

\* Mutant: the surface that committed has the keyboard, whoever holds the lock.
FocusOnCommit(s) == keyFocus' = s

\* lock_surface_committed and focus_holder_surface.
FocusHolderSurface(s) ==
    keyFocus' = IF s \in ToSet(SurfacesOfHolder) THEN Head(SurfacesOfHolder) ELSE keyFocus

\* The check cannot hold a commit back: an illegal one is applied, and its
\* client disconnected for it.
Commit(s, buffer) ==
    /\ surf[s].role = "lock" /\ Acts(surf[s].owner)
    /\ IF CommitIsLegal(s, buffer) THEN UNCHANGED client ELSE PostError(surf[s].owner)
    /\ surf' = [surf EXCEPT ![s].content = CASE buffer = "nothing" -> @
                                             [] buffer = "removed" -> "none"
                                             [] OTHER -> buffer]
    /\ frameOwed' = TRUE
    /\ FocusHolderSurface(s)
    /\ UNCHANGED <<lockVars, surfaces, onScreen, gaveUp>>

DestroyLockSurface(s) ==
    /\ surf[s].role = "lock" /\ Acts(surf[s].owner)
    /\ surf' = [surf EXCEPT ![s] = Dead]
    /\ surfaces' = Sift(surfaces, {m \in ToSet(surfaces) : m.surface # s})
    /\ frameOwed' = TRUE
    /\ UNCHANGED <<lockVars, client, keyFocus, onScreen, gaveUp>>

-----------------------------------------------------------------------------
(* Frames.                                                                 *)

DrawFrame ==
    /\ frameOwed
    /\ onScreen' = Scene
    /\ frameOwed' = FALSE
    /\ FrameFlipped
    /\ UNCHANGED <<surfaces, clientVars, keyFocus, gaveUp>>

GlassReports ==
    /\ FrameRetired \/ OnGlassNow
    /\ UNCHANGED <<surfaces, clientVars, shellVars, onScreen, gaveUp>>

LockSurfaceInit ==
    /\ LockInit
    /\ surfaces = <<>>
    /\ surf = [s \in Surface |-> Untouched]
    /\ client = [id \in LockId |-> "none"]
    /\ keyFocus = AWindow
    /\ frameOwed = FALSE
    /\ onScreen = <<AWindow>>
    /\ gaveUp = {}

LockSurfaceNext ==
    \/ \E id \in LockId : \/ RequestLock(id) \/ Opened(id) \/ RefuseUnlock(id)
                          \/ DestroyLock(id) \/ ClientGone(id) \/ ClientErrs(id)
    \/ \E id \in LockId, s \in Surface, o \in OutputHandle : GetLockSurface(id, s, o)
    \/ \E s \in Surface : AckConfigure(s) \/ DestroyLockSurface(s)
    \/ \E s \in Surface, buffer \in {"nothing", "removed", "fits", "misfits"} : Commit(s, buffer)
    \/ LockSession \/ DrawFrame \/ GlassReports

LockSurfaceSpec == LockSurfaceInit /\ [][LockSurfaceNext]_lockSurfaceVars

-----------------------------------------------------------------------------
(* Properties.                                                             *)

LockSurfaceTypeOK ==
    /\ LockTypeOK
    /\ surfaces \in Seq([lock : LockId, surface : Surface, output : OutputHandle])
    /\ surf \in [Surface -> [owner : LockId \cup {NoLock}, role : {"none", "lock", "dead"},
                             configure : {"none", "sent", "acked"},
                             content : {"none", "fits", "misfits"}]]
    /\ client \in [LockId -> {"none", "here", "killed", "gone"}]
    /\ keyFocus \in Surface \cup {Nowhere, AWindow}
    /\ frameOwed \in BOOLEAN
    /\ gaveUp \subseteq minted

\* The picture of a client that destroyed the lock it held, on surfaces it
\* still has, behind a lock with nothing to show.
LeftStanding ==
    /\ held /\ Scene = <<>>
    /\ ToSet(onScreen) \subseteq
           {<<s, surf[s].content>> : s \in {x \in Surface : surf[x].owner \in gaveUp}}

\* What is on the screen is what there is to show, or a frame is owed: nothing
\* of a lock client that died, unlocked, was refused or took a surface away is
\* left standing (session_lock.rs, destroyed and session_opened; owed.rs).
\* One that gives its lock up by `destroy` and lives leaves its picture, for
\* as long as its surfaces stand and nothing else has a frame drawn.
LockScreenIsUpToDate == frameOwed \/ onScreen = Scene \/ LeftStanding

\* owed.rs:3: "the closed, enumerable list of things that can dirty the
\* screen".  A lock object destroyed by the holder takes its surfaces out of
\* the scene and is not on it.
EveryChangeIsOwed == frameOwed \/ onScreen = Scene

\* What a lock client shows fits the configure it has acknowledged, unless the
\* client is being disconnected for it (session_lock.rs, check_commit).
ShownAsConfigured ==
    \A s \in ToSet(SurfacesOfHolder) :
        surf[s].content # "none" /\ Acts(surf[s].owner) =>
            surf[s].configure = "acked" /\ surf[s].content = "fits"

\* A holder that shows something can be typed at, and behind a lock that shows
\* nothing no window has the keyboard: nobody, or a surface that is the
\* holder's no longer, which keyboard_may_reach_a_client then keeps it from
\* (session_lock.rs, session_shut, lock_surface_committed).
HolderIsTypedAt ==
    held => IF Scene # <<>> THEN keyFocus \in ToSet(SurfacesOfHolder) ELSE keyFocus # AWindow

\* The lock screen shows its holder, as configured, and has the keyboard.
LockScreenHolds == LockScreenIsUpToDate /\ ShownAsConfigured /\ HolderIsTypedAt

\* session_lock.rs:226: "this lock already has a surface on that output".  All
\* handles are of one screen.
OneSurfaceEach ==
    \A i, j \in DOMAIN surfaces : surfaces[i].lock = surfaces[j].lock => i = j
=============================================================================
