-------------------------------- MODULE Seat --------------------------------
(***************************************************************************)
(* The seat around the session lock: the frame loop of drm.rs, the panel,  *)
(* the VT presence, the sleep inhibitor, and the display they drive.       *)
(*                                                                         *)
(* One thread runs the compositor, so every handler is one action.  The    *)
(* kernel, the lock clients, the person and logind act between any two of  *)
(* them.  A frame is the scene it shows:                                   *)
(*   "desktop"  windows and chrome                                         *)
(*   "lock"     the lock field and the holder's surfaces                   *)
(*   "black"    the frame that darkens the panel                           *)
(* and what matters of the damage tracker is whether it finds anything to  *)
(* draw.  The flush policy is Full, the default: an accepted frame carries *)
(* the whole composed scene, whatever its damage.                          *)
(***************************************************************************)
EXTENDS SessionLock, Naturals

CONSTANTS
    HasLockClient,      \* config.lock.client names a client
    LocksBeforeSleep,   \* config.sleep.lock_before
    MaxRefusals,        \* the display refuses at most this many flips in a row
    PromptVBlank,       \* a flip is reported before the seat comes back to it
    SleepsElsewhere     \* a sleep may end while another VT holds the seat

ASSUME SeatAssumption ==
    /\ HasLockClient \in BOOLEAN
    /\ LocksBeforeSleep \in BOOLEAN
    /\ MaxRefusals \in Nat
    /\ PromptVBlank \in BOOLEAN
    /\ SleepsElsewhere \in BOOLEAN

Scene == {"desktop", "lock", "black"}

VARIABLES
    away, returning,    \* Presence
    elsewhere,          \* another VT really has the display
    panel,              \* Panel: On, Darkening or Dark
    darkDue, wakeDue,   \* panel_dark_due, panel_wake_due
    panelFlip,          \* panel_flip_in_flight
    owed,               \* the ledger of mekuri holds a cause
    backingOff,         \* FrameRetry is not ready
    flipPending,        \* the loop waits for a VBlank event
    fresh,              \* slots to repaint whole; both are, before a modeset
    composed,           \* the scene the damage tracker saw last
    dirtied,            \* ... and that frame had damage of its own
    refusals,           \* flips refused in a row
    shown,              \* what the glass would show with the panel lit
    queued,             \* the scene of the flip the kernel holds, or "none"
    vblank,             \* a VBlank event is waiting to be read
    sleeping,           \* between PrepareForSleep(true) and (false)
    sleepWait,          \* sleep_wait
    inhibit             \* the last Take or Release the power thread was sent

presenceVars == <<away, returning, elsewhere>>
panelVars == <<panel, darkDue, wakeDue, panelFlip>>
frameVars == <<backingOff, flipPending, fresh, composed, dirtied, refusals>>
glassVars == <<shown, queued, vblank>>
sleepVars == <<sleeping, sleepWait, inhibit>>
seatVars == <<lockVars, presenceVars, panelVars, owed, frameVars, glassVars, sleepVars>>

-----------------------------------------------------------------------------
(* The sleep delay.                                                        *)

\* finish_sleep_wait, after the machine moved and with the panel the handler
\* leaves: the sleep waits no longer once the lock is on the glass, the panel
\* shows nothing or the seat is away.
FinishSleepWait(p) ==
    LET safe == onGlass' \/ p # "on" \/ away
    IN  /\ sleepWait' = (sleepWait /\ ~safe)
        /\ inhibit' = (inhibit /\ ~(sleepWait /\ safe))
        /\ UNCHANGED sleeping

\* lock_scene_on_glass: the display shows nothing it should not.
LockSceneOnGlass(p) == OnGlassNow /\ FinishSleepWait(p)

-----------------------------------------------------------------------------
(* The kernel and the VBlank handler.                                      *)

\* The flip retires: the frame is on the glass and the event is queued.
Retire ==
    /\ queued # "none"
    /\ shown' = queued
    /\ queued' = "none"
    /\ vblank' = TRUE
    /\ UNCHANGED <<lockVars, presenceVars, panelVars, owed, frameVars, sleepVars>>

\* Mutant: a flip of any frame counts as a lock frame.
AnyFrameIsOnGlass == LockSceneOnGlass(panel)

\* Mutant: the retired lock frame does not release the sleep.
LockFrameIsOnGlassOnly == FrameRetired /\ UNCHANGED sleepVars

\* The machine hears of the retired frame, and the holder and the sleep of it.
LockFrameIsOnGlass == FrameRetired /\ FinishSleepWait(panel)

\* The notifier drains every event it finds in one dispatch.
VBlank ==
    /\ vblank
    /\ vblank' = FALSE
    /\ flipPending' = FALSE
    /\ LockFrameIsOnGlass
    /\ darkDue' = (darkDue \/ panelFlip)
    /\ panelFlip' = FALSE
    /\ UNCHANGED <<presenceVars, panel, wakeDue, owed, backingOff, fresh, composed,
                   dirtied, refusals, shown, queued>>

-----------------------------------------------------------------------------
(* One tick of the frame loop: away, refused by the device, or present.    *)

TickAway ==
    /\ away
    /\ backingOff' = FALSE
    /\ LockSceneOnGlass(panel)
    /\ UNCHANGED <<presenceVars, panelVars, owed, flipPending, fresh, composed, dirtied,
                   refusals, glassVars>>

\* The device does not come back: always while another VT has it.
TickRefused ==
    /\ ~away /\ returning /\ ~backingOff
    /\ backingOff' = TRUE
    /\ UNCHANGED <<lockVars, presenceVars, panelVars, owed, flipPending, fresh, composed,
                   dirtied, refusals, glassVars, sleepVars>>

RetryDue ==
    /\ backingOff
    /\ backingOff' = FALSE
    /\ UNCHANGED <<lockVars, presenceVars, panelVars, owed, flipPending, fresh, composed,
                   dirtied, refusals, glassVars, sleepVars>>

\* Mutant: the tick darkens the panel and drops the wake that came after.
SettledPanelForgetsTheWake ==
    IF returning THEN "on" ELSE IF darkDue THEN "dark" ELSE panel

\* What the tick works with, once Returned has lit the panel and forgotten the
\* slots and the flip, and the panel's due changes were made.
SettledPanel ==
    IF returning \/ wakeDue THEN "on" ELSE IF darkDue THEN "dark" ELSE panel

SettledFresh == IF returning THEN 2 ELSE fresh

\* Mutant: a flip from before the seat was left is waited for.
FrameWantedAfterLostFlip ==
    /\ SettledPanel # "dark"
    /\ ~flipPending
    /\ owed \/ returning \/ wakeDue

FrameWanted ==
    /\ SettledPanel # "dark"
    /\ ~flipPending \/ returning
    /\ owed \/ returning \/ wakeDue

\* A tick the display takes part in.
Present ==
    /\ ~away /\ ~backingOff
    /\ returning => ~elsewhere
    /\ returning' = FALSE
    /\ panel' = SettledPanel
    /\ wakeDue' = FALSE
    /\ UNCHANGED <<away, elsewhere>>

\* A dark panel draws nothing and hides whatever the scene is.
TickDark ==
    /\ Present
    /\ SettledPanel = "dark"
    /\ darkDue' = FALSE
    /\ LockSceneOnGlass(SettledPanel)
    /\ UNCHANGED <<panelFlip, owed, frameVars, glassVars>>

\* The last flip is still pending, or no frame is owed.
TickSkips ==
    /\ Present
    /\ SettledPanel # "dark"
    /\ ~FrameWanted
    /\ darkDue' = FALSE
    /\ owed' = (owed \/ wakeDue)
    /\ UNCHANGED <<lockVars, panelFlip, frameVars, glassVars, sleepVars>>

-----------------------------------------------------------------------------
(* The frame itself.                                                       *)

\* Mutant: the scene is decided by the lock alone.
TickSceneIgnoresPanel == IF held THEN "lock" ELSE "desktop"

TickScene ==
    IF SettledPanel # "on" THEN "black" ELSE IF held THEN "lock" ELSE "desktop"

\* Whether the tracker finds damage of this frame's own.  A slot with no
\* history is all damage; so is another scene; else a client may have drawn,
\* or a capture may repaint everything.
HasDamage(damage) == TickScene # composed \/ SettledFresh > 0 => damage

\* activate(true) turned the connectors off: what was queued completes.
GlassReset ==
    IF returning
    THEN /\ shown' = "nothing"
         /\ queued' = "none"
         /\ vblank' = (vblank \/ queued # "none")
    ELSE UNCHANGED glassVars

\* Mutant: the causes of a frame that failed are not put back.
FrameForgotten ==
    /\ Present /\ FrameWanted
    /\ GlassReset
    /\ darkDue' = FALSE
    /\ owed' = FALSE
    /\ backingOff' = TRUE
    /\ flipPending' = FALSE
    /\ fresh' = SettledFresh
    /\ UNCHANGED <<lockVars, panelFlip, sleepVars>>

\* The frame came to nothing, and is owed still.
FrameStaysOwed ==
    /\ Present /\ FrameWanted
    /\ GlassReset
    /\ darkDue' = FALSE
    /\ owed' = TRUE
    /\ backingOff' = TRUE
    /\ flipPending' = FALSE
    /\ fresh' = SettledFresh
    /\ UNCHANGED <<lockVars, panelFlip, sleepVars>>

\* An early `?`: no frame was handed over.  A renderer that failed half way
\* makes the tracker forget.
FrameFails ==
    /\ FrameStaysOwed
    /\ composed' \in {composed, "none"}
    /\ UNCHANGED <<dirtied, refusals>>

\* Nothing to draw, so no flip: the glass holds this scene already.
FrameUnchanged ==
    /\ Present /\ FrameWanted
    /\ HasDamage(FALSE) /\ ~dirtied
    /\ darkDue' = (SettledPanel = "darkening")
    /\ owed' = FALSE
    /\ IF held THEN LockSceneOnGlass(SettledPanel) ELSE UNCHANGED <<lockVars, sleepVars>>
    /\ UNCHANGED <<panelFlip, frameVars, glassVars>>

\* The tracker drew the frame: what is new in it, and for a slot two frames
\* old what the last one brought.
FrameDrawn(damage) ==
    /\ HasDamage(damage)
    /\ damage \/ dirtied
    /\ composed' = TickScene
    /\ dirtied' = damage

\* The flip is refused, though the tracker has seen the frame.
FlipRefused(damage) ==
    /\ FrameStaysOwed
    /\ FrameDrawn(damage)
    /\ refusals < MaxRefusals
    /\ refusals' = refusals + 1

\* Mutant: any frame is noted as a hidden one.
AnyFrameIsInFlight == flipInFlight' = TRUE /\ UNCHANGED <<seal, wire>>

\* lock_frame_flipped.
LockFrameIsInFlight == FrameFlipped

\* The first frame after a modeset is a blocking commit, later ones are queued
\* for the next vblank.  Both report an event.
FlipAccepted(damage) ==
    /\ Present /\ FrameWanted
    /\ FrameDrawn(damage)
    /\ LockFrameIsInFlight
    /\ refusals' = 0
    /\ IF SettledFresh = 2
       THEN shown' = TickScene /\ queued' = "none" /\ vblank' = TRUE
       ELSE queued' = TickScene /\ UNCHANGED <<shown, vblank>>
    /\ fresh' = IF SettledFresh = 0 THEN 0 ELSE SettledFresh - 1
    /\ flipPending' = TRUE
    /\ panelFlip' = (panelFlip \/ SettledPanel = "darkening")
    /\ darkDue' = FALSE
    /\ owed' = FALSE
    /\ UNCHANGED <<backingOff, sleepVars>>

\* A tick that does what it came for.
TickWorks ==
    \/ TickDark
    \/ TickSkips
    \/ FrameUnchanged
    \/ \E damage \in BOOLEAN : FlipAccepted(damage)

TickFails ==
    \/ TickRefused
    \/ FrameFails
    \/ \E damage \in BOOLEAN : FlipRefused(damage)

-----------------------------------------------------------------------------
(* The session: the VT is taken away and given back.                       *)

\* PauseSession.  What was queued never reaches the glass.
Leave ==
    /\ ~elsewhere
    /\ elsewhere' = TRUE
    /\ away' = TRUE
    /\ shown' = "other"
    /\ queued' = "none"
    /\ \/ vblank' = (vblank \/ queued # "none")
       \/ ~PromptVBlank /\ UNCHANGED vblank
    /\ UNCHANGED <<lockVars, returning, panelVars, owed, frameVars, sleepVars>>

\* ActivateSession.
ComeBack ==
    /\ elsewhere
    /\ PromptVBlank => ~vblank
    /\ elsewhere' = FALSE
    /\ away' = FALSE
    /\ returning' = TRUE
    /\ UNCHANGED <<lockVars, panelVars, owed, frameVars, glassVars, sleepVars>>

-----------------------------------------------------------------------------
(* The panel.                                                              *)

\* blank_panel, on the idle clock's word.
Blank ==
    /\ panel = "on"
    /\ panel' = "darkening"
    /\ owed' = TRUE
    /\ UNCHANGED <<lockVars, presenceVars, darkDue, wakeDue, panelFlip, frameVars,
                   glassVars, sleepVars>>

\* Mutant: the flip in flight goes on darkening a panel that was woken.
NoteInputKeepsTheFlip ==
    IF panel = "on"
    THEN UNCHANGED panelVars
    ELSE wakeDue' = TRUE /\ darkDue' = FALSE /\ UNCHANGED <<panel, panelFlip>>

\* note_input.
NoteInput ==
    IF panel = "on"
    THEN UNCHANGED panelVars
    ELSE wakeDue' = TRUE /\ darkDue' = FALSE /\ panelFlip' = FALSE /\ UNCHANGED panel

Input ==
    /\ NoteInput
    /\ UNCHANGED <<lockVars, presenceVars, owed, frameVars, glassVars, sleepVars>>

-----------------------------------------------------------------------------
(* The clients.                                                            *)

\* A commit owes a frame, and so does much else.
ClientCommits ==
    /\ owed' = TRUE
    /\ UNCHANGED <<lockVars, presenceVars, panelVars, frameVars, glassVars, sleepVars>>

\* Only a lock that shuts an open seat owes a frame.
ClientLocks(id) ==
    /\ Lock(id)
    /\ owed' = (owed \/ ~held)
    /\ UNCHANGED <<presenceVars, panelVars, frameVars, glassVars, sleepVars>>

\* Mutant: an unlocked seat owes no frame.
ClientUnlocksSilently(id) ==
    /\ UnlockOpens(id)
    /\ UNCHANGED <<owed, presenceVars, panelVars, frameVars, glassVars, sleepVars>>

ClientUnlocks(id) ==
    /\ UnlockOpens(id)
    /\ owed' = TRUE
    /\ UNCHANGED <<presenceVars, panelVars, frameVars, glassVars, sleepVars>>

\* An invalid unlock and a client that vanished owe a frame if they leave the
\* lock vacant; after a destroy request the place is vacant already.
ClientLoses(id) ==
    /\ \/ UnlockRefused(id) /\ owed' = (owed \/ IsHolder(id))
       \/ LoseObject(id) /\ owed' \in {owed, owed \/ IsHolder(id)}
    /\ UNCHANGED <<presenceVars, panelVars, frameVars, glassVars, sleepVars>>

-----------------------------------------------------------------------------
(* The compositor's own lock, and sleep.                                   *)

LockSession == IF held THEN UNCHANGED lockVars ELSE CompositorLock

\* The idle clock, logind's Lock, a chord or a verb asks for a lock.
SeatLocks ==
    /\ HasLockClient /\ ~held
    /\ LockSession
    /\ owed' = TRUE
    /\ UNCHANGED <<presenceVars, panelVars, frameVars, glassVars, sleepVars>>

\* PrepareForSleep(true) locks first, and waits for the lock frame.
SleepLocks ==
    /\ HasLockClient /\ LocksBeforeSleep
    /\ LockSession
    /\ owed' = TRUE
    /\ LET safe == onGlass' \/ panel # "on" \/ away
       IN  sleepWait' = ~safe /\ inhibit' = (inhibit /\ ~safe)

SleepJustReleases ==
    /\ ~(HasLockClient /\ LocksBeforeSleep)
    /\ inhibit' = FALSE
    /\ UNCHANGED <<lockVars, owed, sleepWait>>

SleepStarts ==
    /\ ~sleeping
    /\ sleeping' = TRUE
    /\ SleepLocks \/ SleepJustReleases
    /\ UNCHANGED <<presenceVars, panelVars, frameVars, glassVars>>

\* Mutant: the seat goes on waiting after the sleep.
SleepForgotten == sleeping' = FALSE /\ inhibit' = TRUE /\ UNCHANGED sleepWait

SleepIsOver == sleeping' = FALSE /\ inhibit' = TRUE /\ sleepWait' = FALSE

\* PrepareForSleep(false): leave and come back in one step.
SleepEnded ==
    /\ sleeping
    /\ SleepsElsewhere \/ ~elsewhere
    /\ SleepIsOver
    /\ away' = FALSE
    /\ returning' = TRUE
    /\ NoteInput
    /\ owed' = TRUE
    /\ UNCHANGED <<lockVars, elsewhere, frameVars, glassVars>>

-----------------------------------------------------------------------------
SeatInit ==
    /\ LockInit
    /\ away = FALSE /\ returning = FALSE /\ elsewhere = FALSE
    /\ panel = "on" /\ darkDue = FALSE /\ wakeDue = FALSE /\ panelFlip = FALSE
    /\ owed = TRUE
    /\ backingOff = FALSE /\ flipPending = FALSE
    /\ fresh = 2 /\ composed = "none" /\ dirtied = FALSE /\ refusals = 0
    /\ shown = "other" /\ queued = "none" /\ vblank = FALSE
    /\ sleeping = FALSE /\ sleepWait = FALSE /\ inhibit = TRUE

Tick == TickAway \/ TickWorks \/ TickFails

Clients ==
    \/ ClientCommits
    \/ \E id \in LockId : ClientLocks(id) \/ ClientUnlocks(id) \/ ClientLoses(id)

SeatNext ==
    \/ Retire \/ VBlank
    \/ Tick \/ RetryDue
    \/ Leave \/ ComeBack
    \/ Blank \/ Input
    \/ Clients
    \/ SeatLocks \/ SleepStarts \/ SleepEnded

\* The kernel completes a flip and the loop reads its events; the timer ticks
\* and back-off ends.  A tick that may do its work again and again, though the
\* display refuses in between, does it some time.
SeatFairness ==
    /\ WF_seatVars(Retire) /\ WF_seatVars(VBlank)
    /\ WF_seatVars(Tick) /\ WF_seatVars(RetryDue)
    /\ SF_seatVars(TickWorks)

SeatSafety == SeatInit /\ [][SeatNext]_seatVars

SeatSpec == SeatSafety /\ SeatFairness

-----------------------------------------------------------------------------
(* Properties.                                                             *)

PresenceTypeOK == away \in BOOLEAN /\ returning \in BOOLEAN /\ elsewhere \in BOOLEAN

PanelTypeOK ==
    /\ panel \in {"on", "darkening", "dark"}
    /\ darkDue \in BOOLEAN /\ wakeDue \in BOOLEAN /\ panelFlip \in BOOLEAN

FrameTypeOK ==
    /\ owed \in BOOLEAN /\ backingOff \in BOOLEAN /\ flipPending \in BOOLEAN
    /\ fresh \in 0..2
    /\ composed \in Scene \cup {"none"} /\ dirtied \in BOOLEAN
    /\ refusals \in 0..MaxRefusals

GlassTypeOK ==
    /\ shown \in Scene \cup {"nothing", "other"}
    /\ queued \in Scene \cup {"none"}
    /\ vblank \in BOOLEAN

SleepTypeOK == sleeping \in BOOLEAN /\ sleepWait \in BOOLEAN /\ inhibit \in BOOLEAN

\* Every variable holds a value of its type.
SeatTypeOK ==
    LockTypeOK /\ PresenceTypeOK /\ PanelTypeOK /\ FrameTypeOK /\ GlassTypeOK /\ SleepTypeOK

DesktopVisible == panel # "dark" /\ shown = "desktop"

\* Once the lock counts as being on the glass, no frame of the desktop is
\* visible: not one queued before the lock, not one an earlier slot holds, not
\* after a VT switch, a wake or a refused flip.  Clients suspend on this word.
\* (drm.rs calls lock_scene_on_glass in three places and frame_retired in one.)
LockedMeansCovered == onGlass => ~DesktopVisible

\* A panel that is off has a black frame behind it, or nothing of this seat's:
\* a wake never shows old pixels.  (blank_panel, panel_flip_in_flight and
\* panel_dark_due against flips, refusals and input.)
DarkPanelIsBlack == panel = "dark" => shown \notin {"desktop", "lock"}

\* Who has the display: the compositor is away only while another VT has it,
\* and knows it is to come back until the device let it.
PresenceInv ==
    /\ away => elsewhere
    /\ elsewhere => (away \/ returning) /\ queued = "none" /\ shown = "other"

\* What the kernel holds is what the loop waits for; an event tells of it.
FlipInv ==
    /\ queued # "none" => flipPending /\ ~vblank
    /\ vblank => flipPending \/ fresh = 2 \/ returning

Covered(scene) == scene \notin {"desktop", "lock"}

\* A step of darkening is under way for a black frame only.
PanelInv ==
    /\ panelFlip => /\ panel = "darkening" /\ flipPending /\ ~returning
                    /\ queued # "none" \/ vblank
                    /\ Covered(queued) /\ (queued = "none" => Covered(shown))
    /\ darkDue => panel = "darkening" /\ ~panelFlip
    /\ darkDue \/ panel = "dark" => queued = "none" /\ Covered(shown)
    /\ wakeDue => ~panelFlip /\ ~darkDue
    /\ ~(returning /\ panelFlip)

\* The frame the tracker saw last is the last one handed over, or the tracker
\* has something to draw yet.
TrackerInv ==
    \/ composed = "none" \/ fresh > 0 \/ (refusals = 1 /\ dirtied)
    \/ queued = composed
    \/ queued = "none" /\ shown \in {composed, "nothing", "other"}

\* A hidden frame in flight, or on the glass, has no desktop after it.
CoverInFlight ==
    /\ flipInFlight => queued # "desktop" /\ (queued = "none" => shown # "desktop")
    /\ onGlass => queued # "desktop" /\ shown # "desktop"

\* The seat's display does what its loop believes: the frame that is pending,
\* the frame last seen by the damage tracker and the one that darkens the
\* panel are those of the kernel.  It holds while a display refuses no two
\* flips in a row and reports every flip in time.
LoopKnowsTheGlass ==
    PresenceInv /\ FlipInv /\ PanelInv /\ TrackerInv /\ CoverInFlight

\* While the machine is asked to sleep and the seat still waits, it holds the
\* inhibitor, and the wait is for a frame of a lock that is really held.  A
\* wait nobody answers would keep the laptop awake in the bag.
SleepWaitIsOwed == sleepWait => sleeping /\ inhibit /\ held /\ ~onGlass

\* What the loop waits for, it has good reason to wait for: its picture of the
\* display is right, and a sleep it holds up is one a lock frame will let go.
LoopWaitsRightly == LoopKnowsTheGlass /\ SleepWaitIsOwed

\* Every handler of the seat moves the lock as the machine allows.
ImplementsSessionLock == LockSpec

\* A holder is told `locked` in the end, unless it leaves first.
HolderIsTold == held /\ holder # NoLock ~> announced \/ holder = NoLock

\* The sleep is let go only when no desktop is visible: DAILY-SEAT.md has the
\* inhibitor released "when a lock frame has retired, or at once if the panel
\* is blank or another VT holds the seat".
SleepsHidden ==
    [][HasLockClient /\ LocksBeforeSleep /\ inhibit /\ ~inhibit' => ~DesktopVisible']_seatVars

\* A sleep that starts while another VT holds the seat waits for no frame
\* (the same sentence).
SleepsAtOnceElsewhere == [][sleepWait' /\ ~sleepWait => ~elsewhere]_seatVars

\* A sleep that waits for the lock frame gets its answer.
SleepIsAnswered == sleepWait ~> ~sleepWait

\* Input lights the panel, whatever was being darkened, as soon as the seat
\* has its display.
InputLightsPanel == wakeDue ~> panel = "on" \/ elsewhere

\* An open, lit seat shows its desktop in the end: no lock or black frame
\* stays on the glass because the ledger forgot the frame that replaces it.
OpenSeatShowsDesktop ==
    ~held /\ panel = "on" ~> shown = "desktop" \/ held \/ panel # "on" \/ elsewhere

\* The seat answers whoever waits for it: the sleep, the hand on the keyboard
\* and the eye on the screen.
SeatAnswers == SleepIsAnswered /\ InputLightsPanel /\ OpenSeatShowsDesktop

=============================================================================
