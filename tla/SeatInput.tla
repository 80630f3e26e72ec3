----------------------------- MODULE SeatInput -----------------------------
(***************************************************************************)
(* What becomes of a key or a button: the press that wakes the panel is    *)
(* swallowed, the rest is remapped, offered to the bindings and forwarded, *)
(* unless the session is locked.  Around it the seat goes to another VT,   *)
(* sleeps, blanks, locks and reloads its configuration, each of them with  *)
(* keys and buttons down.                                                  *)
(*                                                                         *)
(* held is the truth about the fingers; what the seat believes of them is  *)
(* pressed, and the two are told apart by every event that goes elsewhere. *)
(* Which window has the focus is the module Desk's.                        *)
(***************************************************************************)
EXTENDS Naturals

CONSTANTS
    Key,            \* key codes
    NoKey,
    Logo,           \* the modifier of the seat's own chords
    LockKey,        \* with Logo held, the chord of the deed that locks
    Remaps          \* the remap tables the configuration may hold

ASSUME SeatInputAssumption ==
    /\ NoKey \notin Key
    /\ {Logo, LockKey} \subseteq Key
    /\ Remaps \subseteq [Key -> Key]

VARIABLES
    held,           \* the keys that are down
    button,         \* a pointer button is down
    remap,          \* remaps
    pressed,        \* the keys the seat's keyboard believes are down
    swallow,        \* wake_swallow: the press that woke the panel
    orphaned,       \* history: codes in pressed that no release will take out
    lit,            \* the panel is On
    wakeDue,        \* panel_wake_due
    presence,       \* home, away or returning
    locked,         \* the seal is held
    screen,         \* its holder has a surface
    keyFocus,       \* what has the keyboard
    ptrFocus,       \* what has the pointer
    dragging        \* the pointer is grabbed for a move or a resize

keyVars == <<held, remap, pressed, swallow, orphaned>>
panelVars == <<lit, wakeDue>>
sealVars == <<locked, screen>>
focusVars == <<keyFocus, ptrFocus, dragging>>
inputVars == <<keyVars, button, panelVars, presence, sealVars, focusVars>>

Target == {"window", "lock", "nobody"}

\* surface_under: behind the lock, a surface of its holder or nothing.
Under == IF locked' THEN {IF screen' THEN "lock" ELSE "nobody"} ELSE {"window", "nobody"}

\* note_input, and whether it woke the panel.
NoteInput ==
    /\ wakeDue' = (wakeDue \/ ~lit)
    /\ lit' = lit

\* The hotkey the bindings match: the seat's modifier, and what the key became.
Chord(k) == Logo \in pressed /\ remap[k] = LockKey

\* session_shut: grabs and focus are dropped before anything else is asked.
Shut ==
    /\ locked' = TRUE
    /\ screen' = FALSE
    /\ keyFocus' = "nobody"
    /\ ptrFocus' \in Under
    /\ dragging' = FALSE

-----------------------------------------------------------------------------
(* Keys.                                                                   *)

KeyWakes(k) ==
    /\ presence # "away" /\ k \notin held
    /\ ~lit
    /\ NoteInput
    /\ held' = held \cup {k}
    /\ swallow' = k
    /\ UNCHANGED <<remap, pressed, orphaned, button, presence, sealVars, focusVars>>

\* A chord: the press is consumed, and only then the deed is done.
ChordPressed(k) ==
    /\ presence # "away" /\ k \notin held
    /\ lit
    /\ NoteInput
    /\ Chord(k)
    /\ held' = held \cup {k}
    /\ pressed' = pressed \cup {remap[k]}
    /\ IF locked THEN UNCHANGED <<sealVars, focusVars>> ELSE Shut
    /\ UNCHANGED <<remap, swallow, orphaned, button, presence>>

KeyPressed(k) ==
    /\ presence # "away" /\ k \notin held
    /\ lit
    /\ NoteInput
    /\ ~Chord(k)
    /\ held' = held \cup {k}
    /\ pressed' = pressed \cup {remap[k]}
    /\ UNCHANGED <<remap, swallow, orphaned, button, presence, sealVars, focusVars>>

ReleaseSwallowed(k) ==
    /\ presence # "away" /\ k \in held
    /\ swallow = k
    /\ NoteInput
    /\ held' = held \ {k}
    /\ swallow' = NoKey
    /\ orphaned' = orphaned \cup (pressed \cap {remap[k]})
    /\ UNCHANGED <<remap, pressed, button, presence, sealVars, focusVars>>

\* Mutant: the table is applied to presses only.
KeyReleasedAsItCame(k) ==
    /\ presence # "away" /\ k \in held
    /\ swallow # k
    /\ NoteInput
    /\ held' = held \ {k}
    /\ pressed' = pressed \ {k}
    /\ orphaned' = orphaned \ {k}
    /\ UNCHANGED <<remap, swallow, button, presence, sealVars, focusVars>>

KeyReleased(k) ==
    /\ presence # "away" /\ k \in held
    /\ swallow # k
    /\ NoteInput
    /\ held' = held \ {k}
    /\ pressed' = pressed \ {remap[k]}
    /\ orphaned' = orphaned \ {remap[k]}
    /\ UNCHANGED <<remap, swallow, button, presence, sealVars, focusVars>>

\* A key that is pressed or released while another VT holds the seat.
KeyElsewhere(k) ==
    /\ presence = "away"
    /\ held' = IF k \in held THEN held \ {k} ELSE held \cup {k}
    /\ UNCHANGED <<remap, pressed, swallow, orphaned, button, panelVars, presence, sealVars,
                   focusVars>>

-----------------------------------------------------------------------------
(* The pointer.                                                            *)

\* The press that wakes is dropped; its release is not.
ButtonWakes ==
    /\ presence # "away" /\ ~button
    /\ ~lit
    /\ NoteInput
    /\ button' = TRUE
    /\ UNCHANGED <<keyVars, presence, sealVars, focusVars>>

\* A press on the desk moves the keyboard and may begin a drag.
ButtonPressed ==
    /\ presence # "away" /\ ~button
    /\ lit
    /\ NoteInput
    /\ button' = TRUE
    /\ IF locked \/ dragging
       THEN UNCHANGED <<keyFocus, dragging>>
       ELSE /\ keyFocus' \in {"window", "nobody"}
            /\ dragging' \in {FALSE, keyFocus' = "window"}
    /\ UNCHANGED <<keyVars, presence, sealVars, ptrFocus>>

ButtonReleased ==
    /\ presence # "away" /\ button
    /\ NoteInput
    /\ button' = FALSE
    /\ dragging' = FALSE
    /\ UNCHANGED <<keyVars, presence, sealVars, keyFocus, ptrFocus>>

ButtonElsewhere ==
    /\ presence = "away"
    /\ button' = ~button
    /\ UNCHANGED <<keyVars, panelVars, presence, sealVars, focusVars>>

PointerMotion ==
    /\ presence # "away"
    /\ NoteInput
    /\ UNCHANGED sealVars
    /\ ptrFocus' \in Under
    /\ UNCHANGED <<keyVars, button, presence, keyFocus, dragging>>

-----------------------------------------------------------------------------
(* What goes on around them.                                               *)

\* seat_tick's Blank.
BlankPanel ==
    /\ lit
    /\ lit' = FALSE
    /\ UNCHANGED <<keyVars, button, wakeDue, presence, sealVars, focusVars>>

\* The tick that lights the panel, or the one that finds the seat returned.
LightPanel ==
    /\ presence # "away"
    /\ wakeDue \/ presence = "returning"
    /\ lit' = TRUE
    /\ wakeDue' = FALSE
    /\ presence' = "home"
    /\ UNCHANGED <<keyVars, button, sealVars, focusVars>>

PauseSession ==
    /\ presence # "away"
    /\ presence' = "away"
    /\ UNCHANGED <<keyVars, button, panelVars, sealVars, focusVars>>

\* Mutant: the keys of before the switch stay down.
ReturnsKeepingKeys ==
    /\ presence = "away"
    /\ presence' = "returning"
    /\ UNCHANGED <<keyVars, button, panelVars, sealVars, focusVars>>

\* ActivateSession; every key the seat believes is down is released.
ActivateSession ==
    /\ presence = "away"
    /\ presence' = "returning"
    /\ pressed' = {}
    /\ orphaned' = {}
    /\ UNCHANGED <<held, remap, swallow, button, panelVars, sealVars, focusVars>>

\* sleep_ended, which also counts as input.  Fingers move while it sleeps.
SleepEnded ==
    /\ presence # "away"
    /\ presence' = "returning"
    /\ held' \in SUBSET held
    /\ pressed' = {}
    /\ orphaned' = {}
    /\ NoteInput
    /\ UNCHANGED <<remap, swallow, button, sealVars, focusVars>>

\* adopt_config: the next event is looked up in the new table.
AdoptRemaps ==
    /\ remap' \in Remaps \ {remap}
    /\ orphaned' = orphaned \cup (pressed \ {remap'[k] : k \in held})
    /\ UNCHANGED <<held, pressed, swallow, button, panelVars, presence,
                   sealVars, focusVars>>

-----------------------------------------------------------------------------
(* The lock, as it takes and gives the focus.                              *)

\* Mutant: the grab outlives the lock.
LockSessionKeepsGrab ==
    /\ ~locked
    /\ locked' = TRUE
    /\ screen' = FALSE
    /\ keyFocus' = "nobody"
    /\ ptrFocus' \in Under
    /\ UNCHANGED <<keyVars, button, panelVars, presence, dragging>>

\* Mutant: the pointer stays where it was.
LockSessionKeepsPointer ==
    /\ ~locked
    /\ locked' = TRUE
    /\ screen' = FALSE
    /\ keyFocus' = "nobody"
    /\ dragging' = FALSE
    /\ UNCHANGED <<keyVars, button, panelVars, presence, ptrFocus>>

LockSession ==
    /\ ~locked
    /\ Shut
    /\ UNCHANGED <<keyVars, button, panelVars, presence>>

\* lock_surface_committed: focus_holder_surface.
HolderCommits ==
    /\ locked
    /\ screen' = TRUE
    /\ keyFocus' = "lock"
    /\ locked' = locked
    /\ ptrFocus' \in Under
    /\ UNCHANGED <<keyVars, button, panelVars, presence, dragging>>

\* The holder dies; with a seal of its own to lose, the focus is dropped too.
HolderGone ==
    /\ locked /\ screen
    /\ screen' = FALSE
    /\ locked' = locked
    /\ \/ keyFocus' = "nobody" /\ ptrFocus' \in Under
       \/ UNCHANGED <<keyFocus, ptrFocus>>
    /\ UNCHANGED <<keyVars, button, panelVars, presence, dragging>>

SessionOpened ==
    /\ locked /\ screen
    /\ locked' = FALSE
    /\ screen' = FALSE
    /\ keyFocus' \in {"window", "nobody"}
    /\ ptrFocus' \in Under
    /\ UNCHANGED <<keyVars, button, panelVars, presence, dragging>>

-----------------------------------------------------------------------------
InputInit ==
    /\ held = {} /\ button = FALSE
    /\ remap \in Remaps
    /\ pressed = {}
    /\ swallow = NoKey
    /\ orphaned = {}
    /\ lit = TRUE /\ wakeDue = FALSE
    /\ presence = "home"
    /\ locked = FALSE /\ screen = FALSE
    /\ keyFocus = "nobody" /\ ptrFocus = "nobody"
    /\ dragging = FALSE

KeyEvent ==
    \E k \in Key :
        \/ KeyWakes(k) \/ ChordPressed(k) \/ KeyPressed(k)
        \/ ReleaseSwallowed(k) \/ KeyReleased(k) \/ KeyElsewhere(k)

PointerEvent ==
    ButtonWakes \/ ButtonPressed \/ ButtonReleased \/ ButtonElsewhere \/ PointerMotion

InputNext ==
    \/ KeyEvent \/ PointerEvent
    \/ BlankPanel \/ LightPanel \/ PauseSession \/ ActivateSession \/ SleepEnded \/ AdoptRemaps
    \/ LockSession \/ HolderCommits \/ HolderGone \/ SessionOpened

InputSpec == InputInit /\ [][InputNext]_inputVars

-----------------------------------------------------------------------------
(* Properties.                                                             *)

\* The state is well typed.
InputTypeOK ==
    /\ held \subseteq Key /\ pressed \subseteq Key /\ orphaned \subseteq Key
    /\ remap \in Remaps
    /\ swallow \in Key \cup {NoKey}
    /\ {button, lit, wakeDue, locked, screen, dragging} \subseteq BOOLEAN
    /\ presence \in {"home", "away", "returning"}
    /\ keyFocus \in Target /\ ptrFocus \in Target

\* At home the seat takes no key for down that nobody holds (a modifier stuck
\* there turns every later key into a chord, Omoya::release_all_keys): not after
\* a key was let go on another VT or in a sleep, nor when a table maps it.  Two
\* cases are known to strand one: its release is swallowed for that of the press
\* that woke the panel, or the table changes while it is down.
SeatKeysAreDown ==
    presence # "away" => pressed \subseteq {remap[k] : k \in held} \cup orphaned

\* Behind the lock neither the pointer nor a drag is left on a window, whatever
\* was held, grabbed or under the pointer when the session was locked.
SealedPointer ==
    locked => /\ ptrFocus # "window"
              /\ keyFocus # "window"
              /\ ~dragging

=============================================================================
