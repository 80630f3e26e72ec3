-------------------------------- MODULE Desk --------------------------------
(***************************************************************************)
(* The desk of the seat: which windows exist, which of them the layout     *)
(* puts on the screen, and who has the keyboard.  Clients come and go,     *)
(* the person clicks, drags and asks for deeds, layers ask for the         *)
(* keyboard and the session is locked and opened: each handler is one      *)
(* action, and they come in any order.                                     *)
(*                                                                         *)
(* Geometry is left out.  The stacking order is the library's, so that     *)
(* where the code takes the topmost window the model takes any, and a      *)
(* neighbour in a direction is any other.  There is one output, and no     *)
(* window is of an application that the configuration places by itself.    *)
(***************************************************************************)
EXTENDS WindowMode

CONSTANTS
    Window,         \* toplevels
    Layer,          \* layer surfaces on the Top or Overlay layer
    Screen,         \* surfaces of lock clients
    NoOne,          \* no surface
    BehindLock,     \* deeds the world binds to run behind the lock
    Layouts         \* what the configuration may say: layout.mode is floating

Deed == {"ToggleMaximize", "Minimize", "RestoreLast", "TabNext", "TabPrev", "TabJoin",
         "TabLeave", "Focus", "Resize"}

ASSUME DeskAssumption ==
    /\ Id = Window \cup Layer \cup Screen
    /\ Window \cap Layer = {} /\ Window \cap Screen = {} /\ Layer \cap Screen = {}
    /\ NoOne \notin Id
    /\ BehindLock \subseteq Deed
    /\ Layouts \subseteq BOOLEAN

VARIABLES
    roster,         \* every toplevel that exists
    space,          \* the windows mapped to the screen
    tree,           \* the windows the tiling tree holds
    floating,       \* layout.mode is floating
    windows,        \* the tables of WindowMode
    focus,          \* the surface with the keyboard
    previous,       \* previous_focus
    grab,           \* the window of a move or resize grab
    layers,         \* the layer surfaces mapped
    exclusive,      \* ... that ask for the keyboard
    shut,           \* the session is locked
    screens         \* the surfaces of the lock's holder

layerVars == <<layers, exclusive>>
lockVars == <<shut, screens>>
deskVars == <<roster, space, tree, floating, windows, focus, previous, grab, layerVars,
              lockVars>>

\* Nothing knows the id: it can stand for one that was not handed out yet.
Fresh(x) ==
    /\ x \notin roster \cup space \cup layers \cup screens \cup {focus, previous, grab}
    /\ windows.mode[x] = "normal"
    /\ x \notin ToSet(windows.order)
    /\ GroupsOf(windows, x) = {}

-----------------------------------------------------------------------------
(* Layout and focus, what the handlers are made of.                        *)

\* apply_layout, from the tree and the space the handler leaves: every float
\* leaves the tree, and the windows that float or tile are mapped or, when the
\* tables hide them, unmapped.  A window that does neither stays as it is.
ApplyLayout(tr, sp) ==
    LET laid == IF floating' THEN roster' ELSE tr
    IN  /\ tree' = IF floating' THEN {} ELSE tr
        /\ space' = (sp \ laid) \cup {x \in laid : ~Hidden(windows', x)}

\* focus_window, where the keyboard was on f and previous_focus was p.
FocusWindow(x, f, p) ==
    /\ focus' = IF shut' THEN f ELSE x
    /\ previous' = IF shut' \/ f = x THEN p ELSE f

KeepFocus(f, p) == focus' = f /\ previous' = p

\* focus_any_visible, over the windows mapped to the screen.
FocusAnyVisible(sp, f, p) ==
    LET visible == {x \in sp : ~Hidden(windows', x)}
    IN  IF shut' \/ visible = {} THEN KeepFocus(f, p)
        ELSE \E x \in visible : FocusWindow(x, f, p)

\* focus_surface_id, which looks for the window on the screen.
FocusSurface(x) ==
    IF x \in space THEN FocusWindow(x, focus, previous) ELSE KeepFocus(focus, previous)

-----------------------------------------------------------------------------
(* Windows come and go.                                                    *)

\* Mutant: a new window takes the keyboard, lock or no lock.
NewToplevelTakesTheKeyboard(w) ==
    /\ Fresh(w)
    /\ roster' = roster \cup {w}
    /\ UNCHANGED <<floating, windows>>
    /\ ApplyLayout(tree \cup {w}, space \cup {w})
    /\ KeepFocus(w, previous)
    /\ UNCHANGED <<grab, layerVars, lockVars>>

NewToplevel(w) ==
    /\ Fresh(w)
    /\ roster' = roster \cup {w}
    /\ UNCHANGED <<floating, windows>>
    /\ ApplyLayout(tree \cup {w}, space \cup {w})
    /\ KeepFocus(IF shut THEN focus ELSE w, previous)
    /\ UNCHANGED <<grab, layerVars, lockVars>>

\* Mutant: the successor is looked for before the layout maps its sibling.
ToplevelDestroyedFocusesFirst(w) ==
    /\ w \in roster
    /\ roster' = roster \ {w}
    /\ windows' = Forget(windows, w)
    /\ UNCHANGED <<floating, grab, layerVars, lockVars>>
    /\ ApplyLayout(tree \ {w}, space \ {w})
    /\ FocusAnyVisible(space \ {w}, focus, IF previous = w THEN NoOne ELSE previous)

\* Mutant: a window that is gone keeps its place in the tree.
ToplevelDestroyedStaysTiled(w) ==
    /\ w \in roster
    /\ roster' = roster \ {w}
    /\ windows' = Forget(windows, w)
    /\ UNCHANGED <<floating, grab, layerVars, lockVars>>
    /\ ApplyLayout(tree, space \ {w})
    /\ FocusAnyVisible(space', focus, IF previous = w THEN NoOne ELSE previous)

ToplevelDestroyed(w) ==
    /\ w \in roster
    /\ roster' = roster \ {w}
    /\ windows' = Forget(windows, w)
    /\ UNCHANGED <<floating, grab, layerVars, lockVars>>
    /\ ApplyLayout(tree \ {w}, space \ {w})
    /\ FocusAnyVisible(space', focus, IF previous = w THEN NoOne ELSE previous)

\* space.refresh, once a frame: what was destroyed leaves the space.
Refresh ==
    /\ ~(space \subseteq roster)
    /\ space' = space \cap roster
    /\ UNCHANGED <<roster, tree, floating, windows, focus, previous, grab, layerVars, lockVars>>

\* Mutant: the new mode is adopted and the desk is not laid out again.
AdoptConfigUnlaid ==
    /\ floating' \in Layouts
    /\ UNCHANGED <<roster, space, tree, windows, focus, previous, grab, layerVars, lockVars>>

\* adopt_config: the layout mode is read from the configuration at each pass.
AdoptConfig ==
    /\ floating' \in Layouts
    /\ UNCHANGED <<roster, windows, focus, previous, grab, layerVars, lockVars>>
    /\ ApplyLayout(tree, space)

-----------------------------------------------------------------------------
(* Deeds, by chord or by the socket.  A refused deed changes nothing.  The *)
(* verbs of a titlebar are these too, with the keyboard on its window.     *)

Runs(deed) == ~shut \/ deed \in BehindLock

ToggleMaximized(f) ==
    /\ f # NoOne
    /\ windows' = ToggleMaximize(windows, f)
    /\ KeepFocus(f, previous)
    /\ UNCHANGED <<roster, floating, grab, layerVars, lockVars>>
    /\ ApplyLayout(tree, space)

\* Mutant: the window leaves the tables and not the screen.
MinimizedStays(f) ==
    /\ f # NoOne
    /\ windows' = Minimize(windows, f)
    /\ UNCHANGED <<roster, space, tree, floating, grab, layerVars, lockVars>>
    /\ FocusAnyVisible(space, f, previous)

Minimized(f) ==
    /\ f # NoOne
    /\ windows' = Minimize(windows, f)
    /\ UNCHANGED <<roster, floating, grab, layerVars, lockVars>>
    /\ FocusAnyVisible(space, f, previous)
    /\ ApplyLayout(tree, space)

Restored ==
    /\ windows.order # <<>>
    /\ windows' = RestoreLast(windows)
    /\ UNCHANGED <<roster, floating, grab, layerVars, lockVars>>
    /\ FocusSurface(Last(windows.order))
    /\ ApplyLayout(tree, space)

Cycled(forward) ==
    /\ GroupsOf(windows, focus) # {}
    /\ windows' = Cycle(windows, focus, forward)
    /\ UNCHANGED <<roster, floating, grab, layerVars, lockVars>>
    /\ \E g \in GroupsOf(windows', focus) : FocusSurface(ShownTab(g))
    /\ ApplyLayout(tree, space)

TabJoined ==
    /\ focus # NoOne /\ previous # NoOne /\ focus # previous
    /\ windows' = Join(windows, focus, previous)
    /\ UNCHANGED <<roster, floating, focus, previous, grab, layerVars, lockVars>>
    /\ ApplyLayout(tree, space)

\* Mutant: the tab that comes forward is not laid out.
TabLeftUnlaid ==
    /\ GroupsOf(windows, focus) # {}
    /\ windows' = Leave(windows, focus)
    /\ UNCHANGED <<roster, space, tree, floating, focus, previous, grab, layerVars, lockVars>>

TabLeft ==
    /\ GroupsOf(windows, focus) # {}
    /\ windows' = Leave(windows, focus)
    /\ UNCHANGED <<roster, floating, focus, previous, grab, layerVars, lockVars>>
    /\ ApplyLayout(tree, space)

\* A neighbour on the screen, or in the tree, which holds hidden windows too.
FocusDirection ==
    /\ UNCHANGED <<roster, space, tree, floating, windows, grab, layerVars, lockVars>>
    /\ \E x \in IF floating THEN space \ {focus} ELSE tree : FocusWindow(x, focus, previous)

\* Resize and, of a floating window, Snap: the claims on its geometry go.
Resized ==
    /\ floating => focus \in space
    /\ windows' = IF floating THEN Unmaximize(windows, focus) ELSE windows
    /\ UNCHANGED <<roster, floating, focus, previous, grab, layerVars, lockVars>>
    /\ ApplyLayout(tree, space)

Perform ==
    \/ Runs("ToggleMaximize") /\ ToggleMaximized(focus)
    \/ Runs("Minimize") /\ Minimized(focus)
    \/ Runs("RestoreLast") /\ Restored
    \/ Runs("TabNext") /\ Cycled(TRUE)
    \/ Runs("TabPrev") /\ Cycled(FALSE)
    \/ Runs("TabJoin") /\ TabJoined
    \/ Runs("TabLeave") /\ TabLeft
    \/ Runs("Focus") /\ FocusDirection
    \/ Runs("Resize") /\ Resized

-----------------------------------------------------------------------------
(* The pointer.  A press means something to the desk only while the        *)
(* session is open and nothing is grabbed.                                 *)

PressCounts == ~shut /\ grab = NoOne

Click(w) ==
    /\ PressCounts
    /\ w \in space
    /\ focus' = w
    /\ UNCHANGED <<roster, space, tree, floating, windows, previous, grab, layerVars, lockVars>>

\* Bare desktop, and a layer with no window under it.
ClickBackground ==
    /\ PressCounts
    /\ focus' = NoOne
    /\ UNCHANGED <<roster, space, tree, floating, windows, previous, grab, layerVars, lockVars>>

PressTitlebar(w) ==
    /\ PressCounts
    /\ floating
    /\ w \in space
    /\ Minimized(w) \/ ToggleMaximized(w)

\* A titlebar or an edge takes the keyboard with it; a chord with a button
\* does not, and moves a window in either layout.
BeginDrag(w) ==
    /\ PressCounts
    /\ w \in space
    /\ grab' = w
    /\ focus' = focus \/ (floating /\ focus' = w)
    /\ UNCHANGED <<roster, space, tree, floating, windows, previous, layerVars, lockVars>>

\* move_request and resize_request ask for the serial of a press that is held,
\* not for an open session: a lock client can have been given one.
RequestDrag(w) ==
    /\ w \in space
    /\ grab' = w
    /\ UNCHANGED <<roster, space, tree, floating, windows, focus, previous, layerVars, lockVars>>

\* The motion maps the window wherever it is, alive, hidden or not; a move that
\* frees it from a tile or from being maximised lays the desk out before that.
DragMotion ==
    /\ grab # NoOne
    /\ windows' = Unmaximize(windows, grab)
    /\ UNCHANGED <<roster, floating, focus, previous, grab, layerVars, lockVars>>
    /\ \/ UNCHANGED tree /\ space' = space \cup {grab}
       \/ /\ tree' = IF floating THEN {} ELSE tree
          /\ LET laid == IF floating THEN roster ELSE tree
             IN  space' = (space \ laid) \cup {x \in laid : ~Hidden(windows', x)} \cup {grab}

\* Released over an edge the window takes a tile, and the desk is laid out.
EndDrag ==
    /\ grab # NoOne
    /\ grab' = NoOne
    /\ UNCHANGED <<roster, floating, windows, focus, previous, layerVars, lockVars>>
    /\ UNCHANGED <<space, tree>> \/ ApplyLayout(tree, space)

-----------------------------------------------------------------------------
(* Layers.                                                                 *)

NewLayer(l) ==
    /\ Fresh(l)
    /\ layers' = layers \cup {l}
    /\ UNCHANGED <<roster, floating, windows, focus, previous, grab, exclusive, lockVars>>
    /\ ApplyLayout(tree, space)

\* A commit says whether the layer wants the keyboard, and whichever layer
\* commits, the keyboard goes to one that does.
CommitLayer(l) ==
    /\ l \in layers
    /\ exclusive' \in {exclusive \cup {l}, exclusive \ {l}}
    /\ IF shut \/ exclusive' = {} THEN focus' = focus ELSE focus' \in exclusive'
    /\ UNCHANGED <<roster, space, tree, floating, windows, previous, grab, layers, lockVars>>

LayerDestroyed(l) ==
    /\ l \in layers
    /\ layers' = layers \ {l}
    /\ exclusive' = exclusive \ {l}
    /\ UNCHANGED <<roster, floating, windows, focus, previous, grab, lockVars>>
    /\ ApplyLayout(tree, space)

-----------------------------------------------------------------------------
(* The lock: SessionLock decides when, this is what it does to the desk.   *)

SessionShut ==
    /\ ~shut
    /\ shut' = TRUE
    /\ grab' = NoOne
    /\ focus' = NoOne
    /\ UNCHANGED <<roster, space, tree, floating, windows, previous, layerVars, screens>>

\* One lock surface for each output.
GetLockSurface(k) ==
    /\ shut
    /\ screens = {}
    /\ Fresh(k)
    /\ screens' = {k}
    /\ UNCHANGED <<roster, space, tree, floating, windows, focus, previous, grab, layerVars,
                   shut>>

LockSurfaceCommitted ==
    /\ screens # {}
    /\ focus' \in screens
    /\ UNCHANGED <<roster, space, tree, floating, windows, previous, grab, layerVars, lockVars>>

LockSurfaceDestroyed ==
    /\ screens # {}
    /\ screens' = {}
    /\ UNCHANGED <<roster, space, tree, floating, windows, focus, previous, grab, layerVars,
                   shut>>

\* A holder that destroys its lock was let go before it is gone, and keeps the
\* keyboard on its dead surface.
HolderGone ==
    /\ shut
    /\ screens' = {}
    /\ focus' \in {NoOne, focus}
    /\ UNCHANGED <<roster, space, tree, floating, windows, previous, grab, layerVars, shut>>

SessionOpened ==
    /\ shut
    /\ shut' = FALSE
    /\ screens' = {}
    /\ UNCHANGED <<roster, space, tree, floating, windows, grab, layerVars>>
    /\ FocusAnyVisible(space, focus, previous)

-----------------------------------------------------------------------------
(* The specification.                                                      *)

DeskInit ==
    /\ roster = {} /\ space = {} /\ tree = {}
    /\ floating \in Layouts
    /\ windows = NewTables
    /\ focus = NoOne /\ previous = NoOne /\ grab = NoOne
    /\ layers = {} /\ exclusive = {}
    /\ shut = FALSE /\ screens = {}

WindowSteps ==
    \/ \E w \in Window : NewToplevel(w) \/ ToplevelDestroyed(w)
    \/ Refresh
    \/ AdoptConfig

PointerSteps ==
    \/ \E w \in Window : Click(w) \/ PressTitlebar(w) \/ BeginDrag(w) \/ RequestDrag(w)
    \/ ClickBackground
    \/ DragMotion
    \/ EndDrag

LayerSteps == \E l \in Layer : NewLayer(l) \/ CommitLayer(l) \/ LayerDestroyed(l)

LockSteps ==
    \/ SessionShut
    \/ \E k \in Screen : GetLockSurface(k)
    \/ LockSurfaceCommitted
    \/ LockSurfaceDestroyed
    \/ HolderGone
    \/ SessionOpened

DeskNext == WindowSteps \/ Perform \/ PointerSteps \/ LayerSteps \/ LockSteps

DeskSpec == DeskInit /\ [][DeskNext]_deskVars

-----------------------------------------------------------------------------
(* Properties.                                                             *)

\* Every variable has its type: in particular the tables stay well typed
\* through every deed, whatever surface the keyboard was on.
DeskTypeOK ==
    /\ roster \subseteq Window /\ space \subseteq Window /\ tree \subseteq roster
    /\ floating \in Layouts
    /\ windows \in Tables
    /\ focus \in Id \cup {NoOne} /\ previous \in Id \cup {NoOne}
    /\ grab \in Window \cup {NoOne}
    /\ layers \subseteq Layer /\ exclusive \subseteq layers
    /\ shut \in BOOLEAN /\ screens \subseteq Screen

\* While the session is locked the keyboard is on a surface of a lock client or
\* on nothing: not after a new window, a closed one, a press, a drag, a layer
\* that wants the keyboard or a deed that runs behind the lock.
SealedKeyboard == shut => focus \in Screen \cup {NoOne}

\* After any run of deeds and closed windows a tab group has two tabs or more,
\* none twice, one of them shown, and no window is in two groups.
TabGroupsHold == TabsWellFormed(windows)

\* The restore queue and the modes agree: what is minimised can be restored, and
\* nothing else can.
RestoreQueueHolds == QueueIsTheMinimized(windows)

\* When a group loses a tab it was not showing, it goes on showing the same one.
ShownTabStays ==
    [][\A g \in windows.groups, h \in windows'.groups :
          /\ ToSet(h.members) \subseteq ToSet(g.members)
          /\ Len(h.members) < Len(g.members)
          /\ ShownTab(g) \in ToSet(h.members)
          => ShownTab(h) = ShownTab(g)]_deskVars

Laid == IF floating THEN roster ELSE tree

\* A window the layout lays out and the tables do not hide is on the screen,
\* whatever way it came forward.
ShownIsOnScreen == \A x \in Laid : Hidden(windows, x) \/ x \in space

\* A window laid out and hidden is off the screen: only the drag of that very
\* window can bring it there.
HiddenLeavesTheScreen ==
    [][\A x \in Laid' : Hidden(windows, x)' /\ x \in space'
          => grab = x \/ (Hidden(windows, x) /\ x \in space)]_deskVars

\* The tables of the tabs and the restore queue hold together, and the screen
\* shows what they say.
WindowsHold == TabGroupsHold /\ RestoreQueueHolds /\ ShownIsOnScreen

\* No deed turns a tab group's page behind the operator's back, or leaves on
\* the screen what it hid.
ScreenFollowsTheTables == ShownTabStays /\ HiddenLeavesTheScreen

OnScreen == {x \in space : ~Hidden(windows, x)}

\* When a window is destroyed or minimised, or the session opens, the keyboard
\* goes to a window on the screen if there is one.  (A drag can put a destroyed
\* window back into the space until it is refreshed.)
KeyboardFindsAWindow ==
    [][/\ \/ \E w \in Window : w \in roster \ roster'
          \/ Len(windows'.order) > Len(windows.order)
          \/ shut /\ ~shut'
       /\ ~shut'
       /\ space' \subseteq roster'
       /\ OnScreen' # {}
       => focus' \in OnScreen']_deskVars

\* The deed that brings the last minimised window back gives it the keyboard.
RestoredHasTheKeyboard ==
    [][Len(windows'.order) < Len(windows.order) /\ roster' = roster
          => \A x \in roster : x \in OnScreen' \ OnScreen => focus' = x]_deskVars

\* What the tables and previous_focus name is a window that exists.
TablesNameWindows ==
    /\ ToSet(windows.order) \subseteq roster
    /\ \A g \in windows.groups : ToSet(g.members) \subseteq roster
    /\ previous \in roster \cup {NoOne}

=============================================================================
