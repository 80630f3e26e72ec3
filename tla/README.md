# omoya: a TLA+ verification project

omoya is a Wayland compositor that owns a Linux seat: it draws windows into two
scan-out buffers, listens to the keyboard, the pointer and the touchpad, locks
the session, blanks the panel, gives the display to another VT and takes it
back, and lets the machine sleep. This directory holds a model of it in TLA+, the
TLC runs that check the model on small instances, and TLAPS proofs of what
holds on every instance.

The model is written from the code under `crates/`. The documents of the
repository (`docs/DAILY-SEAT.md` above all) say what the code is for; where the
two disagree, a run shows it (see *Disagreements*).

## The system

The compositor is one process and one thread: a calloop event loop calls the
handlers one at a time, so a handler is atomic and everything else happens
between two of them. A few threads stand around the loop and talk to it through
channels (logind signals, the power thread, bar modules, the world watcher, the
introspection socket).

| Component | Where | State it keeps | Operations | Talks to |
|---|---|---|---|---|
| session lock machine | `omoya-spec/src/session_lock.rs` | seal (open, or held with holder, announced, on_glass), flip_in_flight | request, unlock, destroy, holder_gone, compositor_lock, frame_flipped, frame_retired, on_glass_now | called by the wire and the frame loop |
| session lock wire | `omoya/src/session_lock.rs` | ids minted, the object map, lock surfaces, respawn instant and back-off | Lock, GetLockSurface, UnlockAndDestroy, Destroy, destroyed, AckConfigure | the machine, the ledger, input focus, logind hints |
| frame loop | `omoya/src/drm.rs`, `owed.rs`, `scanout.rs` | the ledger of owed causes, flip_pending, retry back-off, slot ages, the damage tracker | the tick, the VBlank handler | kernel, presence, panel, lock machine, captures |
| VT presence | `omoya/src/presence.rs`, `main.rs` | away, returning, paused | leave, come_back, settle | session events, the DRM device |
| panel and idle clock | `omoya-spec/src/idle.rs`, `omoya/src/world.rs` | On / Darkening / Dark, due changes, last input, inhibitors | tick, input, blank_panel, note_input | frame loop, bar modules, logind hint |
| sleep | `omoya/src/world.rs`, `power.rs` | sleep_wait, the inhibitor of the power thread | sleep_starts, finish_sleep_wait, sleep_ended | lock, presence, power thread |
| lock client supervisor | `omoya/src/session_lock.rs` | respawn_at, respawn_wait | arm_respawn, respawn_due | machine, spawn |
| screen capture | `omoya/src/screencopy.rs` | pending copies, the screenshot due | capture, copy, deliver_shots, fail_pending_shots | frame loop, lock |
| input and focus | `omoya/src/input.rs`, `grab.rs`, `chord.rs` | keyboard and pointer focus, grabs, the swallowed wake key | key, button, motion, focus changes | lock, windows, deeds |
| deeds | `omoya/src/deed.rs`, `introspect.rs`, `mcp.rs` | the queue of verbs, counters | perform | everything a chord can do |
| windows | `omoya/src/layout.rs`, `windowmode.rs`, `placement.rs`, `snap.rs`, `rouka.rs` | the tiling tree, placement of each window, hidden windows | map, unmap, float, tab, minimise, snap | ledger, focus |
| logind session | `omoya/src/logind.rs` | devices taken, active or paused | open, close, PauseDevice, ResumeDevice, change_vt | loop, evdev |
| input devices | `omoya/src/evdev_backend.rs`, `uevent.rs` | open devices, armed descriptors | hotplug, re-arm, read | logind, input |
| touchpad | `nazoru/src` | contacts, gesture state | one event at a time | input devices |
| keyboard | `hairetsu/src`, `xkbcommon-hairetsu/src` | modifiers down, locked | key to symbol | input |
| damage | `omoya/src/truedamage.rs`, `stale.rs`, `ground.rs` | shadows of buffers, unpresented damage | refine_commit, mark_presented | commits, frame loop |
| world | `omoya/src/world.rs`, `config.rs` | generation, config, commands, binds, cells | adopt_world, on_seat_message | everything that reads the config |
| bar modules, notes | `omoya/src/bar_modules.rs`, `notes.rs` | threads and their judges; a queue of notes | pause, resume, set; push, expire | world, ledger |
| mode machine | `omoya-spec/src/lib.rs` | Entrance, Session or Locked as a type | enter, lock, unlock | enforced by the compiler |
| renderers | `nuri`, `kasane` | pixels | render | frame loop |

What is hard in it: the lock, the panel, the VT switch and the sleep are four
small state machines that share the frame loop, which acts for each of them one
frame late. What a handler decides is true when it runs; the frame it decided
for reaches the glass a vblank later, may be refused, may be dropped by a VT
switch, or may turn out to contain nothing new, and meanwhile every other
machine moves. Each machine has its own flag for "my frame is in flight" and
they are reset in different places. `PROJECT.json` lists the hazards by line.

## The modules

| Module | What it is |
|---|---|
| `SeatSeal` | The abstract promise of a session lock: a seat that is shut, a key handed to one client at a time and to none twice, and one way to open it. |
| `SessionLock` | The lock machine with the wire objects around it. One action per method of the machine or per handler of the wire. |
| `Seat` | `SessionLock` plus the frame loop, the panel, the VT presence, the sleep delay and the display (kernel and damage tracker) they drive. |
| `LockSurface` | What a lock client shows: lock surfaces from the request over the configure, the ack and the commits to the frame, and the keyboard on them, with clients that err, die and are followed. Extends `SessionLock`. |
| `SeatClock` | The one-second tick: the idle clock with its policy and inhibitors, and the supervisor that starts lock clients with a back-off. |
| `PowerThread` | The power thread and its queue: brightness, `wpctl`, logind's inhibitor and hints. |
| `WindowMode` | The display state of the windows (`windowmode.rs`): modes, tab groups and the restore queue, as operators from tables to tables. |
| `Desk` | The windows, what the layout maps, and who has the keyboard: every handler that opens, closes, hides, shows, drags or focuses, with the lock as what it does to the desk. |
| `FloatDesk` | The floating desk of one screen: positions, stacking, titlebars, drags, resizes, edge tiles, claims and the layout pass that puts windows back. |
| `Tiling` | The tiling tree of one output: where a window goes, what is left when one goes, its focus, its dividers and the frames it gives. |
| `Bindings` | The seat's own chords, what a world declares and binds over them, and the gate every deed passes while the session is locked. |
| `SeatInput` | What becomes of a key or a button: wake, remap, bindings, lock, VT switch, sleep, reload. |
| `Touchpad` | nazoru's machine: slots, contacts, frames, scrolling, taps, clicks, palms and the reset. |
| `Keyboard` | hairetsu's state, the keymap the clients are given and read for themselves, the layouts the seat serves, and the text the query socket types. |
| `InputDevices` | The udev monitor, the evdev backend, logind's signal thread and the descriptors they share. |
| `Capture` | Copies, screenshots, captures and stale scans, asked by clients and by another thread and answered in the middle of a frame. |
| `Notes` | The notification shelf, the child that owns the name on the bus and the thread between them. |
| `WorldFile` | A saved world on its way through the first read, the watcher, the seat and the module thread. |
| `Scene` | What a frame puts together, the caches it keeps, and the ledger that says a frame is owed. |
| `FramePixels` | A client's pixels from the commit through refined damage, the tracker, the heap shadow and the slots to the glass. |
| `Blit` | The software renderer: imports, opaque hints, fills and blits, transformed, scaled and blended, with a pixel-by-pixel reference. |
| `Stale` | The scan for stale pixels: rows merged into regions, regions named after elements, the verdict on the copy to the slot, the mask. |
| `Kasane` | The objects of the Vulkan renderer: constructors as tables of driver calls that may be refused, the order of every drop, and who holds what. |
| `MCSessionLock`, `MCSeat`, `MCDesk` | The sets TLC uses for `LockSurface`, `Seat` and `Desk`. |
| `MCHands`, `MCFloat`, `MCServices`, `MCGlass` | Several components for one run: the variable `part` picks the one a behaviour runs. |
| `Lists`, `ListProofs` | What the modules ask of a list, and the induction over lists the proofs need. |
| `SessionLockProofs`, `LockSurfaceProofs`, `SeatProofs`, `DeskProofs` | Theorems about the module they name; `DeskProofs` holds those of `WindowMode` too. |
| `ServicesProofs`, `FloatWorldProofs`, `HandsGlassProofs` | Theorems about the components of a run, each for itself. |

`SessionLock` implements `SeatSeal` (the property `KeepsThePromise`) and `Seat`
implements `SessionLock` (`ImplementsSessionLock`, the lock's specification read
as a property of the seat, whose variables it shares). So what is proved of the
lock alone holds in the seat. `Desk` knows of the lock that it is shut or not and
which surfaces its holder has; when it may be shut and opened is `SessionLock`'s.

The other modules each take one component and leave the rest of the seat to a
few actions that may come at any time: `SeatInput` has `LockSession`, `Capture` a
gate that the scene closes, `SeatClock` a seat that is home, away or returning.
What these actions may do is what `Seat` and `Desk` let the lock, the panel and
the VT do, taken in any order, so nothing a component can meet is missing.

### How state corresponds to the code

`SessionLock`. `held`, `holder`, `announced` and `onGlass` are the enum `Seal`;
an open seal has no fields, and the variables then carry what its getters
answer. `objects` is `LockState.objects`; `minted` stands for `next_id`; `alive`
are the protocol objects that exist; `told` is a history variable, the ids
`locked` was sent to. A lock id is one lock object, and stands for its client.
`unlock_and_destroy` and `destroy` are destructor requests: the wire library runs
the request and then the object's `destroyed` handler in the same dispatch, so
each is one action. An invalid unlock is answered with a protocol error and
destroys the object all the same; the machine has left its holder alone, so the
`destroyed` handler finds it and lets go of keyboard and screen (`RefuseUnlock`). A
`destroy` empties the holder first, and the handler finds none (`DestroyLock`): the
surfaces, the picture and the keyboard stay as they were. `gaveUp` is a history
variable, the ids whose client did that.

`Seat`. The variables have the names of the fields of `Omoya` and of the locals
of `drm.rs` they stand for; the comments of the module give the pairs. Frames
are known by their scene: `"desktop"`, `"lock"` or `"black"`, which is what
`scene_hidden` and the panel decide between. `owed` is whether the ledger of
`mekuri` has a cause. `fresh` counts the slots that have no history: two after
`ages.forget()`, one after the first flip; it also tells the blocking modeset
commit (two) from a page flip. `composed` and `dirtied` are what matters of the
damage tracker: the scene it saw last and whether that frame had damage of its
own, which is what the other slot, one frame older, has to catch up with.
`shown`, `queued` and `vblank` are the kernel: what scans out, the flip it
holds, the event not read yet. `elsewhere` is the truth about the VT, of which
`away` and `returning` are what the compositor believes.

One tick of the loop is one action out of `TickAway`, `TickRefused`, `TickDark`,
`TickSkips`, `FrameFails`, `FrameUnchanged`, `FlipRefused` and `FlipAccepted`, by
the return it takes. `Settled::Returned`, the due panel changes and the frame
that follows in the same call are one step, as they are one call.

`Desk`. `roster`, `space`, `windows` and `previous` (`previous_focus`) are the fields
of `Omoya`; `tree` is the set of windows in `tiling`, `floating` is `layout.mode`,
`focus` the seat's `current_focus`, `grab` the window of a `MoveGrab` or
`ResizeGrab`, `layers` the layer map with those that ask for the keyboard in
`exclusive`, `screens` what `surfaces_of_holder` answers. An id is a surface:
`winid::of` gives each one a number and none twice, so `Fresh` lets a surface that
is gone stand for a new one once nothing remembers it. `ApplyLayout` is the whole
of `apply_layout` without the rectangles. Where the code takes the topmost window
or the neighbour in a direction the model takes any. Handlers that do not run
through `focus_window` (a click, a new window) leave `previous` alone, as they do.

`FloatDesk` has the rectangles `Desk` leaves out: `placed` is where the space maps a
window, `keptAt` the table of `floatpos.rs`, `claims` the edge tiles, `shown` the
stacking order from the bottom, `hold` the grab with what it read at the press. `Px`
names every measure of the source (heights, margins, thresholds), so a screen of a
few pixels has the same cases as a real one. A layout pass puts the size it asks for into
`placed`; the client commits it later (`Commits`), and until then the space reads
`committed`, by which the drag clamps and the pointer finds titlebars (`Geometry`). A client
asked twice before it answers goes straight to the last size, and one of a fixed size is
known as such from its first commit. The grip of a freed window is a whole number of pixels.

`LockSurface` adds to the lock the wl_surfaces of its clients. `surfaces` is
`LockState.surfaces`; `surf` is what the compositor keeps with each surface (its role and
its `Configures`) and what the client last committed to it: nothing, a buffer of the
configured size, or another. A commit that `check_commit` finds illegal is applied, and
its client disconnected for it, as the library does. Surfaces are `Dead` after their lock
surface: a wl_surface has one role in its life. `onScreen` is what the last frame drew.

`Tiling` writes a node of the tree as the path that leads to it, so `leaf` and `divider`
are `Tiling.tree`, `tiles` the keys of `Tiling.windows` and `treeFocus` is `Tiling.focus`;
`seatFocus` is the tiled window with the keyboard, which a click moves alone. The tree is
the library kukaku's; its four operations (`SplitNode`, `Collapse`, `Part`, the neighbour)
are modelled from what `layout.rs` asks of them.

`Bindings` has `SeatWorld.commands`, `binds`, `behind_lock` and `Omoya::bindings` under
their names. A chord is a set of modifiers and a key, a world the list of the entries the
worker accepted; the text they are parsed from is left out, what is refused is not.

`SeatInput`. `held` are the keys under fingers; `pressed` is the keyboard's
`pressed_keys`; `swallow` is `WakeSwallow`; `remap` the table in force. `orphaned` is
a history variable: the keys stranded by one of the two ways that are known.

`SeatClock` counts ages (`idleFor` is now minus `last_input`, `respawnIn` the instant
of the respawn minus now) so that time need not grow. `InputDevices` numbers the
descriptors as the kernel does, the lowest free one first: a number that comes back
under another device is the point. `devices` are the rows of the backend, `rows` those
of logind, `file` what the kernel has under a number, `watched` the poll set.
`Capture` has the slots of the introspection (`captureSlot`, `inFlight`,
`captureResult`) and a program counter for each of the two threads (`queryAt`,
`loopAt`), as they interleave between two locks. `Notes`, `WorldFile` and `PowerThread` keep
their queues as sequences.

`Scene` keeps of each cached picture the values it was drawn from, so a cache is
stale when these are not the present ones. `FramePixels` keeps a value for each strip
of the screen in the client's buffer, the copy of `truedamage.rs`, the texture, the
heap shadow and each slot, and two history variables: `missed`, the rows that changed and
that no damage told of, and `behind`, for each slot the strips that a refused frame drew
into the other one and that it was not given since. In `Blit` a pixel is the list of layers that made it, so that
"drawn twice", "not drawn" and "blended otherwise" differ. In `Stale` two pictures are the set
of pixels they differ in. In `Kasane` an object is
a member of `objects` or not, `dying` is the order in which the current drop takes them.

The mutants beside the actions (each introduced by a comment `Mutant:`) are
plausible mistakes in the code. They are part of no specification; each shows
that a property would notice.

### Outside the code under `crates/`

Modelled from how the code uses it, and marked external in `PROJECT.json`:

- the kernel completes a queued flip and reports it (`Retire`); a disable of the
  connectors completes what was queued and shows nothing (`GlassReset`); a
  descriptor that is revoked or unplugged is ready for ever; the lowest free number
  is given first;
- the damage tracker finds damage in a frame if the scene differs from the one
  it saw last, if the slot has no history, or if a client drew, and it notes the
  frame when it renders it, before the flip (`HasDamage`, `FrameDrawn`);
- smithay's keyboard, and a client that reads the keymap it was sent;
- the Vulkan driver, which may refuse any call that can fail.

## Runs

| Run | Instance | What it shows |
|---|---|---|
| `lock` | three lock objects, two surfaces, one handle of the output, clients and surfaces interchangeable | Every order of three clients' requests, configures, commits, errors, unlocks, destroys and deaths and of the frames between. Three are needed for a holder, its successor, and a client that is refused or comes late; two surfaces, for one client's two or one of each of two. |
| `seat` | two lock objects, one refusal in a row, prompt VBlank, sleeps that may end elsewhere | Safety of the whole seat. Two objects give a holder and the successor that takes over from it, or the second client that is refused. |
| `seat_live` | one lock object, VBlank events that may be lost across a VT switch | Liveness of the frame loop: the loop does not wait for an event that never comes. |
| `desk` | three windows in the tiling layout, a lock that can be shut, three deeds bound behind it | The tables, the screen and the keyboard through every order of deeds, presses, drags and closing windows. Three windows make a tab group that can lose one and still be a group. |
| `desk_sealed` | one window, one layer, one lock surface, either layout switched live | Every id there is can hold the keyboard when a deed comes, so ids of layers and dead lock surfaces enter the tables here; the seal of the keyboard is about all four kinds at once. |
| `hands` | two keys and three remap tables; two slots and three spots on a clickpad; four requests of typed text under three sets of layouts | Input from the finger to the client. The tables leave keys alone, swap the two, or map both to the modifier; the spots are two a scroll apart and one a swipe apart; the texts need a plain key, a shift, a dead key and another layout. |
| `float_world_power` | one window on a screen of 7 by 8; three tiled windows on 12 by 8 with a gap of 1; two worlds, one of them refused when read, one module; two worlds of binds beside an absent and a refused one; a backlight of 7 steps, two commands queued, two sleeps | Where a dragged window ends up, with the client's commits anywhere between the motions; that the tree stays whole (three windows have every shape of it that differs at a node); which world stands; what its chords do, in the open and behind the lock; what the inhibitor is when the queue is empty. |
| `services` | a policy of one and two seconds or none, two surfaces that inhibit; two notes and two children; two device nodes, one of them usable, three descriptor numbers; one client's copy, one capture, one failing frame | The four services around the loop, safety and liveness. |
| `glass` | two windows, one of a fixed size, two titles, two looks that differ in every field; one row of a client over the wallpaper, two paints, the flush of the damage only, any number of refusals; a texture of 3 by 2 on 4 by 4; one texture and two draws with one refused driver call; every set of differing pixels of a picture of 3 by 3, two lists of elements | From a change to the glass. One row and the wallpaper are two strips that are damaged each by itself, and rows meet only in the size of what a commit declares and in the box around a flush; the flush of the damage only copies whole slots too, when a slot has no history. |
| `sleep_visible`, `restored_deaf`, `blit_fast_path` | one lock object; two windows; the blits of `glass` | The disagreements 1 to 3 below. |

A union run (`hands`, `float_world_power`, `services`, `glass`) checks components that
share no variable, one at a time: `part` is chosen at the start, the other
components rest in one initial state. The states are the sum of the parts' and not
their product; a product would show nothing more, as no property relates two
parts. Deadlock is not checked in the union runs, where a component may come to
its bound, nor in `lock`, which stops when its ids are used up.

Bounds. `LockId` is the set of ids a run may mint. `MaxRefusals` bounds the flips
refused in a row (not in all); in `FramePixels` refusals have no bound.
`MaxChildren`, `MaxPending`, `MaxSwitch`, `MaxPlug`, `MaxAsked`, `MaxFailures`, `MaxScenes`,
`MaxGrabs`, `MaxGeneration`, `MaxBacklog`, `MaxCommands`, `MaxSleeps`, `MaxRaw`, `MaxQueue`,
`MaxChanges`, `MaxDraws` and `MaxRefused` count what the environment does, and stand
in the guards of the actions that do it. `ParcelCells`, `RespawnFirst`,
`RespawnLast`, `MaxLevel` and `TapLimit` are constants of the source, made small.

Parameters that stand for the environment or the configuration:

- `HasLockClient`, `LocksBeforeSleep`, `Policies`, `Remaps`, `KeymapConfigs`, `Layouts`, `Look`,
  `Worlds`: the configuration;
- `PromptVBlank`: a flip queued before a VT switch is reported before the seat
  comes back. It is what a kernel does and what the code relies on; FALSE also
  lets the event be lost;
- `BehindLock`: the deeds a world lets run while the session is locked; the runs
  take a deed that hides, one that restores and one that turns tabs;
- `SleepsElsewhere`: `PrepareForSleep(false)` may arrive while another VT holds
  the seat;
- `Pads`: pads that are clickpads; `Authorities`, `FlushPolicies`: settings of the renderer.

### Properties

Of the lock: `HolderIsServed` (a holder was told exactly when a hidden frame is on
the glass, and can always be told), `SealStaysWithItsHolder` (only the told holder
opens, nobody displaces a holder that lives), `KeepsThePromise`, `LockScreenHolds` (the
screen shows the holder, as configured, or a frame is owed, but for the picture left by a
client that destroyed the lock it held; who shows something can be typed at, and behind the
lock no window). Of the seat:
`LockedMeansCovered` (once `locked` may have been said, no desktop frame is visible),
`DarkPanelIsBlack` (a panel that is off has no old pixels behind it),
`LoopWaitsRightly` (what the loop believes of the pending flip, the tracker and the
darkening is so, and a seat that delays the sleep has a reason to), and the
liveness properties `HolderIsTold` and `SeatAnswers` (a sleep is answered, input
lights the panel, an open seat shows the desktop again).

Of the desk: `SealedKeyboard` (behind the lock the keyboard is on a lock surface or
nowhere), `WindowsHold` (the tables are sound after any history and what they show is
on the screen), `ScreenFollowsTheTables` (a group that loses another tab goes on
showing the same one; what is hidden leaves the screen, but for the drag of a hidden
window), `KeyboardFindsAWindow` (after a window is closed or minimised and after an
unlock the keyboard is on a window that shows, if one does), `DraggedStaysPut` (the next
layout pass leaves a dragged window where the drag put it, once the client has committed the
size asked of it), `TilingHolds` (every tiled window
is one leaf, every split has two sides, something is in focus, and frames keep their gap).

Of the hands: `SeatKeysAreDown`, `SealedPointer`, `GesturesAreWhole` (what a
gesture began it ends, and a tap is only a tap) and `TypingArrives` (the seat and a client
that reads its keymap make the same of every key, no typed key is left down, and a client
reads the text that was asked for). Of the services: `NothingBeforeItsTime`, `GoneIsTold`, `DevicesAreOurs`,
`PicturesAreAnswered` and `NothingStaysDead`, which is liveness of three of them. Of power and world: `PowerSettles`, `TheLastWorldStands`, `BindingsHold` (chords
do what the standing world says, and behind the lock nothing comes of a deed it did not
flag, however it is wrapped). Of the glass: `ScreenIsCurrent` (with nothing owed, what
`NothingOwedNothingStale` lists is of today: the windows, the mode, the cursor's shape, which
notes there are, what the bar says and its accent, the wallpaper; and every window is drawn
with its own titlebar), `ScanIsTrue` (each differing pixel in one
region, each region named after the smallest element it lies in, and "clean" said only of
what was compared),
`ShowsTheScene` (with nothing owed, every strip as last committed, but for what is
`missed` and what the slot is `behind` in), `BlitPaintsTheDamage`
(exactly the damage, every texel where the transform says, no false opaque hint) and
`ObjectsOutliveTheirUse`.

The type invariants are `LockTypeOK`, `SeatTypeOK` and `DeskTypeOK`, and one for each
union run. `LockTypeOK` also says that an open seat remembers nothing.

### Fairness

`SeatFairness` assumes that the kernel completes a flip (`Retire`), that the event
loop reads a ready event (`VBlank`), that the timer goes on ticking (`Tick`) and
that a back-off ends (`RetryDue`): all weak fairness, as the loop serves every
ready source and the timer re-arms itself on every return. It also assumes
strong fairness of `TickWorks`: a display that could be presented to again and
again is not refused every single time. Without it a device that refuses for
ever starves everything, and no code could help. No client, person or VT switch
is fair: nobody has to unlock, press a key or come back. That is why the
conclusions of the liveness properties let the client leave, the lock be taken
again, or the VT be elsewhere.

`ServicesFairness` is the fairness of the component that runs. `SeatClock`: the
second passes and the timer fires (weak); a lock client that is started again and
again at last asks for the lock (strong, for a client that never asks cannot be helped).
`Notes`: the thread sees that its child is dead, and its wait ends. `InputDevices`: the
main loop and the signal thread run when they have something to do. `Capture`: the
frame loop and the kernel run, and a scene whose frames are refused gets better.

## Proofs

`SessionLockProofs` proves every invariant and step property of the run `lock` for
any set of ids, from `NoLockAssumption` alone. The inductive invariant is the
conjunction `LockInv` of the module's three invariants: none is inductive alone,
since what a holder was told depends on its object being in the map, and that
depends on ids being minted once. The step properties and the refinement of
`SeatSeal` go through `SealStep`, the five ways any step may change the seal;
`NextIsSealStep` shows there is no sixth.

`SeatProofs` proves `SeatImplementsSessionLock` by mapping each handler of the
seat to one action of the lock or to none, then carries the lock's invariant
over to the seat, and proves type correctness and `SleepWaitIsOwed`, for any
`LockId` and any setting of the configuration, `MaxRefusals` included.

It then proves `LockedMeansCovered`, `DarkPanelIsBlack` and `LoopWaitsRightly`
under the assumption `GentleDisplay` (prompt VBlank events, at most one refusal in a
row). Each half of it is needed (see *Disagreements*). Neither of the first two is
inductive: that no desktop is visible on a covered glass depends on
no desktop frame being queued behind it, on which scene the tracker saw last,
and on an event being read for the frame it belongs to. `LoopKnowsTheGlass`
states these relations (`PresenceInv`, `FlipInv`, `PanelInv`, `TrackerInv`,
`CoverInFlight`), and is part of `LoopWaitsRightly` of the run `seat`.

`ListProofs` has what the other modules need to know of lists. `Sift(s, keep)` is the
`retain` and the `filter` of the code as a function that recurs on the length. The
library's induction theorems take an operator as a parameter and cannot be used here;
the module argues over sets of numbers instead: a set of naturals that is not empty has
a least element (`WFMin` of `WellFoundedInduction`), so a set that holds 0 and with each
number below `m` the next holds all up to `m` (`UpTo`). With it the recursive function
is shown to exist and to be the only one, and `Sift` to keep exactly the elements asked
for, in order, each as often as it was there. `Total(s)`, the `sum` of the code, is
treated the same way: one more number at the end is added to it (`TotalAppend`). So is
`Chained(s)`, the lists in `s` one after the other, and `SiftPlaces` says that what is kept
keeps its order.

`LockSurfaceProofs` proves `LockScreenHolds` in its three parts, for any clients and
surfaces. `SurfacesImplementTheLock` comes first: each step of the protocol is a step of
`SessionLock` or none of its, so `LockInv` is had. The invariant `SurfaceInv` then says
whose each mapped surface is and that a client that lives shows only what it acked;
`ShownAsAcked` follows from it. `ScreenAlwaysUpToDate` is inductive beside it: of a holder
that destroys its lock the scene goes empty with no frame owed, so what is on the screen is
then the picture of a client in `gaveUp`, and the property says so (`LeftStanding`) until a
surface of it goes or anything else has a frame drawn.
`HolderIsTypedAt` needs `OneHandle`, that a client has bound the output once: with two the
code does let a client have two surfaces, of which one cannot be typed at (see
*Disagreements*). With one handle a lock has one surface, and the surface a holder shows
something on took the keyboard when it showed first.

`DeskProofs` proves, for any set of ids, that every operator of `WindowMode`
takes `Sound` tables (well typed, a queue of the minimised, well-formed groups) to
sound tables; its first lemmas are about taking an element out of a sequence
that holds it once. It proves `DeskInv`, the conjunction of `DeskTypeOK`,
`Sound(windows)`, `SealedKeyboard` and `ShownIsOnScreen`, for any windows, layers, lock
surfaces, deeds behind the lock and layouts, from `DeskAssumption` alone; `WindowsHold`
is read from it. `DeskTypeOK` needs sound tables, as what a group shows is focused;
`ShownIsOnScreen` needs the tree to hold windows that exist. The two properties of steps,
`ScreenFollowsTheTables` and `KeyboardFindsAWindow`, follow from the same invariant,
action by action; most actions are settled by three facts, that the page of a group is
left alone, that the pass hides what the tables hide, and that the focus is chosen from
what is on the screen after it.

`ServicesProofs` has the four components of the run `services`, and the keyboard.
- `NothingBeforeItsTime` (`NothingIsEarly`), for any policies, any finite set of surfaces
  and any two pauses. Half of it rests on `QuietHolds`: the count of the inhibitors is the
  size of their set, and while it is zero the clock is no older than the quiet. The other
  half rests on `PaceHolds`: `respawnIn + sinceTry = respawnWait` from one start to the
  next, and the pause cannot run out without its tick being due. The tick follows the
  second at once in the model; a late tick would only lengthen a pause.
- `GoneIsTold` (`GoneIsAlwaysTold`), for any number of notes and of children. What makes
  it inductive is `LinesInOrder`: the lines that are to be drawn stand in the order of the children they
  were written for, and once the child that runs has drawn one they are all its own.
- `DevicesAreOurs` (`DevicesAreAlwaysOurs`), for any nodes and descriptors.
  `ReturnsFollow` is what makes it inductive: a removal that is not yet read is
  followed, in the monitor's queue, by the return of the node when the node is back, and
  every node is open, queued or still ahead of the scan.
- `PicturesAreOwed` (`PicturesAlwaysOwed`), the safety part of `PicturesAreAnswered`.
- `ServicesTypeOK` (`ServicesAlwaysTyped`), of the run's own specification `ServicesSpec`,
  whichever of the four a behaviour picks. Each component needs what its inductive
  invariant says of the queues and the tables, and lemmas on what a queue holds once its
  head is taken, one entry is dropped or two queues are joined.
- `TypingArrives` (`TypingAlwaysArrives`), for any requests, any configurations and a queue
  of any length, over the three layouts as the source has them. `KeyboardInv` says that of
  the keyboard only the keys held and the locks are free: the modifiers in force, and those
  the clients were told last, follow from them (`Settled`), through every key and every
  keymap compiled anew. The seat finds the level of a key by cases, a client by the table of
  the key's type; `LevelsAgree` goes through the types and shows that all modifiers give both
  the same. A text that finds no modifier on is followed key by key: the keyboard is
  `Clean`, with exactly the modifiers on that the text has pressed (`BracketsClean`), so each
  character is read as itself (`CharClean`), and the last brackets let go. What the socket
  keeps down is what `kept` counts, whatever is dropped on the way. The expansion, the steps
  and the drain are recursive functions; that each has the value its equations say is
  shown first (`AppliedRuns`, `SpellingExists`, `DrainedRuns`, `HoldsRuns`), with `UpTo`.

`FloatWorldProofs` has `DraggedStaysPut` (`DraggedAlwaysStaysPut`), for any screen,
measures, windows and claims. A drag clamps the frame by the size the client
committed, the layout pass by the size it would give the window. They agree once the client
has committed what was asked of it, which is what the property supposes of a motion, and of
what was asked `DragInv` says that a window that is on the desk and lies free was asked for
at least the size it would be given (`SizesHold`): so what the drag clamped the pass leaves
where it is (`ClampTwice`). Without the supposition it is `DragMeetsLayout`, and false. It needs of the
measures only that the least width is not zero and that a layer leaves a column of the
screen; every handler that lays out is one lemma, `PassStep`.

It has `PowerSettles` (`PowerAlwaysSettles`), for a queue of any
length, any panel and any number of sleeps. The property speaks of the empty queue
only; `QueueSpeaksLast` is what holds before it is empty: the last command of a kind in
the queue is the seat's last word, and when there is none that word is in force or
refused. It has `TheLastWorldStands` (`LastWorldAlwaysStands`), for any worlds and modules: the
world saved last stands, or is in the file with an event to come, or in a worker's
hands, or last on the queue (`SavedArrives`); and an answer is taken only from a
generation the children were asked for (`AskedOfTheLastSet`).

It has `BindingsHold` (`BindingsAlwaysHold`), for any worlds, entries and reserved chords,
under the hypothesis `NoCommandIsAVerb`: no world declares a command that has a verb's name.
Without it the property is false (*Disagreements*); the half that does not need it,
`BindingsAreOfThisWorld`, is a theorem of its own (`ChordsAlwaysOfThisWorld`). `BindInv` adds
that what is flagged for behind the lock is flagged by a bind that stands (`FlagsAreBound`),
and that what waits to be performed is a verb or a command (`AskedTyped`).

It has `TilingHolds` (`TilingAlwaysHolds`), for any windows, bounds, gap and step of a
resize. Leaves and dividers are sets of paths, and `Tree` says of the two sets that every
node but the root hangs at a divider, every divider has both its sides, and no path is both a
leaf and a divider. `SplitTree` and `CollapseTree` show that the library's two operations make a
tree of a tree; with the window of each leaf one to one (`Whole`) that is the first half of
the property. Of the frames, two leaves' paths part at one divider (`PathsPart`), a parcel
lies inside that of every node above it (`ParcelsNest`), and the two sides of a divider do
not meet (`PartsFit`): so two parcels lie apart (`ParcelsApart`), and two frames two gaps
apart when their parcels have the room. `Parcel` recurs on the path; that it has the value
its equations say is `ParcelCuts`.

`HandsGlassProofs` has what goes from the hands to the windows and from there to the glass.
- For any keys and any remap tables, the seat's idea of the keys is typed (`InputTyped`), a
  locked session has neither pointer nor keyboard nor drag on a window
  (`PointerIsSealed`), and a key it believes down is held (`KeysOfTheSeatAreDown`). The last
  rests on `pressed` being the image of `held` under the table in force, which every
  handler keeps or gives up into `orphaned`.
- `GesturesAreWhole` (`GesturesAlwaysWhole`), for any slots, spots and limits and any number
  of reports between frames. `PadInv` adds that on a pad the machine counts no fingers on,
  whatever lies there is excluded or new: so two fingers that land in one frame have not
  moved, and cannot scroll in the frame that begins their tap (`LandedStrides`, over the
  sum the frame folds). A tap under which something else was done is spoiled.
- `ShowsTheScene` (`GlassAlwaysShowsTheScene`), for any rows and paints, any size of damage,
  any setting of the comparison at any time, either flush and any number of refused frames,
  with no hypothesis. What the code loses is in the property: a row that no damage told of
  (`missed`) and a strip a refused frame kept from the slot on the glass (`behind`). The
  invariant `PixelsInv` follows a paint from the client's buffer to the texture, the shadow,
  the slot on the glass and the one drawn next: where two differ, the strip is in the set
  that is to repair it or in one of these two. A row leaves `missed` when some damage
  tells of it, a strip leaves `behind` when the slot is given it. That they are not always
  empty TLC shows (`SmallCommitsAreShown`,
  `RefusedFramesAreShown`, *Disagreements*).
- `ScanIsTrue` (`ScanIsAlwaysTrue`), for any picture of at least a pixel, any pixels that
  differ and any elements drawn. `ScanOf` is the invariant of the loop over the rows: the
  regions follow one another downwards, each holds and counts all that differs in its own
  rows, together they hold what was seen so far, and their counts add up to it. A row
  leaves them (`QuietRow`), joins the last (`GrownRegion`) or begins one (`NewRegion`). A
  region has a name because the background is around everything (`NameIsTrue`): the code's
  `None` is never given.
- `ObjectsOutliveTheirUse` (`ObjectsAlwaysOutliveTheirUse`), for any textures and any calls
  the driver refuses. The seven constructors are tables of constants; each is gone through
  once (`GpuFits`, `PipelinesFit`, `OwnedFits`, `ImportedFits`, `UploadedFits`,
  `ExportedFits`, `ReadbackFits`): what a refused call takes back was made by the calls
  before it, with the part it was made from, child first, and what all of them leave is
  what the `Drop` knows. Of a list of objects `GoodDrop` says that it can be destroyed in
  its order, and two that can go one after the other make one (`BothGo`), which with
  induction over the things dropped gives `ThingsGo`. `KasaneInv` then says that `dying`
  can go, holds every object of a thing that no longer stands and none of one that does,
  that nothing stands without the device, and that what a frame or the compositor holds
  stands. The `Arc` is needed in one place only: the device goes after, or with, the last
  thing (`WholeDropHolds`).
- `BlitPaintsTheDamage` (`BlitAlwaysPaintsTheDamage`), for any texture, output, damage and
  jobs, turned, mirrored and scaled. `PaintedUpTo` is the invariant of the loop over the
  damage, and one rectangle paints its pixels and no other (`Painted`). The general arm reads
  inside the texture since the destination turned back lies in the turned size
  (`MapBackStays`) and scaling by whole numbers keeps it so (`ScaleStays`); a source must
  not be empty for that, which is the hypothesis `WithinTexture` of the property. That each
  texel lands where the transform says is that the map back undoes the turn and the mirror
  (`MapBackReturns`). That the two arms paint the same is the disagreement 3, and false.
- `ScreenIsCurrent` (`ScreenIsAlwaysCurrent`), for any windows, looks, titles, pictures and
  number of changes, of what `NothingOwedNothingStale` lists and no more. The bar is drawn again when what it says differs, so it cannot be stale;
  the notes are compared by a generation alone, so `NotesOfTheirGeneration` has to say that
  it grows with every change of the shelf and that the notes drawn are those of their
  generation, as many as the world of then let show, in the accent of then (`NotesTakeTheLook`, *Disagreements*); and `GroundAsSeen` says that the picture the next frame draws is that of the
  file the second timer last looked at. Then a frame shows the scene as it stands
  (`ShownAsItStands`), and a step that owes none changes nothing of what is listed
  (`EachQuietStep`). The strip's cells are counted in `FocusedParcelIsShown`.
- `GlassTypeOK` (`GlassAlwaysTyped`), of the run's own specification `GlassSpec`, under the
  hypothesis `DamageApart`: no job's damage names a pixel twice, which is how smithay's
  damage tracker, outside the repository, shapes it before a frame is drawn. `GlassInv` joins
  the invariants above with what they lack of the types: that a frame's damage goes with at
  most two frames before it (`PastTyped`), that the pieces a refused call strands are parts of
  things (`RefusedStrands`), that the pixels painted so far were each painted for a rectangle
  that is behind, so that none gets a second layer (`LayersOnce`), and that focus, stack and
  chrome speak of windows of the roster (`DeskTyped`, `ChromeTyped`).

The assumptions on the constants are those of the modules, and TLC evaluates each on a run.
Besides types they ask little: `BindingsAssumption`, that a reserved chord holds Ctrl and Alt
(as `Reserved::fleet_linux` has them) and that a world's entries are a list;
`TilingAssumption`, that both sides of a divider may have half (a share is kept between
`MinPercent` and 100 less that);
`BlitAssumption`, that buffers have a format and their pixels an alpha; `SceneAssumption`, that
the bar has room for a cell and that the name of a picture is no outcome of reading one;
`KeyboardAssumption`, that key codes are numbers and that no character of a text names a
modifier.

Only model-checked: the liveness properties `HolderIsTold`, `SeatAnswers`, `NothingStaysDead`
and the answering half of `PicturesAreAnswered`, which need fairness and ENABLED; and the
type invariants of two of the four union runs, `HandsTypeOK` and `FloatWorldPowerTypeOK`,
each a conjunction over components that are proved about in different modules, so that no
module sees all of their variables: the parts the proofs rest on are in the inductive
invariants there. The properties
of the table below that TLC refutes are of course not theorems.

## Disagreements between the code and what is said of it

Three have a run of their own.

1. `sleep_visible`. `shows_nothing` is true of a panel that is only darkening, so a
   sleep that starts in between is let go with the desktop on a lit panel.
2. `restored_deaf`. `RestoreLast` looks for the window on the screen before the
   layout puts it there (`deed.rs:1114`), so the window comes back without the
   keyboard; `TabNext` and `TabPrev` leave it on the tab that goes behind.
3. `blit_fast_path`. A texture drawn at its own size multiplies its colours by their
   alpha (`nuri/src/lib.rs:387`), at any other size it does not: translucent pixels are
   darker at 1:1.

The modules state more properties that TLC refutes. Each quotes what the code says of
itself, and none is among the runs: put it in the cfg of its module's run to see the
schedule.

| Property | Module | What happens |
|---|---|---|
| `LockedMeansCovered` with `MaxRefusals = 2` | `Seat` | Two refused flips in a row leave the tracker nothing to draw (`drm.rs:2405`): `locked` is sent with the desktop on the glass. |
| `DarkPanelIsBlack` with `PromptVBlank = FALSE` | `Seat` | Coming back from another VT forgets `flip_pending` but not `panel_flip_in_flight` (`drm.rs:1039`): another frame's event darkens the panel. |
| `SleepsAtOnceElsewhere` | `Seat` | The end of a sleep clears `away` although another VT holds the seat (`world.rs:950`); the next sleep waits for a frame nobody can present. |
| `BlankedWhenQuiet` | `SeatClock` | A VT return lights the panel without telling the idle clock, whose blank was spent: the panel stays lit. |
| `CellsOfTheWorld` | `WorldFile` | An answer that is on the queue when a newer world drops its module is shown all the same. |
| `OnlyItsQueueIsLost` | `Notes` | A new child numbers from one, and its notes replace those of the dead one with the same number. |
| `HeldIsItself`, `BackIsTypeable` | `InputDevices` | A resume dup2s onto a number that has become another device (`logind.rs:124`); a device that came back is open and not polled. |
| `NoTapUnderAButton` with `Pads = {FALSE}` | `Touchpad` | On a pad with buttons of its own, a finger that lands while one is held can tap. |
| `NoRequestVanishes`, `ScanAnswerIsTrue` | `Capture` | The asker clears another asker's answer (`introspect.rs:1680`); a frame that ends early drops the stale scan it took (`drm.rs:2058`). |
| `TypedForTheServed` | `Keyboard` | A configuration that drops its keymap leaves the typed text on the old layout. |
| `PrefersThePlainKey` | `Keyboard` | A shifted key with a lower code is found before the plain one. |
| `DragMeetsLayout` with `DragSpot <- DragSpotsLow` | `FloatDesk` | "Two implementations of 'keep it on screen' with different reference frames" are what `grab.rs:245` warns of: the drag clamps by the size committed last (`grab.rs:248`), the layout by the size it asks for, so between a configure and its commit the next pass moves a window that a drag has just put somewhere. |
| `NarrowedUnderPointer` | `FloatDesk` | "The pointer keeps its RELATIVE spot on the titlebar" (`grab.rs:217`): the widths before and after a window is freed are read in one handler, in which no client commits (`grab.rs:228`), so the grip is not scaled and the window gets narrower beside the pointer. |
| `FixedStartsCentred` with `Kind <- FixedOnly` | `FloatDesk` | "First sight: centre it at its OWN size" (`layout.rs:796`): the cascade has remembered its own place for every new window before (`layout.rs:757`), so there is no first sight. |
| `RaisedStaysUp`, `ClickHitsWhatIsSeen` | `FloatDesk` | A layout pass stacks in the roster's order (`layout.rs:861`); a covered titlebar takes the click (`input.rs:478`). |
| `NotesTakeTheLook` | `Scene` | "Saving a file takes effect at once" (`docs/DAILY-SEAT.md:11`): the notes on the screen keep the accent and the number of the world they were drawn under until the shelf changes (`drm.rs:1514`). |
| `RefusedFramesAreShown` | `FramePixels` | "A stale pixel is not reachable from here" (`nuri_renderer.rs:503`): the damage of a refused frame is spent, its pixels are in the shadow and in one slot, and a flush of the damage only does not bring them to the other. |
| `SmallCommitsAreShown` with `Rows = 3`, `FlushPolicies = {"full"}` | `FramePixels` | The comparison "refuses to shrink at all whenever it cannot prove the comparison is meaningful" (`truedamage.rs:64`): a commit of little damage returns before it (`truedamage.rs:958`) and leaves the copy as it was, so the next one that is compared loses what changed there and back. |
| `StackingIsShown`, `MarkedIsFocused`, `ChromeOnlyWhenFloating` | `Scene` | A raise, or a focus no layout pass published, owes no frame; the titlebars cached in the floating mode are drawn on in the tiling mode, over windows of the same width. |
| `EveryChangeIsOwed` | `LockSurface` | The ledger is "the closed, enumerable list of things that can dirty the screen" (`owed.rs:3`). A client that destroys the lock it holds empties the scene: `destroy` takes the holder out of the machine before the `destroyed` handler asks whether it has gone (`session_lock.rs:269`, `289`), so the keyboard is not dropped, no frame is owed and the back-off is not cut short. The picture stays for as long as its surfaces stand and nothing else has a frame drawn. |
| `OneSurfaceEach`, `HolderIsTypedAt` with two `OutputHandle`s | `LockSurface` | "This lock already has a surface on that output" (`session_lock.rs:226`) compares the handles a client bound, not the output: a client with two handles has two lock surfaces, and after the first is gone the second shows and is not typed at. |
| `TreeFollowsTheKeyboard` | `Tiling` | `Tiling.focus` is "which leaf the keyboard is on" (`layout.rs:92`); a click moves the keyboard only, so the next window splits another leaf and a resize moves another divider. |
| `SplitsAlternate` | `Tiling` | "alternating orientation with depth" (`layout.rs:103`): a collapsed sibling moves up a level and keeps its orientation. |
| `FramesNeverOverlap` | `Tiling` | "disjointness is preserved by construction" (`layout.rs:1178`): a parcel of at most two gaps gets a frame of one pixel that lies in the neighbour's. |
| `OnlyOverlapsMerge`, `BackgroundIsUnnamed`, `CleanIsWhole` | `Stale` | Rows that only touch are merged (`stale.rs:179`); stale pixels of no element are named "background", not left unnamed (`stale.rs:50`); a mapping that is short is clean in the rows it has. |
| `NoPictureBehindTheLock` | `Bindings` | "the screenshot chord refuse[s] while `Held`" (`docs/DAILY-SEAT.md:196`): a chord that a world binds to the verb and flags `locked` takes the picture; only a command of kind screenshot is refused (`deed.rs:930`). |
| `OnlyFlaggedRuns` with a command declared under a verb's name | `Bindings` | "a deed needs an explicit `locked` flag" (`docs/DAILY-SEAT.md:195`): a chord bound to the verb `close` and flagged flags the command `close` as well (`deed.rs:1201` compares names), although the chord stands for the verb and no chord stands for the command. The worlds of `MCFloat` declare no such command. |
| `SelfCleaning`, `TheRestStays` | `Kasane` | A constructor that is refused leaks (`vk.rs:760`, `1121`, `387`); an upload of a part goes through a barrier from UNDEFINED, which lets the driver drop the rest. |

The first depends on what the damage tracker does, which is a library's; the
model takes it from the loop's own use of it.

What the frame keeps past a change without a word that says otherwise is in `Scene` and in no
property: the height of the bar (`drm.rs:1478`) and the scale of the cursor's bitmaps
(`drm.rs:1362`) are of the world they were drawn under, and the battery and network readings,
the order of the windows and the mark of the focused one are of the last frame drawn, as they
owe none themselves.

## Not modelled

- `ModeMachine` (`omoya-spec/src/lib.rs`): a typestate the compiler enforces and the
  running seat does not use. `spawn.rs` keeps no state. `winit.rs` is for development.
- Pop-ups, decoration, the clipboard and input methods: checks and bookkeeping of the
  wire library.
- Overlays placed by the configuration; the display planes of `rouka.rs`, a web service
  beside the seat.
- The spelling of chords, of worlds and of themes; the tables of key names
  (`xkbcommon-hairetsu`), which are data; the glyphs, icons and gradients of the bar.
- `vk.rs` as far as commands recorded into a frame, memory types, formats and shaders go.
- `commit_pending` (a hotplugged connector), the cursor plane and direct scan-out.
- The words the socket publishes: counters and logging.
- Wall-clock time, but for the seconds of `SeatClock` and the taps of `Touchpad`: ticks,
  back-offs and timers fire at any time.
- `Presence.paused` keeps a second pause from the device; nothing else reads it.

## What is left to do

1. `fresh` of `Seat` as a refinement of the ages of `FramePixels`, and `owed` of `Seat` as
   one of the ledger of `Scene`.
2. The half of `PicturesAreAnswered` and of the seat's liveness that a proof by hand can give
   as an invariant (a bound on the steps to an answer), since ENABLED is out of reach.
