------------------------------- MODULE Scene -------------------------------
(***************************************************************************)
(* What a frame puts on the glass: the assembly of the scene in the tick   *)
(* (drm.rs), the caches it keeps from frame to frame (the bar, the notes,  *)
(* the titlebars), the facts it reads from elsewhere (the focus a layout   *)
(* pass published, the notes on the shelf, the wallpaper the second timer  *)
(* loaded), and the ledger that says whether a frame is owed at all.       *)
(*                                                                         *)
(* Pixels are left to FramePixels and Blit: here an element is what it was *)
(* drawn from.  Every cause of a frame draws the same frame, so the ledger *)
(* is one Boolean.  A width is "own" or "tile": the cache compares widths  *)
(* for equality only.                                                      *)
(***************************************************************************)
EXTENDS FiniteSets, Lists, SequencesExt

CONSTANTS Win,          \* the toplevels; all of them have a titlebar
          Fixed,        \* those that insist on a size of their own
          Title,        \* titles a client may set
          Look,         \* the worlds: [mode, accent, height, scale, notes] records
          Line,         \* what the status file may say
          Picture,      \* images the wallpaper file may hold
          ParcelCells,  \* cells of the bar's window strip
          MaxChanges,   \* bound: changes between Init and the end
          NoWin

ASSUME SceneAssumption ==
    /\ Fixed \subseteq Win
    /\ NoWin \notin Win
    /\ {ParcelCells, MaxChanges} \subseteq Nat
    /\ ParcelCells > 0 /\ Title /= {}
    /\ \A l \in Look : l.mode \in {"floating", "tiling"} /\ l.notes \in Nat
    /\ Picture \cap {"absent", "unreadable", "none"} = {}

VARIABLES roster,     \* windows in the order they appeared
          stack,      \* windows on the space, the last one on top
          minimised,  \* windows the operator put away
          focus,      \* the keyboard's focus
          published,  \* introspect.focused_id, what the renderers read
          title,      \* what each client calls itself
          look,       \* the world that stands
          shelf,      \* notes, the newest last, with their generation
          words,      \* what else the bar reads
          wallpaper,  \* the file, and what the second timer made of it
          pointer,    \* the cursor's shape, or "hidden"
          hiding,     \* what hides the desktop: "no", "lock", "dark"
          owed,       \* a frame is owed
          cache,      \* what the render loop keeps from frame to frame
          glass,      \* what the last frame presented
          changes     \* how much has happened

desk == <<roster, stack, minimised, focus, published, title>>
facts == <<look, shelf, words, wallpaper, pointer, hiding>>
sceneVars == <<desk, facts, owed, cache, glass, changes>>

Pictures == Picture \cup {"absent", "unreadable"}
NoTitlebar == [title |-> "none", width |-> "none", focused |-> FALSE]
NoNotes == [shown |-> <<>>, accent |-> "none", most |-> 0]
NoBar == [height |-> 0,
          state |-> [parcels |-> <<>>, hidden |-> 0, minute |-> 0, readings |-> FALSE,
                     status |-> "none", cells |-> "none", accent |-> "none"]]
Shapes == {"arrow", "resize"}
Never == -1     \* nothing was looked at, or drawn, yet
Absent == -2    \* it looked, and there was none
Blank == [hidden |-> "dark"]

----------------------------------------------------------------------------
(* The desk, as far as the scene reads it.                                 *)

Change == changes < MaxChanges /\ changes' = changes + 1

Without(s, gone) == Sift(s, Range(s) \ gone)
Raised(s, w) == Append(Without(s, {w}), w)

(* A layout pass maps the visible windows in roster order, each above the  *)
(* last, publishes the keyboard's focus and owes a frame.                  *)
ApplyLayout(r, m, f) ==
    /\ stack' = Without(r, m)
    /\ published' = f
    /\ owed' = TRUE

(* The keyboard goes to the topmost visible window; with none it stays.    *)
FocusAnyVisible(s) == IF s = <<>> THEN focus ELSE Last(s)

(* The layout pass runs before the new window gets the keyboard.           *)
NewToplevel(w) ==
    /\ Change
    /\ w \notin Range(roster)
    /\ roster' = Append(roster, w)
    /\ ApplyLayout(roster', minimised, focus)
    /\ focus' = IF hiding = "lock" THEN focus ELSE w
    /\ UNCHANGED <<minimised, title, facts, cache, glass>>

(* Mutant: a window that dies minimised stays among the minimised.         *)
ToplevelDestroyedStaysHidden(w) ==
    /\ Change
    /\ w \in Range(roster)
    /\ roster' = Without(roster, {w})
    /\ ApplyLayout(roster', minimised, focus)
    /\ focus' = IF hiding = "lock" THEN focus ELSE FocusAnyVisible(stack')
    /\ UNCHANGED <<minimised, title, facts, cache, glass>>

(* And before the topmost window gets the keyboard, whichever one died.    *)
ToplevelDestroyed(w) ==
    /\ Change
    /\ w \in Range(roster)
    /\ roster' = Without(roster, {w})
    /\ minimised' = minimised \ {w}
    /\ ApplyLayout(roster', minimised', focus)
    /\ focus' = IF hiding = "lock" THEN focus ELSE FocusAnyVisible(stack')
    /\ UNCHANGED <<title, facts, cache, glass>>

(* A click raises and focuses what it hits; only the pointer is marked.    *)
Click(w) ==
    /\ Change
    /\ hiding = "no"
    /\ w \in Range(stack)
    /\ stack' = Raised(stack, w)
    /\ focus' = w
    /\ owed' = TRUE
    /\ UNCHANGED <<roster, minimised, published, title, facts, cache, glass>>

(* A focus chord raises and focuses; a key press marks nothing.            *)
FocusDeed(w) ==
    /\ Change
    /\ hiding = "no"
    /\ w \in Range(stack) \ {focus}
    /\ stack' = Raised(stack, w)
    /\ focus' = w
    /\ UNCHANGED <<roster, minimised, published, title, facts, owed, cache, glass>>

Minimise ==
    /\ Change
    /\ hiding = "no"
    /\ focus \in Range(stack)
    /\ minimised' = minimised \cup {focus}
    /\ focus' = FocusAnyVisible(Without(stack, {focus}))
    /\ ApplyLayout(roster, minimised', focus')
    /\ UNCHANGED <<roster, title, facts, cache, glass>>

(* set_title alone marks nothing: the commit that follows owes the frame.  *)
SetTitle(w, t) ==
    /\ Change
    /\ w \in Range(roster) /\ title[w] /= t
    /\ title' = [title EXCEPT ![w] = t]
    /\ UNCHANGED <<roster, stack, minimised, focus, published, facts, owed, cache, glass>>

(* A commit owes a frame, and one that changes the placement of its window *)
(* runs the layout.                                                        *)
Commit(w) ==
    /\ w \in Range(roster)
    /\ \/ owed' = TRUE /\ UNCHANGED <<stack, published>>
       \/ ApplyLayout(roster, minimised, focus)
    /\ UNCHANGED <<roster, minimised, focus, title, facts, cache, glass, changes>>

AdoptWorld(l) ==
    /\ Change
    /\ l /= look
    /\ look' = l
    /\ ApplyLayout(roster, minimised, focus)
    /\ UNCHANGED <<roster, minimised, focus, title, shelf, words, wallpaper, pointer,
                   hiding, cache, glass>>

(* The pointer crosses a border, or the client below hides it.             *)
PointerMoves(p) ==
    /\ Change
    /\ p /= pointer
    /\ pointer' = p
    /\ owed' = TRUE
    /\ UNCHANGED <<desk, look, shelf, words, wallpaper, hiding, cache, glass>>

(* Locking, opening, blanking and waking owe a frame of their own.          *)
SceneHides(h) ==
    /\ Change
    /\ h /= hiding
    /\ hiding' = h
    /\ owed' = TRUE
    /\ UNCHANGED <<desk, look, shelf, words, wallpaper, pointer, cache, glass>>

----------------------------------------------------------------------------
(* The facts behind the bar, the notes and the ground.                     *)

(* A note replaces the one of its id and comes last; every change of the   *)
(* shelf is a generation, which is all the render loop compares.           *)
Shelved(notes) == [notes |-> notes, generation |-> shelf.generation + 1]

NoteAdded(n) ==
    /\ Change
    /\ shelf' = Shelved(Raised(shelf.notes, n))
    /\ owed' = TRUE
    /\ UNCHANGED <<desk, look, words, wallpaper, pointer, hiding, cache, glass>>

(* Closed by its sender, expired or dismissed: the shelf loses it.         *)
NoteGone(n) ==
    /\ Change
    /\ n \in Range(shelf.notes)
    /\ shelf' = Shelved(Without(shelf.notes, {n}))
    /\ owed' = TRUE
    /\ UNCHANGED <<desk, look, words, wallpaper, pointer, hiding, cache, glass>>

(* A bar module's cell, or a flash that appears or expires.                *)
CellSet(c) ==
    /\ Change
    /\ c /= words.cells
    /\ words' = [words EXCEPT !.cells = c]
    /\ owed' = TRUE
    /\ UNCHANGED <<desk, look, shelf, wallpaper, pointer, hiding, cache, glass>>

(* The battery and network reader publishes and marks nothing.             *)
ReadingsRead ==
    /\ Change
    /\ words' = [words EXCEPT !.readings = ~@]
    /\ UNCHANGED <<desk, look, shelf, wallpaper, pointer, hiding, owed, cache, glass>>

StatusSaved(s) ==
    /\ Change
    /\ s /= words.file
    /\ words' = [words EXCEPT !.file = s]
    /\ UNCHANGED <<desk, look, shelf, wallpaper, pointer, hiding, owed, cache, glass>>

MinutePasses ==
    /\ Change
    /\ words' = [words EXCEPT !.minute = @ + 1]
    /\ UNCHANGED <<desk, look, shelf, wallpaper, pointer, hiding, owed, cache, glass>>

(* Every save is a new stamp, even of the same picture.                    *)
WallpaperSaved(p) ==
    /\ Change
    /\ wallpaper' = [wallpaper EXCEPT !.file = p, !.stamp = @ + 1]
    /\ UNCHANGED <<desk, look, shelf, words, pointer, hiding, owed, cache, glass>>

(* Ground::refresh: a stamp is looked at once, a missing file is reported  *)
(* once, and what cannot be shown goes flat.  "pending" is the picture or  *)
(* the flat ground the next frame adopts.                                  *)
GoFlat(g) == IF g.shown THEN [g EXCEPT !.shown = FALSE, !.pending = "flat"] ELSE g

Refreshed(g) ==
    IF g.file = "absent" THEN
        IF g.seen = Absent THEN g ELSE GoFlat([g EXCEPT !.seen = Absent])
    ELSE IF g.seen = g.stamp THEN g
    ELSE IF g.file = "unreadable" THEN GoFlat([g EXCEPT !.seen = g.stamp])
    ELSE [g EXCEPT !.seen = g.stamp, !.shown = TRUE, !.pending = g.file]

Repaints(g) ==
    \/ g.pending /= wallpaper.pending
    \/ g.shown /\ g.seen /= wallpaper.seen

(* The timer of one second: the minute, the wallpaper and the status file. *)
SecondTimer ==
    LET g == Refreshed(wallpaper) IN
    /\ wallpaper' = g
    /\ words' = [words EXCEPT !.told = words.minute, !.status = words.file]
    /\ owed' = (owed \/ words.told /= words.minute \/ Repaints(g)
                     \/ words.status /= words.file)
    /\ <<wallpaper, words>>' /= <<wallpaper, words>>
    /\ UNCHANGED <<desk, look, shelf, pointer, hiding, cache, glass, changes>>

----------------------------------------------------------------------------
(* The frame.                                                              *)

Width(w) == IF w \in Fixed \/ look.mode = "floating" THEN "own" ELSE "tile"

(* The bar is rasterised again when its text differs, at the height of now.*)
BarState ==
    [parcels |-> [i \in DOMAIN stack |-> published /= NoWin /\ stack[i] = published],
     hidden |-> Cardinality(minimised), minute |-> words.minute,
     readings |-> words.readings, status |-> words.status, cells |-> words.cells,
     accent |-> look.accent]

BarBuffer ==
    IF cache.bar.height /= 0 /\ cache.bar.state = BarState THEN cache.bar
    ELSE [state |-> BarState, height |-> look.height]

(* Which parcels the strip has room for: the first, and the focused one.   *)
FirstParcels(b) ==
    1 .. (IF Len(b.parcels) <= ParcelCells THEN Len(b.parcels) ELSE ParcelCells)

Parcels(b) ==
    LET n == Len(b.parcels)
        far == {i \in DOMAIN b.parcels : b.parcels[i] /\ i > ParcelCells} IN
    IF n <= ParcelCells THEN 1 .. n
    ELSE IF far = {} THEN 1 .. ParcelCells
    ELSE 1 .. (ParcelCells - 1) \cup {CHOOSE i \in far : TRUE}

(* One cursor bitmap per shape, built once at the scale of its first use;  *)
(* the hotspot is taken at the scale of now.                               *)
Bitmaps ==
    IF pointer /= "hidden" /\ cache.bitmaps[pointer] = 0
    THEN [cache.bitmaps EXCEPT ![pointer] = look.scale] ELSE cache.bitmaps

Cursor ==
    IF pointer = "hidden" THEN {}
    ELSE {[shape |-> pointer, scale |-> Bitmaps[pointer], hotspot |-> look.scale]}

ShownNotes(notes, most) ==
    Reverse(SubSeq(notes, (IF Len(notes) > most THEN Len(notes) - most ELSE 0) + 1, Len(notes)))

(* The notes are rasterised again when the shelf changes, and only then: in *)
(* the accent and up to the number of the world of that frame.             *)
NoteBuffers ==
    IF cache.generation = shelf.generation THEN cache.notes
    ELSE [shown |-> ShownNotes(shelf.notes, look.notes), accent |-> look.accent,
          most |-> look.notes]

(* The titlebar of a window is rasterised again when its key differs; the  *)
(* cache forgets the windows that are not on the space.  Both only in the  *)
(* floating mode.                                                          *)
ChromeKey(w) == [title |-> title[w], width |-> Width(w), focused |-> w = published]

ChromeOfOldTitles ==
    [w \in Win |-> IF w \notin Range(stack) THEN NoTitlebar
                   ELSE IF cache.chrome[w].width = Width(w) THEN cache.chrome[w]
                   ELSE ChromeKey(w)]

Chrome ==
    IF look.mode = "floating"
    THEN [w \in Win |-> IF w \in Range(stack) THEN ChromeKey(w) ELSE NoTitlebar]
    ELSE cache.chrome

(* Each window is preceded by the bar the cache holds for it at its width. *)
Titlebars(chrome) ==
    [w \in Win |-> IF w \in Range(stack) /\ chrome[w].width = Width(w)
                   THEN chrome[w] ELSE NoTitlebar]

(* The renderer keeps the ground it was last given; adopting one repaints. *)
Ground == IF wallpaper.pending = "none" THEN cache.ground ELSE wallpaper.pending

Elements ==
    IF hiding /= "no" THEN [hidden |-> hiding]
    ELSE [hidden |-> "no", cursor |-> Cursor, bar |-> BarBuffer, notes |-> NoteBuffers,
          titlebars |-> Titlebars(Chrome), windows |-> stack, mode |-> look.mode,
          ring |-> published, ground |-> Ground]

Kept == [bitmaps |-> Bitmaps, bar |-> BarBuffer, notes |-> NoteBuffers,
         generation |-> shelf.generation, chrome |-> Chrome, ground |-> Ground]

(* A pass that presented spends its causes; one that failed puts them back *)
(* and keeps what it cached.                                               *)
SpentAnyway(presented) == FALSE
Spent(presented) == ~presented

RenderFrame(presented) ==
    /\ owed
    /\ owed' = Spent(presented)
    /\ cache' = Kept
    /\ wallpaper' = [wallpaper EXCEPT !.pending = "none"]
    /\ glass' = IF presented THEN Elements ELSE glass
    /\ UNCHANGED <<desk, look, shelf, words, pointer, hiding, changes>>

----------------------------------------------------------------------------
SceneInit ==
    /\ roster = <<>> /\ stack = <<>> /\ minimised = {}
    /\ focus = NoWin /\ published = NoWin
    /\ title = [w \in Win |-> CHOOSE t \in Title : TRUE]
    /\ look \in Look
    /\ shelf = [notes |-> <<>>, generation |-> 0]
    /\ words = [file |-> "none", status |-> "none", cells |-> "none",
                readings |-> FALSE, minute |-> 0, told |-> 0]
    /\ wallpaper \in [file : Pictures, stamp : {0}, seen : {Never}, shown : {FALSE},
                      pending : {"none"}]
    /\ pointer = "arrow"
    /\ hiding = "no"
    /\ owed = TRUE
    /\ cache = [bitmaps |-> [s \in Shapes |-> 0], bar |-> NoBar, notes |-> NoNotes,
                generation |-> Never, chrome |-> [w \in Win |-> NoTitlebar], ground |-> "flat"]
    /\ glass = Blank
    /\ changes = 0

SceneNext ==
    \/ \E w \in Win : \/ NewToplevel(w) \/ ToplevelDestroyed(w) \/ Click(w)
                      \/ FocusDeed(w) \/ Commit(w)
                      \/ \E t \in Title : SetTitle(w, t)
    \/ Minimise
    \/ \E l \in Look : AdoptWorld(l)
    \/ \E h \in {"no", "lock", "dark"} : SceneHides(h)
    \/ \E p \in Shapes \cup {"hidden"} : PointerMoves(p)
    \/ \E n \in {1, 2} : NoteAdded(n) \/ NoteGone(n)
    \/ \E s \in Line : StatusSaved(s) \/ CellSet(s)
    \/ ReadingsRead \/ MinutePasses \/ SecondTimer
    \/ \E p \in Pictures : WallpaperSaved(p)
    \/ \E presented \in BOOLEAN : RenderFrame(presented)

SceneSpec == SceneInit /\ [][SceneNext]_sceneVars

----------------------------------------------------------------------------
SceneTypeOK ==
    /\ Range(roster) \subseteq Win /\ Range(stack) \subseteq Range(roster)
    /\ minimised \subseteq Range(roster)
    /\ {focus, published} \subseteq Win \cup {NoWin}
    /\ title \in [Win -> Title]
    /\ look \in Look
    /\ Range(shelf.notes) \subseteq {1, 2} /\ shelf.generation \in 0 .. MaxChanges
    /\ wallpaper.file \in Pictures
    /\ wallpaper.pending \in Picture \cup {"none", "flat"}
    /\ pointer \in Shapes \cup {"hidden"} /\ hiding \in {"no", "lock", "dark"}
    /\ owed \in BOOLEAN
    /\ \A w \in Win : cache.chrome[w].title \in Title \cup {"none"}
    /\ changes \in 0 .. MaxChanges

(* What the ground should be, by what the timer last saw of the file.      *)
GroundOfTheFile ==
    IF wallpaper.shown THEN {wallpaper.file} ELSE {"flat"}

(* While no frame is owed the glass has of today: what hides the desktop,  *)
(* which windows are on the space, the mode, the shape of the cursor, which *)
(* notes there are (the newest, as many as the world they were drawn under *)
(* lets on screen), the line of the status file, the cells, the count of   *)
(* hidden windows, the accent of the bar, a minute the timer has seen and  *)
(* the wallpaper it has seen - across failing frames, a lock, a dark panel *)
(* and the caches of every earlier frame.  No more is claimed: of an       *)
(* earlier world may be the accent and the number of the notes             *)
(* (NotesTakeTheLook), the height of the bar and the scale of the cursor,  *)
(* and of an earlier moment the battery and network readings, the order of *)
(* the windows (StackingIsShown) and the one that is marked                *)
(* (MarkedIsFocused).                                                      *)
NothingOwedNothingStale ==
    ~owed =>
    /\ glass.hidden = hiding
    /\ hiding = "no" =>
       /\ Range(glass.windows) = Range(stack)
       /\ glass.mode = look.mode
       /\ {c.shape : c \in glass.cursor} = {pointer} \ {"hidden"}
       /\ glass.notes.shown = ShownNotes(shelf.notes, glass.notes.most)
       /\ glass.bar.state.status = words.status
       /\ glass.bar.state.cells = words.cells
       /\ glass.bar.state.hidden = Cardinality(minimised)
       /\ glass.bar.state.accent = look.accent
       /\ glass.bar.state.minute >= words.told
       /\ wallpaper.seen = wallpaper.stamp => glass.ground \in GroundOfTheFile

(* In the floating mode a presented frame gives every window on the space  *)
(* the bar of its own title, width and mark, whatever the cache held: no   *)
(* bar of an earlier title, mode or owner survives in it.                  *)
EveryWindowItsTitlebar ==
    [][owed /\ ~owed' /\ hiding = "no" /\ look.mode = "floating" =>
         \A w \in Win : glass'.titlebars[w] =
             IF w \in Range(stack) THEN ChromeKey(w) ELSE NoTitlebar]_sceneVars

(* The strip of the bar always has the focused window's cell, however many *)
(* windows there are, and never more cells than it has room for.           *)
FocusedParcelIsShown ==
    glass.hidden = "no" =>
    LET b == glass.bar.state IN
    /\ Cardinality(Parcels(b)) <= ParcelCells
    /\ \A i \in DOMAIN b.parcels : b.parcels[i] => i \in Parcels(b)

(* owed.rs: a deed that ran, "a focus change, a layout verb", owes a frame:*)
(* with none owed the windows stand on the glass in the order the seat     *)
(* stacks them.                                                            *)
StackingIsShown == ~owed /\ hiding = "no" => glass.windows = stack

(* introspect.rs: the published focus is the one place that knows which    *)
(* window has the keyboard, so the window a frame marks is that window.    *)
MarkedIsFocused ==
    ~owed /\ hiding = "no" /\ focus \in Range(stack) => glass.ring = focus

(* drm.rs: drawing chrome in the tiling mode paints a bar over a client's  *)
(* own content, "the one thing bar_rect's doc promises never happens".     *)
ChromeOnlyWhenFloating ==
    glass.hidden = "no" /\ glass.mode = "tiling" =>
    \A w \in Win : glass.titlebars[w] = NoTitlebar

(* "Saving a file takes effect at once" (docs/DAILY-SEAT.md:11): with no   *)
(* frame owed the notes on the glass have the accent and the number of the *)
(* world that stands.  It fails: their buffers are drawn again when the    *)
(* shelf changes, and a world that is adopted changes no shelf.            *)
NotesTakeTheLook ==
    ~owed /\ hiding = "no" /\ glass.notes.shown /= <<>> =>
        /\ glass.notes.accent = look.accent
        /\ glass.notes.shown = ShownNotes(shelf.notes, look.notes)

\* When no frame is owed the glass is of today in what NothingOwedNothingStale
\* names, and the bar's strip always shows the window that is marked in it.
GlassIsUpToDate == NothingOwedNothingStale /\ FocusedParcelIsShown

(* What changes with no frame owed is none of what NothingOwedNothingStale *)
(* names, and every frame in the floating mode shows the titlebars of the  *)
(* windows it draws, as they are in that frame.                            *)
ScreenIsCurrent == []GlassIsUpToDate /\ EveryWindowItsTitlebar
=============================================================================
