------------------------------ MODULE FloatDesk ------------------------------
(***************************************************************************)
(* The floating desk of one screen: where the windows are and in which     *)
(* order they cover each other, the titlebar and the margin the pointer    *)
(* finds, dragging, resizing, the edge tiles, and the layout pass that     *)
(* puts everything back where its claims say                               *)
(* (crates/omoya/src/layout.rs, grab.rs, snap.rs, floatpos.rs, placement.rs,*)
(* chrome.rs, the press in input.rs and the stacking in drm.rs).           *)
(*                                                                         *)
(* Desk has the tables, the tabs and the keyboard of both layouts; here    *)
(* every window floats and what counts is geometry.  Pixels are small      *)
(* integers: Px holds every measure of the source by name.                 *)
(*                                                                         *)
(* The layout asks a client for a size; the client commits it some time    *)
(* later, if the window is then on the screen, and until then the space    *)
(* reads the size committed last (Window::on_commit, element_geometry).  A *)
(* client asked twice commits the last size.  One whose minimum is its     *)
(* maximum, and the launcher, commit their own size.                       *)
(***************************************************************************)
EXTENDS Integers, FiniteSets, Lists, SequencesExt

CONSTANTS
    Win,            \* the windows
    Kind,           \* what each is: "managed", "fixed" (min = max) or "overlay"
    OwnSize,        \* <<w, h>> a fixed window or the launcher gives itself
    DragSpot,           \* the points the pointer rests at
    Arrow,          \* the arrow keys that are pressed: Left, Right, Above, Below
    Px,             \* the measures of chrome.rs, grab.rs, snap.rs and the config
    Dock,           \* columns a layer surface takes at the left, when it is there
    MaxGrabs,       \* bound: grabs that move or resize in one behaviour
    NoWin           \* no window, no tile, no place

Tile == {"Left", "Right", "TopLeft", "TopRight", "BottomLeft", "BottomRight", "Full"}
Measure == {"screenW", "screenH", "bar", "title", "button", "pad", "margin", "corner", "edge",
            "run", "gap", "threshold", "step", "minW", "minH", "nudge"}

ASSUME FloatDeskAssumption ==
    /\ NoWin \notin Win \cup Tile /\ NoWin \notin Int \X Int
    /\ Kind \in [Win -> {"managed", "fixed", "overlay"}]
    /\ Arrow \subseteq {"Left", "Right", "Above", "Below"}
    /\ OwnSize \in (Nat \ {0}) \X (Nat \ {0})
    /\ DragSpot \subseteq Int \X Int
    /\ Px \in [Measure -> Nat] /\ Px.minW > 0
    /\ Dock \in Nat /\ Dock < Px.screenW

VARIABLES
    shown,          \* the space: the windows mapped, back to front
    known,          \* the roster: every toplevel, in the order they appeared
    placed,         \* where the space has each window's content, and the size asked of it
    committed,      \* the size each client committed last, <<0, 0>> before the first
    tiled,          \* the edge tile each is snapped to
    maximised,      \* the windows in Mode::Maximized
    minimised,      \* the windows in Mode::Minimized, the last one last
    keptAt,         \* floatpos: the frame's corner the operator left
    keptSize,       \* floatpos: the frame's size the operator chose
    keys,           \* the window with the keyboard
    pointer,        \* where the pointer is
    hold,           \* the grab of the pointer
    preview,        \* snap_preview
    grabs,          \* how many grabs there were
    tapped,         \* last_titlebar_press, while it may still be doubled
    docked          \* the layer surface is there, and keeps its columns

floatVars == <<grabs, shown, known, placed, committed, tiled, maximised, minimised, keptAt,
               keptSize, keys, pointer, hold, preview, tapped, docked>>

-----------------------------------------------------------------------------
(* Rectangles and points.                                                  *)

Rect(x, y, w, h) == [x |-> x, y |-> y, w |-> w, h |-> h]
Screen0 == Rect(0, 0, Px.screenW, Px.screenH)
Lower(a, b) == IF a < b THEN a ELSE b
Higher(a, b) == IF a > b THEN a ELSE b
Distance(a, b) == IF a < b THEN b - a ELSE a - b
HoldsPoint(r, p) == p[1] \in r.x .. (r.x + r.w - 1) /\ p[2] \in r.y .. (r.y + r.h - 1)

Decorated(x) == Kind[x] # "overlay"

\* The frame around a content and the content inside a frame.
FrameOf(c) == Rect(c.x, c.y - Px.title, c.w, c.h + Px.title)
ContentFor(f) == Rect(f.x, f.y + Px.title, f.w, Higher(f.h - Px.title, 1))
BarRect(c) == Rect(c.x, c.y - Px.title, c.w, Px.title)

\* element_geometry: where the space has the window, in the size it committed.
Geometry(x) == [placed[x] EXCEPT !.w = committed[x][1], !.h = committed[x][2]]

\* The zone the layout uses, and the one the drag uses: it knows the bar, not
\* the layer surfaces.
GrabZone == Rect(0, Px.bar, Px.screenW, Px.screenH - Px.bar)
Usable(d) ==
    IF d THEN Rect(Dock, Px.bar, Px.screenW - Dock, Px.screenH - Px.bar) ELSE GrabZone

Clamped(at, w, h, zone) ==
    <<Higher(Lower(at[1], zone.x + zone.w - w), zone.x),
      Higher(Lower(at[2], zone.y + zone.h - h), zone.y)>>

CentredLoc(zone, w, h) ==
    <<zone.x + Higher((zone.w - w) \div 2, 0), zone.y + Higher((zone.h - h) \div 2, 0)>>

\* cascaded, for a window that starts at half the zone.
Cascaded(zone, index) ==
    LET w == Higher(zone.w \div 2, 1)
        h == Higher(zone.h \div 2, 1)
        x == zone.x + (zone.w - w) \div 2
        y == zone.y + (zone.h - h) \div 2
        room == Lower(zone.x + zone.w - (x + w), zone.y + zone.h - (y + h))
        n == IF Px.step = 0 THEN 0 ELSE index % Higher(Higher(room, 0) \div Px.step, 1)
    IN  Rect(x + n * Px.step, y + n * Px.step, w, h)

\* snap_to_edges: each axis is drawn flush when it is close.
Flush(at, size, from, to) ==
    IF Px.threshold <= 0 THEN at
    ELSE IF Distance(at, from) <= Px.threshold THEN from
    ELSE IF Distance(at + size, to) <= Px.threshold THEN to - size
    ELSE at

SnapToEdges(at, w, h, zone) ==
    <<Flush(at[1], w, zone.x, zone.x + zone.w), Flush(at[2], h, zone.y, zone.y + zone.h)>>

\* snap_rect, the same on release: here the far edge wins.
SnapRect(at, w, h, zone) ==
    LET far(v, size, to) == Px.threshold > 0 /\ Distance(v + size, to) <= Px.threshold
        axis(v, size, from, to) ==
            IF far(v, size, to) THEN to - size
            ELSE IF Px.threshold > 0 /\ Distance(v, from) <= Px.threshold THEN from ELSE v
    IN  <<axis(at[1], w, zone.x, zone.x + zone.w), axis(at[2], h, zone.y, zone.y + zone.h)>>

-----------------------------------------------------------------------------
(* The edge tiles of snap.rs.                                              *)

ZoneFor(p) ==
    LET nearL == p[1] <= Px.edge
        nearR == p[1] >= Px.screenW - 1 - Px.edge
        nearT == p[2] <= Px.edge
        nearB == p[2] >= Px.screenH - 1 - Px.edge
        top == p[2] <= Px.run
        bottom == p[2] >= Px.screenH - 1 - Px.run
        left == p[1] <= Px.run
        right == p[1] >= Px.screenW - 1 - Px.run
    IN  IF (nearL /\ top) \/ (nearT /\ left) THEN "TopLeft"
        ELSE IF (nearR /\ top) \/ (nearT /\ right) THEN "TopRight"
        ELSE IF (nearL /\ bottom) \/ (nearB /\ left) THEN "BottomLeft"
        ELSE IF (nearR /\ bottom) \/ (nearB /\ right) THEN "BottomRight"
        ELSE IF nearL THEN "Left"
        ELSE IF nearR THEN "Right"
        ELSE IF nearT THEN "Full" ELSE NoWin

TileFrame(tile, zone) ==
    LET g == Px.gap
        lw == Higher((zone.w - 3 * g) \div 2, 1)
        rw == Higher(zone.w - 3 * g - lw, 1)
        th == Higher((zone.h - 3 * g) \div 2, 1)
        bh == Higher(zone.h - 3 * g - th, 1)
        full == Higher(zone.h - 2 * g, 1)
        isLeft == tile \in {"Left", "TopLeft", "BottomLeft"}
        isLow == tile \in {"BottomLeft", "BottomRight"}
    IN  IF tile = "Full" THEN zone
        ELSE Rect(zone.x + g + (IF isLeft THEN 0 ELSE g + lw),
                  zone.y + g + (IF isLow THEN g + th ELSE 0),
                  IF isLeft THEN lw ELSE rw,
                  CASE tile \in {"Left", "Right"} -> full [] isLow -> bh [] OTHER -> th)

\* step: where Logo and an arrow take a window.
SnapStep(current, dir) ==
    LET table == [
            Left |-> [Right |-> NoWin, TopRight |-> "TopLeft", BottomRight |-> "BottomLeft",
                      TopLeft |-> "TopLeft", BottomLeft |-> "BottomLeft"],
            Right |-> [Left |-> NoWin, TopLeft |-> "TopRight", BottomLeft |-> "BottomRight",
                       TopRight |-> "TopRight", BottomRight |-> "BottomRight"],
            Above |-> [Left |-> "TopLeft", Right |-> "TopRight", BottomLeft |-> "Left",
                       BottomRight |-> "Right"],
            Below |-> [Full |-> NoWin, TopLeft |-> "Left", TopRight |-> "Right",
                       Left |-> "BottomLeft", Right |-> "BottomRight",
                       BottomLeft |-> NoWin, BottomRight |-> NoWin]]
        otherwise == [Left |-> "Left", Right |-> "Right", Above |-> "Full", Below |-> "Minimize"]
    IN  IF current \in DOMAIN table[dir] THEN table[dir][current] ELSE otherwise[dir]

-----------------------------------------------------------------------------
(* The layout pass.                                                        *)

Drop(s, x) == Sift(s, ToSet(s) \ {x})
ToTop(s, x) == Append(Drop(s, x), x)
Hidden0(x) == x \in ToSet(minimised')

\* The content place_frame gives a frame, and the size it asks the client for;
\* a client nobody asks has its own.
ContentOf(x, f) ==
    LET c == IF Decorated(x) /\ f.w > 0 THEN ContentFor(f) ELSE f
    IN  IF Kind[x] = "managed" THEN c ELSE Rect(c.x, c.y, OwnSize[1], OwnSize[2])

\* Where a window that lies free starts, when nothing is remembered of it.  That
\* is the place of the cascade for a fixed window too: it is remembered before
\* the size of the client is asked for, and recalled then.
FirstAt(x, index, zone) ==
    LET c == Cascaded(zone, index) IN SnapToEdges(<<c.x, c.y>>, c.w, c.h, zone)

FreeSize(x, index, zone) ==
    IF Kind[x] = "fixed" THEN OwnSize
    ELSE IF keptSize'[x] # NoWin
    THEN <<Lower(keptSize'[x][1], zone.w), Lower(keptSize'[x][2], zone.h)>>
    ELSE LET c == Cascaded(zone, index) IN <<c.w, c.h>>

\* What the pass remembers of a window, and the frame it gives it: maximised
\* beats a tile beats the place that is remembered.
Unplaced(x) == x \notin maximised' /\ tiled'[x] = NoWin /\ Kind[x] # "overlay"

RememberedAt(kept, x, index, zone) ==
    IF Unplaced(x) /\ ~Hidden0(x) /\ kept = NoWin THEN FirstAt(x, index, zone) ELSE kept

FrameGiven(kept, x, index, zone) ==
    LET size == FreeSize(x, index, zone)
        at == Clamped(kept, size[1], size[2], zone)
        middle == CentredLoc(zone, OwnSize[1], OwnSize[2])
    IN  CASE x \in maximised' -> zone
          [] x \notin maximised' /\ tiled'[x] # NoWin -> TileFrame(tiled'[x], zone)
          [] Kind[x] = "overlay" /\ x \notin maximised' /\ tiled'[x] = NoWin ->
                Rect(middle[1], middle[2], OwnSize[1], OwnSize[2])
          [] OTHER -> Rect(at[1], at[2], size[1], size[2])

\* apply_layout, from the places and the stack a handler leaves: every window
\* of the roster is mapped again, in its order, and mapping puts it on top.
Laid0(places, stack, kept) ==
    LET zone == Usable(docked')
        index(x) == CHOOSE i \in 1 .. Len(known') : known'[i] = x
        ranked == Sift(known', {y \in Win : ~Hidden0(y)})
        strays == Sift(stack, Win \ ToSet(known'))
        at(x) == RememberedAt(kept[x], x, index(x) - 1, zone)
        laid == ToSet(ranked)
    IN  [kept |-> [x \in Win |-> IF x \in laid THEN at(x) ELSE kept[x]],
         places |-> [x \in Win |-> IF x \in laid
                                   THEN ContentOf(x, FrameGiven(at(x), x, index(x) - 1, zone))
                                   ELSE places[x]],
         stack |-> strays \o ranked]

SpaceBecomes(l) == shown' = l.stack /\ placed' = l.places /\ keptAt' = l.kept
ApplyFloat(places, stack, kept) == SpaceBecomes(Laid0(places, stack, kept))

\* release_geometry_claims, with the tile the caller asks for instead.
Release(x, tile) ==
    /\ tiled' = [tiled EXCEPT ![x] = tile]
    /\ maximised' = maximised \ {x}

ClaimsKept == UNCHANGED <<tiled, maximised, minimised, keptSize>>
PointerKept == UNCHANGED <<pointer, hold, preview, grabs, tapped>>

-----------------------------------------------------------------------------
(* Windows come and go.                                                    *)

NewWindow(x) ==
    /\ x \notin ToSet(known) \cup ToSet(shown)
    /\ hold.win # x /\ keys # x
    /\ known' = Append(known, x)
    /\ keys' = x
    /\ tiled' = [tiled EXCEPT ![x] = NoWin]
    /\ keptSize' = [keptSize EXCEPT ![x] = NoWin]
    /\ committed' = [committed EXCEPT ![x] = <<0, 0>>]
    /\ UNCHANGED <<maximised, minimised, docked>> /\ PointerKept
    /\ ApplyFloat([placed EXCEPT ![x] = Rect(0, 0, 1, 1)], Append(shown, x),
                  [keptAt EXCEPT ![x] = NoWin])

\* focus_window over the last of the windows left on the screen: it is raised.
\* What a window remembers goes with it, unless a grab still holds it.
WindowGone(x) ==
    /\ x \in ToSet(known)
    /\ known' = Drop(known, x)
    /\ maximised' = maximised \ {x}
    /\ minimised' = Drop(minimised, x)
    /\ tiled' = IF hold.win = x THEN tiled ELSE [tiled EXCEPT ![x] = NoWin]
    /\ keptSize' = IF hold.win = x THEN keptSize ELSE [keptSize EXCEPT ![x] = NoWin]
    /\ committed' = IF hold.win = x THEN committed ELSE [committed EXCEPT ![x] = <<0, 0>>]
    /\ UNCHANGED docked /\ PointerKept
    /\ ApplyFloat(IF hold.win = x THEN placed ELSE [placed EXCEPT ![x] = Screen0],
                  Drop(shown, x),
                  IF hold.win = x THEN keptAt ELSE [keptAt EXCEPT ![x] = NoWin])
    /\ keys' = IF shown' # <<>> THEN Last(shown') ELSE keys

\* CompositorHandler::commit: the client of a window on the screen has done
\* what it was asked.  Asked for nothing, it takes a size of its own.
Commits(x) ==
    /\ x \in ToSet(shown) \cap ToSet(known)
    /\ committed' = [committed EXCEPT ![x] =
            <<IF placed[x].w = 0 THEN OwnSize[1] ELSE placed[x].w, placed[x].h>>]
    /\ UNCHANGED <<shown, known, placed, keptAt, keys, docked>>
    /\ ClaimsKept /\ PointerKept

\* space.refresh, once a frame.
RefreshSpace ==
    /\ ToSet(shown) \ ToSet(known) # {}
    /\ shown' = Sift(shown, ToSet(known))
    /\ UNCHANGED <<known, placed, keptAt, keys, committed, docked>>
    /\ ClaimsKept /\ PointerKept

\* A layer surface with an exclusive zone maps or goes: its commit lays out.
DockChanges ==
    /\ Dock > 0
    /\ docked' = ~docked
    /\ UNCHANGED <<known, keys, committed>> /\ ClaimsKept /\ PointerKept
    /\ ApplyFloat(placed, shown, keptAt)

-----------------------------------------------------------------------------
(* The deeds that arrange; each acts on the window with the keyboard.      *)

Focused == IF keys \in ToSet(shown) THEN keys ELSE NoWin
Arranges(x) == x \in ToSet(known) /\ Decorated(x)
ActsOnFocus == Arranges(Focused) \/ (Focused = NoWin /\ Arranges(keys))

Maximise(x) ==
    /\ maximised' = IF x \in maximised THEN maximised \ {x} ELSE maximised \cup {x}
    /\ minimised' = Drop(minimised, x)
    /\ UNCHANGED <<known, tiled, keptSize, committed, docked>>
    /\ ApplyFloat(placed, shown, keptAt)

ToggleMaximize == ActsOnFocus /\ Maximise(keys) /\ UNCHANGED keys /\ PointerKept

\* Deed::Minimize: the keyboard goes to the window on top of those left.
Minimise(x) ==
    LET left == Sift(shown, Win \ ToSet(minimised'))
    IN  /\ minimised' = ToTop(minimised, x)
        /\ maximised' = maximised \ {x}
        /\ keys' = IF left = <<>> THEN x ELSE Last(left)
        /\ UNCHANGED <<known, tiled, keptSize, committed, docked>>
        /\ ApplyFloat(placed, shown, keptAt)

MinimizeKeys == ActsOnFocus /\ Minimise(keys) /\ PointerKept

\* Deed::RestoreLast: the window is not on the screen yet, so the keyboard
\* does not go to it.
RestoreLast ==
    /\ minimised # <<>>
    /\ minimised' = Front(minimised)
    /\ UNCHANGED <<known, tiled, maximised, keptSize, keys, committed, docked>> /\ PointerKept
    /\ ApplyFloat(placed, shown, keptAt)

\* Deed::Snap.
SnapKeys(dir) ==
    /\ Arranges(Focused)
    /\ LET to == SnapStep(tiled[Focused], dir)
       IN  \/ to = "Minimize" /\ MinimizeKeys
           \/ /\ to # "Minimize"
              /\ Release(Focused, to)
              /\ UNCHANGED <<known, minimised, keptSize, keys, committed, docked>> /\ PointerKept
              /\ ApplyFloat(placed, shown, keptAt)

\* Deed::Resize on a floating seat: Px.step pixels of the right or lower edge.
ResizeKeys(dir) ==
    LET f == FrameOf(Geometry(Focused))
        wide == CASE dir = "Right" -> Px.nudge [] dir = "Left" -> - Px.nudge [] OTHER -> 0
        tall == CASE dir = "Below" -> Px.nudge [] dir = "Above" -> - Px.nudge [] OTHER -> 0
    IN  /\ Arranges(Focused)
        /\ keptSize[Focused] = NoWin     \* bound: one size from the keys
        /\ Release(Focused, NoWin)
        /\ keptSize' = [keptSize EXCEPT ![Focused] =
                <<IF wide = 0 THEN f.w ELSE Higher(f.w + wide, Px.minW),
                  IF tall = 0 THEN f.h ELSE Higher(f.h + tall, Px.minH)>>]
        /\ UNCHANGED <<known, minimised, keys, committed, docked>> /\ PointerKept
        /\ ApplyFloat(placed, shown, [keptAt EXCEPT ![Focused] = <<f.x, f.y>>])

\* nearest_in_direction, and the focus it is for: the window is raised.
Centre(r) == <<r.x + r.w \div 2, r.y + r.h \div 2>>
Along(from, to, dir) ==
    CASE dir = "Left" -> from[1] - to[1]
      [] dir = "Right" -> to[1] - from[1]
      [] dir = "Above" -> from[2] - to[2]
      [] OTHER -> to[2] - from[2]
Across(from, to, dir) ==
    IF dir \in {"Left", "Right"} THEN Distance(from[2], to[2]) ELSE Distance(from[1], to[1])

FocusTowards(dir) ==
    LET from == Centre(Geometry(Focused))
        to(y) == Centre(Geometry(y))
        score(y) == Along(from, to(y), dir) + 2 * Across(from, to(y), dir)
        ahead == {y \in ToSet(shown) \ {Focused} : Along(from, to(y), dir) > 0}
    IN  /\ IF Focused = NoWin
           THEN shown # <<>> /\ keys' = Last(shown) /\ shown' = shown
           ELSE \E y \in ahead :
                /\ \A z \in ahead : score(y) <= score(z)
                /\ keys' = y
                /\ shown' = ToTop(shown, y)
        /\ UNCHANGED <<known, placed, keptAt, committed, docked>> /\ ClaimsKept /\ PointerKept

-----------------------------------------------------------------------------
(* What the pointer finds.                                                 *)

\* chrome::hit: the three buttons of a bar wide enough for them, then the bar.
Button(c, i) ==
    Rect(c.x + Px.pad + i * (Px.button + Px.pad),
         c.y - Px.title + (Px.title - Px.button) \div 2, Px.button, Px.button)
ChromeHit(c, p) ==
    LET fits == c.w >= Px.pad + 3 * (Px.button + Px.pad)
    IN  IF fits /\ HoldsPoint(Button(c, 0), p) THEN "Close"
        ELSE IF fits /\ HoldsPoint(Button(c, 1), p) THEN "Minimize"
        ELSE IF fits /\ HoldsPoint(Button(c, 2), p) THEN "Maximize"
        ELSE IF HoldsPoint(BarRect(c), p) THEN "Drag" ELSE NoWin

\* border_hit: the edges a press in the margin around a frame takes.
BorderHit(f, p) ==
    LET r == f.x + f.w
        b == f.y + f.h
        m == Px.margin
        beside == p[1] < f.x \/ p[1] >= r
        beyond == p[2] < f.y \/ p[2] >= b
        near(v, e) == Distance(v, e) <= Px.corner
    IN  IF HoldsPoint(Rect(f.x - m, f.y - m, f.w + 2 * m, f.h + 2 * m), p) /\ ~HoldsPoint(f, p)
        THEN {e \in {"left", "right", "top", "bottom"} :
                CASE e = "left" -> p[1] < f.x \/ (beyond /\ near(p[1], f.x))
                  [] e = "right" -> p[1] >= r \/ (beyond /\ near(p[1], r))
                  [] e = "top" -> p[2] < f.y \/ (beside /\ near(p[2], f.y))
                  [] e = "bottom" -> p[2] >= b \/ (beside /\ near(p[2], b))}
        ELSE {}

\* resized: the edges that are held move, the others stay.
ResizedFrame(f, edges, dx, dy) ==
    LET w == CASE "left" \in edges -> Higher(f.w - dx, Px.minW)
               [] "left" \notin edges /\ "right" \in edges -> Higher(f.w + dx, Px.minW)
               [] OTHER -> f.w
        h == CASE "top" \in edges -> Higher(f.h - dy, Px.minH)
               [] "top" \notin edges /\ "bottom" \in edges -> Higher(f.h + dy, Px.minH)
               [] OTHER -> f.h
    IN  Rect(IF "left" \in edges THEN f.x + f.w - w ELSE f.x,
             IF "top" \in edges THEN f.y + f.h - h ELSE f.y, w, h)

\* The front one of a set of windows on the screen.
FrontOf(set) == Last(Sift(shown, set))

Bars == {x \in ToSet(shown) : Decorated(x) /\ ChromeHit(Geometry(x), pointer) # NoWin}
Borders == {x \in ToSet(shown) : Decorated(x) /\ BorderHit(FrameOf(Geometry(x)), pointer) # {}}
Contents == {x \in ToSet(shown) : HoldsPoint(Geometry(x), pointer)}
UnderLayer(p) == docked /\ p[1] < Dock

-----------------------------------------------------------------------------
(* The press, the grabs it starts and the release.                         *)

NoHold == [kind |-> "none", win |-> NoWin, at |-> <<0, 0>>, edges |-> {}, from |-> Screen0]
MoveHold(x, p) == [NoHold EXCEPT !.kind = "move", !.win = x,
                                 !.at = <<placed[x].x - p[1], placed[x].y - p[2]>>]
ResizeHold(x, p, edges) == [NoHold EXCEPT !.kind = "resize", !.win = x, !.at = p,
                                          !.edges = edges, !.from = FrameOf(Geometry(x))]
ClickHold(x) == [NoHold EXCEPT !.kind = "click", !.win = x, !.at = pointer]

\* Every grab that moves or resizes is counted, for the bound.
Counted ==
    /\ grabs' = grabs + (IF hold'.kind \in {"move", "resize"} THEN 1 ELSE 0)
    /\ grabs' <= MaxGrabs

Raised(x) == shown' = ToTop(shown, x) /\ UNCHANGED <<placed, keptAt>>

\* A press on a titlebar, in front of everything else: a button is the deed of
\* the same name on the window it belongs to, the bar is a drag or, twice, the
\* maximise deed.
PressBar(x) ==
    LET what == ChromeHit(Geometry(x), pointer)
        twice == what = "Drag" /\ tapped = x
    IN  /\ x = FrontOf(Bars)
        /\ UNCHANGED <<pointer, preview>>
        /\ \/ /\ what = "Close"
              /\ Raised(x) /\ keys' = x
              /\ UNCHANGED <<known, hold, tapped, committed, docked>> /\ ClaimsKept
           \/ what = "Minimize" /\ Minimise(x) /\ UNCHANGED <<hold, tapped>>
           \/ what = "Maximize" /\ Maximise(x) /\ keys' = x /\ UNCHANGED <<hold, tapped>>
           \/ twice /\ Maximise(x) /\ keys' = x /\ tapped' = NoWin /\ UNCHANGED hold
           \/ /\ what = "Drag" /\ ~twice
              /\ Raised(x) /\ keys' = x /\ tapped' = x
              /\ hold' = MoveHold(x, pointer)
              /\ UNCHANGED <<known, committed, docked>> /\ ClaimsKept

\* border_under: the margin around a frame.
PressBorder(x) ==
    /\ x = FrontOf(Borders)
    /\ Raised(x) /\ keys' = x
    /\ hold' = ResizeHold(x, pointer, BorderHit(FrameOf(Geometry(x)), pointer))
    /\ UNCHANGED <<known, pointer, preview, tapped, committed, docked>> /\ ClaimsKept

\* A press on a content: with Logo it moves or resizes the window, without it
\* the window comes to the front, has the keyboard and gets the click.
PressContent(x, button, logo) ==
    LET c == Geometry(x)
        quadrant == {IF 2 * pointer[1] < 2 * c.x + c.w THEN "left" ELSE "right",
                     IF 2 * pointer[2] < 2 * c.y + c.h THEN "top" ELSE "bottom"}
    IN  /\ x = FrontOf(Contents)
        /\ Raised(x)
        /\ IF logo /\ Decorated(x)
           THEN /\ hold' = IF button = "left" THEN MoveHold(x, pointer)
                                             ELSE ResizeHold(x, pointer, quadrant)
                /\ UNCHANGED keys
           ELSE /\ keys' = x
                /\ hold' = IF UnderLayer(pointer) THEN hold ELSE ClickHold(x)
        /\ UNCHANGED <<known, pointer, preview, tapped, committed, docked>> /\ ClaimsKept

PressGround ==
    /\ keys' = NoWin
    /\ UNCHANGED <<shown, placed, keptAt, known, pointer, hold, preview, tapped, committed, docked>>
    /\ ClaimsKept

PressButton(button, logo) ==
    /\ hold.kind = "none"
    /\ \/ button = "left" /\ \E x \in Bars : PressBar(x)
       \/ button = "left" /\ Bars = {} /\ \E x \in Borders : PressBorder(x)
       \/ /\ button = "right" \/ Bars \cup Borders = {}
          /\ \/ \E x \in Contents : PressContent(x, button, logo)
             \/ Contents = {} /\ PressGround
    /\ Counted

\* The time of a double click runs out.
TapAges == tapped # NoWin /\ tapped' = NoWin /\ hold.kind = "none"
           /\ UNCHANGED <<shown, placed, keptAt, known, keys, pointer, hold, preview, grabs,
                          committed, docked>>
           /\ ClaimsKept

\* move_request and resize_request: the client that has the click asks.
ClientTakes ==
    /\ hold.kind = "click" /\ hold.win \in ToSet(shown) /\ Decorated(hold.win)
    /\ \/ hold' = MoveHold(hold.win, hold.at)
       \/ hold' = ResizeHold(hold.win, hold.at, {"right", "bottom"})
    /\ Counted
    /\ UNCHANGED <<shown, placed, keptAt, known, keys, pointer, preview, tapped, committed, docked>>
    /\ ClaimsKept

\* Mutant: the drag keeps the content's corner as if it were the frame's.
ContentCorner(c) == <<c.x, c.y>>

\* What floatpos keeps of a content put somewhere: its frame's corner.
FrameCorner(c) == <<c.x, c.y - Px.title>>

\* MoveGrab::motion.  A tile or a maximised window comes free: it is asked for
\* its own size, and the place it is held at is scaled between the sizes the
\* space has before and after - both are the one committed, so that the window
\* stays where it was.  Then the frame follows, in the size committed and
\* inside the zone of the drag.
Drag(x, p) ==
    LET freed == tiled[x] # NoWin \/ x \in maximised
        l == IF freed THEN Laid0(placed, shown, keptAt)
             ELSE [places |-> placed, stack |-> shown, kept |-> keptAt]
        size == committed[x]
        here == x \in ToSet(l.stack)
        ratio == Lower(Higher(p[1] - placed[x].x, 0), size[1])
        grip == IF freed /\ here /\ x \in ToSet(shown) /\ size[1] > 0
                THEN <<- ratio, hold.at[2]>> ELSE hold.at
        want == <<p[1] + grip[1], p[2] + grip[2] - Px.title>>
        at == IF here THEN Clamped(want, size[1], size[2] + Px.title, GrabZone) ELSE want
    IN  /\ Release(x, NoWin)
        /\ placed' = [l.places EXCEPT ![x].x = at[1], ![x].y = at[2] + Px.title]
        /\ keptAt' = [l.kept EXCEPT ![x] = FrameCorner(placed'[x])]
        /\ shown' = ToTop(l.stack, x)
        /\ hold' = [hold EXCEPT !.at = grip]

\* ResizeGrab::motion.
Stretch(x, p) ==
    LET f == ResizedFrame(hold.from, hold.edges, p[1] - hold.at[1], p[2] - hold.at[2])
    IN  /\ Release(x, NoWin)
        /\ keptAt' = [keptAt EXCEPT ![x] = <<f.x, f.y>>]
        /\ keptSize' = [keptSize EXCEPT ![x] = <<f.w, f.h>>]
        /\ placed' = [placed EXCEPT ![x] = ContentOf(x, f)]
        /\ shown' = ToTop(shown, x)
        /\ UNCHANGED <<hold, preview>>

MovePointer(p) ==
    /\ pointer' = p
    /\ UNCHANGED <<known, minimised, keys, grabs, tapped, committed, docked>>
    /\ CASE hold.kind = "move" ->
              /\ UNCHANGED keptSize
              /\ Drag(hold.win, p)
              /\ preview' = IF ZoneFor(p) = NoWin THEN NoWin ELSE TileFrame(ZoneFor(p), GrabZone)
         [] hold.kind = "resize" -> Stretch(hold.win, p)
         [] OTHER -> /\ UNCHANGED <<shown, placed, keptAt, tiled, maximised, keptSize>>
                     /\ UNCHANGED <<hold, preview>>

\* The last button goes up.  A drag that ends at an edge is a tile; elsewhere
\* the frame is drawn flush with the screen's edge it is close to.
DropDrag(x) ==
    LET tile == ZoneFor(pointer)
        f == FrameOf(Geometry(x))
        at == SnapRect(<<f.x, f.y>>, f.w, f.h, Screen0)
        moves == at # <<f.x, f.y>>
    IN  /\ UNCHANGED <<maximised, minimised, keptSize>>
        /\ \/ /\ tile # NoWin
              /\ tiled' = [tiled EXCEPT ![x] = tile]
              /\ ApplyFloat(placed, shown, keptAt)
           \/ /\ tile = NoWin
              /\ UNCHANGED tiled
              /\ IF x \in ToSet(shown) /\ moves
                 THEN /\ placed' = [placed EXCEPT ![x].x = at[1], ![x].y = at[2] + Px.title]
                      /\ keptAt' = [keptAt EXCEPT ![x] = FrameCorner(placed'[x])]
                      /\ shown' = ToTop(shown, x)
                 ELSE UNCHANGED <<placed, keptAt, shown>>

PointerFreed ==
    /\ hold.kind # "none"
    /\ hold' = NoHold
    /\ preview' = IF hold.kind = "move" THEN NoWin ELSE preview
    /\ UNCHANGED <<known, pointer, keys, grabs, tapped, committed, docked>>
    /\ IF hold.kind = "move" THEN DropDrag(hold.win)
       ELSE ClaimsKept /\ UNCHANGED <<placed, keptAt, shown>>

-----------------------------------------------------------------------------
FloatInit ==
    /\ shown = <<>> /\ known = <<>> /\ minimised = <<>>
    /\ placed = [x \in Win |-> Screen0]
    /\ committed = [x \in Win |-> <<0, 0>>]
    /\ tiled = [x \in Win |-> NoWin]
    /\ maximised = {}
    /\ keptAt = [x \in Win |-> NoWin]
    /\ keptSize = [x \in Win |-> NoWin]
    /\ keys = NoWin
    /\ pointer \in DragSpot
    /\ hold = NoHold
    /\ preview = NoWin /\ tapped = NoWin /\ grabs = 0
    /\ docked = FALSE

FloatNext ==
    \/ \E x \in Win : NewWindow(x) \/ WindowGone(x) \/ Commits(x)
    \/ RefreshSpace \/ DockChanges
    \/ ToggleMaximize \/ MinimizeKeys \/ RestoreLast
    \/ \E dir \in Arrow : SnapKeys(dir) \/ ResizeKeys(dir) \/ FocusTowards(dir)
    \/ \E button \in {"left", "right"}, logo \in BOOLEAN : PressButton(button, logo)
    \/ TapAges \/ ClientTakes \/ PointerFreed
    \/ \E p \in DragSpot : MovePointer(p)

FloatSpec == FloatInit /\ [][FloatNext]_floatVars

-----------------------------------------------------------------------------
FloatTypeOK ==
    /\ ToSet(known) \subseteq Win /\ ToSet(shown) \subseteq Win
    /\ IsInjective(known) /\ IsInjective(shown) /\ IsInjective(minimised)
    /\ tiled \in [Win -> Tile \cup {NoWin}]
    /\ maximised \subseteq Win
    /\ committed \in [Win -> Nat \X Nat]
    /\ keys \in Win \cup {NoWin}
    /\ pointer \in DragSpot
    /\ hold.kind \in {"none", "click", "move", "resize"}
    /\ hold.kind = "none" <=> hold.win = NoWin
    /\ docked \in BOOLEAN

\* A drag moves the window it holds, and a layout pass would place that window:
\* no layer keeps columns, which the zone of a grab does not know of
\* (grab.rs:820).
MovedByDrag ==
    LET x == hold.win
    IN  /\ hold.kind = "move" /\ hold'.kind = "move" /\ ~docked
        /\ placed'[x] # placed[x]
        /\ x \in ToSet(known') /\ x \notin maximised' /\ ~Hidden0(x)

\* Where the window is now is where the next pass puts it.
LiesWhereAPassPuts(x) ==
    LET again == Laid0(placed', shown', keptAt').places[x]
    IN  <<again.x, again.y>> = <<placed'[x].x, placed'[x].y>>

\* The client has drawn, in the size that was asked of it.
HasCommitted(x) == committed'[x][1] > 0 /\ committed'[x] = <<placed'[x].w, placed'[x].h>>

\* "THE SAME ZONE THE LAYOUT USES" (grab.rs, usable_zone) and "The operator
\* decides where it is" (floatpos.rs): a window that a drag moves lies where
\* the next layout pass, whatever asks for it, puts it too, when its client has
\* committed the size asked of it.
DraggedStaysPut ==
    [][MovedByDrag /\ HasCommitted(hold.win) => LiesWhereAPassPuts(hold.win)]_floatVars

\* The same with no regard to what was committed, as the clamp of a drag has
\* it: "two implementations of "keep it on screen" with different reference
\* frames is how a window ends up snapping to one edge on drag and a different
\* one on the next layout" (grab.rs:246).  It fails: the drag clamps the size
\* committed last, the pass the size it asks for.
DragMeetsLayout == [][MovedByDrag => LiesWhereAPassPuts(hold.win)]_floatVars

\* "the pointer keeps its RELATIVE spot on the titlebar - grabbing a half-screen
\* window near its right edge must not leave the pointer hanging off the right
\* of a window that just got narrower" (grab.rs:217): the commit that makes a
\* dragged window narrower leaves the pointer over it.  It fails: the place the
\* window is held at is scaled between two sizes that are the same, for the
\* client has committed nothing in between.
OverColumns(x, p) == p[1] \in placed[x].x .. (placed[x].x + committed[x][1] - 1)
NarrowedUnderPointer ==
    [][/\ UNCHANGED <<hold, pointer, placed>>
       /\ hold.kind = "move" /\ OverColumns(hold.win, pointer)
       => OverColumns(hold.win, pointer)']_floatVars

\* "First sight: centre it at its OWN size, tidy it against the edges, and
\* record that" (layout.rs:797): a window that sizes itself starts in the middle.
\* It fails: the cascade has recorded its own place forty lines before.
FixedStartsCentred ==
    [][\A x \in ToSet(known') \ ToSet(known) :
            Kind[x] = "fixed" /\ ~Hidden0(x) =>
                keptAt'[x] = LET zone == Usable(docked')
                             IN  SnapToEdges(CentredLoc(zone, OwnSize[1], OwnSize[2]),
                                             OwnSize[1], OwnSize[2], zone)]_floatVars

\* "every layout pass re-stacked the seat in roster order and undid
\* click-to-raise" (layout.rs) is told as what was repaired: the window that
\* has the keyboard and lies on top does so after a pass that brings no window.
RaisedStaysUp ==
    [][/\ UNCHANGED <<known, minimised, keys, hold>>
       /\ hold.kind = "none" /\ shown # <<>> /\ keys = Last(shown)
       => Last(shown') = keys]_floatVars

\* "a button responds exactly where it is drawn" (input.rs): the bar a press
\* hits is not covered, where the pointer is, by a window in front of its own.
ClickHitsWhatIsSeen ==
    \A i, j \in DOMAIN shown :
        i < j /\ Bars # {} /\ shown[i] = FrontOf(Bars) => ~HoldsPoint(Geometry(shown[j]), pointer)
=============================================================================
