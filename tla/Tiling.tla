------------------------------- MODULE Tiling -------------------------------
(***************************************************************************)
(* The tiling tree of one output: which window is which leaf, where a new  *)
(* window goes, what is left when one goes, and the frame each is given.   *)
(*                                                                         *)
(* A node is known by the path that leads to it from the root, a sequence  *)
(* of 1 for a first child and 2 for a second: `leaf` gives the windows at  *)
(* the leaves, `divider` the splits, and a depth is the length of a path.  *)
(* The tree itself (where a divider puts its two parcels, which leaf is    *)
(* the neighbour) is the split algebra of the library kukaku, modelled     *)
(* from what layout.rs asks of it.                                         *)
(***************************************************************************)
EXTENDS Integers, FiniteSets, Sequences, SequencesExt, Functions

CONSTANTS
    Pane,           \* windows, each with the one WindowId it is ever given
    NoPane,         \* Option::None
    Bounds,         \* the usable zone, in pixels
    GAP,            \* layout.rs, GAP
    DeltaPercent,   \* what one resize moves a divider by
    MinPercent      \* kukaku's MIN_RATIO: no divider goes past it

ASSUME TilingAssumption ==
    /\ NoPane \notin Pane
    /\ Bounds \in [x : Int, y : Int, w : Nat, h : Nat]
    /\ GAP \in Nat /\ DeltaPercent \in Nat /\ MinPercent \in 0..50

VARIABLES
    leaf,           \* path |-> the window at that leaf
    divider,        \* path |-> the split at that node
    tiles,          \* Tiling.windows
    treeFocus,      \* Tiling.focus
    seatFocus       \* the window with the keyboard, NoPane for one not tiled

tilingVars == <<leaf, divider, tiles, treeFocus, seatFocus>>

Span(x, y, w, h) == [x |-> x, y |-> y, w |-> w, h |-> h]
Split(across, percent) == [across |-> across, percent |-> percent]
PathOf(p) == CHOOSE path \in DOMAIN leaf : leaf[path] = p
Depth(p) == Len(PathOf(p))
Holds(p) == p \in tiles
InTree(p) == p \in Range(leaf)

-----------------------------------------------------------------------------
(* Geometry.                                                               *)

\* One of the two parcels a divider cuts a rectangle in.
Part(r, s, side) ==
    LET along == IF s.across THEN r.w ELSE r.h
        first == (along * s.percent) \div 100
    IN  CASE s.across /\ side = 1 -> [r EXCEPT !.w = first]
          [] s.across /\ side = 2 -> [r EXCEPT !.x = @ + first, !.w = @ - first]
          [] ~s.across /\ side = 1 -> [r EXCEPT !.h = first]
          [] OTHER -> [r EXCEPT !.y = @ + first, !.h = @ - first]

\* arrange_ids: the parcel of a leaf, cut out of the bounds from the root down.
Parcel(path) ==
    LET cut[n \in 0..Len(path)] ==
            IF n = 0 THEN Bounds ELSE Part(cut[n - 1], divider[SubSeq(path, 1, n - 1)], path[n])
    IN  cut[Len(path)]

AtLeast1(n) == IF n < 1 THEN 1 ELSE n

\* Mutant: the gap is taken off one side only.
FrameOneSided(path) ==
    LET r == Parcel(path)
    IN  Span(r.x + GAP, r.y + GAP, AtLeast1(r.w - GAP), AtLeast1(r.h - GAP))

\* arrange: a parcel without the gap around it, and never less than a pixel.
Frame(path) ==
    LET r == Parcel(path)
    IN  Span(r.x + GAP, r.y + GAP, AtLeast1(r.w - 2 * GAP), AtLeast1(r.h - 2 * GAP))

\* What arrange returns has an entry for each leaf whose window is known.
Arranged == {path \in DOMAIN leaf : leaf[path] \in tiles}

Overlap(a, b, n) == a < b + n /\ b < a + n
OnThatSide(a, b, dir) ==
    CASE dir = "right" -> b.x = a.x + a.w
      [] dir = "left" -> b.x + b.w = a.x
      [] dir = "below" -> b.y = a.y + a.h
      [] dir = "above" -> b.y + b.h = a.y
Alongside(a, b, dir) ==
    IF dir \in {"left", "right"} THEN a.y < b.y + b.h /\ b.y < a.y + a.h
    ELSE a.x < b.x + b.w /\ b.x < a.x + a.w

-----------------------------------------------------------------------------
(* Windows come and go.                                                    *)

\* What hangs from node q, moved to hang from node r.
Moved(f, q, r) ==
    LET below == {path \in DOMAIN f : IsPrefix(q, path)}
        rest(path) == SubSeq(path, Len(q) + 1, Len(path))
    IN  [to \in {r \o rest(path) : path \in below} |-> f[q \o SubSeq(to, Len(r) + 1, Len(to))]]
Elsewhere(f, q) == Restrict(f, {path \in DOMAIN f : ~IsPrefix(q, path)})
Joined(f, g) == [x \in DOMAIN f \cup DOMAIN g |-> IF x \in DOMAIN g THEN g[x] ELSE f[x]]
At(path, v) == [p \in {path} |-> v]

\* A split takes the place of node q: what hung there is its first child, and
\* the new window is its second.
SplitNode(q, across, p) ==
    /\ leaf' = Joined(Joined(Elsewhere(leaf, q), Moved(leaf, q, q \o <<1>>)), At(q \o <<2>>, p))
    /\ divider' = Joined(Joined(Elsewhere(divider, q), Moved(divider, q, q \o <<1>>)),
                         At(q, Split(across, 50)))

\* map_id: the leaf in focus is split, to the right at even depths and below at
\* odd ones; with no such leaf the root is.
Grow(p) ==
    CASE leaf = <<>> -> leaf' = At(<<>>, p) /\ divider' = <<>>
      [] leaf # <<>> /\ InTree(treeFocus) ->
            SplitNode(PathOf(treeFocus), Depth(treeFocus) % 2 = 0, p)
      [] OTHER -> SplitNode(<<>>, TRUE, p)

\* Tiling::map.
TreeMap(p) == Grow(p) /\ tiles' = tiles \cup {p} /\ treeFocus' = p

\* new_toplevel: the window has the keyboard unless the session is locked.
MapWindow(p) ==
    /\ ~Holds(p)
    /\ TreeMap(p)
    /\ seatFocus' \in {p, seatFocus}

\* Mutant: the parent of the leaf is left where it was, without the leaf.
CollapseNothing(path) ==
    leaf' = Restrict(leaf, DOMAIN leaf \ {path}) /\ UNCHANGED divider

\* remove_leaf: the sibling takes the place of the parent.
Collapse(path) ==
    IF path = <<>> THEN leaf' = <<>> /\ divider' = <<>>
    ELSE LET parent == Front(path)
             sibling == parent \o <<3 - Last(path)>>
         IN  /\ leaf' = Joined(Elsewhere(leaf, parent), Moved(leaf, sibling, parent))
             /\ divider' = Joined(Elsewhere(divider, parent), Moved(divider, sibling, parent))

\* The first leaf from the left.
FirstPane(f) ==
    f[CHOOSE path \in DOMAIN f : \A other \in DOMAIN f :
        \/ other = path
        \/ \E i \in DOMAIN path \cap DOMAIN other :
              /\ path[i] < other[i]
              /\ \A j \in 1..(i - 1) : path[j] = other[j]]

\* Mutant: the focus stays with the window that left.
RefocusNever(p) == UNCHANGED treeFocus

\* Focus lands on whatever is left, so the next window has something to split.
Refocus(p) ==
    treeFocus' = CASE treeFocus # p -> treeFocus
                   [] treeFocus = p /\ leaf' = <<>> -> NoPane
                   [] OTHER -> FirstPane(leaf')

\* Tiling::unmap.
Leave(p) ==
    /\ Holds(p)
    /\ Collapse(PathOf(p))
    /\ tiles' = tiles \ {p}

\* apply_layout takes a window out that turns out to float; it keeps the keyboard.
FloatWindow(p) ==
    /\ Leave(p)
    /\ Refocus(p)
    /\ seatFocus' = IF seatFocus = p THEN NoPane ELSE seatFocus

\* toplevel_destroyed: a window that is visible gets both focuses, unless none
\* is or the session is locked.
CloseWindow(p) ==
    /\ Leave(p)
    /\ \/ \E x \in tiles' : treeFocus' = x /\ seatFocus' = x
       \/ Refocus(p) /\ seatFocus' = IF seatFocus = p THEN NoPane ELSE seatFocus

-----------------------------------------------------------------------------
(* Deeds and clicks.                                                       *)

FocusWindow(p) ==
    /\ Holds(p)
    /\ treeFocus' = p /\ seatFocus' = p
    /\ UNCHANGED <<leaf, divider, tiles>>

\* A click, or the choice of a floating window, moves the keyboard only.
ClickWindow(p) ==
    /\ p \in tiles \cup {NoPane}
    /\ seatFocus' = p
    /\ UNCHANGED <<leaf, divider, tiles, treeFocus>>

FocusDirection(dir) ==
    /\ treeFocus # NoPane
    /\ \E path \in DOMAIN leaf :
          LET from == Parcel(PathOf(treeFocus))
              to == Parcel(path)
          IN  /\ OnThatSide(from, to, dir) /\ Alongside(from, to, dir)
              /\ FocusWindow(leaf[path])

\* resize_leaf: the nearest divider of the focused leaf that lies that way.
ResizeFocused(dir) ==
    /\ treeFocus # NoPane
    /\ LET path == PathOf(treeFocus)
           lies(d) == divider[SubSeq(path, 1, d)].across <=> dir \in {"left", "right"}
           depths == {d \in 0..(Len(path) - 1) : lies(d)}
           q == SubSeq(path, 1, CHOOSE d \in depths : \A e \in depths : e <= d)
           moved == divider[q].percent
                    + (IF dir \in {"right", "below"} THEN DeltaPercent ELSE -DeltaPercent)
       IN  /\ depths # {}
           /\ divider' = [divider EXCEPT ![q].percent =
                  IF moved < MinPercent THEN MinPercent
                  ELSE IF moved > 100 - MinPercent THEN 100 - MinPercent ELSE moved]
    /\ UNCHANGED <<leaf, tiles, treeFocus, seatFocus>>

Directions == {"left", "right", "above", "below"}

TilingInit ==
    /\ leaf = <<>> /\ divider = <<>>
    /\ tiles = {}
    /\ treeFocus = NoPane /\ seatFocus = NoPane

TilingNext ==
    \/ \E p \in Pane : MapWindow(p) \/ FloatWindow(p) \/ CloseWindow(p) \/ FocusWindow(p)
    \/ \E p \in Pane \cup {NoPane} : ClickWindow(p)
    \/ \E dir \in Directions : FocusDirection(dir) \/ ResizeFocused(dir)

TilingSpec == TilingInit /\ [][TilingNext]_tilingVars

-----------------------------------------------------------------------------
(* Properties.                                                             *)

TilingTypeOK ==
    /\ tiles \subseteq Pane
    /\ treeFocus \in Pane \cup {NoPane} /\ seatFocus \in Pane \cup {NoPane}
    /\ \A path \in DOMAIN leaf : leaf[path] \in Pane
    /\ \A path \in DOMAIN divider : divider[path].percent \in MinPercent..(100 - MinPercent)

\* The tree holds every tiled window in one leaf and no other, and each split
\* has two sides: no sequence of opening, closing and resizing drops a window
\* or leaves a hole (layout.rs, map_id and unmap).
EveryTileOnce ==
    /\ Range(leaf) = tiles /\ Cardinality(DOMAIN leaf) = Cardinality(tiles)
    /\ Arranged = DOMAIN leaf
    /\ UNION {{path \o <<1>>, path \o <<2>>} : path \in DOMAIN divider}
          = (DOMAIN leaf \cup DOMAIN divider) \ {<<>>}

\* While anything is tiled the tree has a leaf in focus, the one the next
\* window splits and a resize acts on (layout.rs, the focus of Tiling).
FocusIsALeaf == IF tiles = {} THEN treeFocus = NoPane ELSE treeFocus \in tiles

\* The frames of two windows are two gaps apart, where the parcels have room
\* for them (layout.rs, GAP: the border is drawn in it).
FramesKeepTheirGap ==
    \A p, q \in Arranged :
        LET roomy(r) == r.w > 2 * GAP /\ r.h > 2 * GAP
            one == Frame(p)
            other == Frame(q)
        IN  p # q /\ roomy(Parcel(p)) /\ roomy(Parcel(q)) =>
                \/ one.x + one.w + 2 * GAP <= other.x \/ other.x + other.w + 2 * GAP <= one.x
                \/ one.y + one.h + 2 * GAP <= other.y \/ other.y + other.h + 2 * GAP <= one.y

\* The tree stays whole, has a focus, and keeps its windows apart.
TilingHolds == EveryTileOnce /\ FocusIsALeaf /\ FramesKeepTheirGap

\* layout.rs:92: "Which leaf the keyboard is on".
TreeFollowsTheKeyboard == tiles # {} => treeFocus = seatFocus

\* layout.rs:103: "alternating orientation with depth so a run of new windows
\* produces a usable grid rather than a column of slivers".
SplitsAlternate == \A path \in DOMAIN divider : divider[path].across <=> Len(path) % 2 = 0

\* layout.rs:1178: "disjointness is preserved by construction".
FramesNeverOverlap ==
    \A p, q \in Arranged :
        LET one == Frame(p)
            other == Frame(q)
        IN  p = q \/ one.x + one.w <= other.x \/ other.x + other.w <= one.x \/ one.y + one.h <= other.y \/ other.y + other.h <= one.y
=============================================================================
