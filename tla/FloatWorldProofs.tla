-------------------------- MODULE FloatWorldProofs ---------------------------
(***************************************************************************)
(* Proofs about the floating desk, the tiling tree, the map of chords and  *)
(* what the seat hands to its threads, each for itself: they share no      *)
(* variable.                                                               *)
(*                                                                         *)
(* FloatDesk, for any screen, any measures and any windows: a window that a *)
(* drag moves lies where the next layout pass puts it, when its client has *)
(* committed what it was asked.  The drag clamps the frame with the size   *)
(* committed, the pass with the size it would give the window; they agree  *)
(* because a window that lies free is asked to fill that size (SizesHold), *)
(* and what was clamped with one size is left alone by a clamp with a      *)
(* smaller one (ClampTwice).                                               *)
(*                                                                         *)
(* PowerThread, for any panel, any steps of the keys and any length of the *)
(* queue: once the queue is empty logind holds what the seat asked for     *)
(* last.  The queue is in order, so the last command about the inhibitor,  *)
(* or about the lock, is the seat's last word; when none is left the thread *)
(* has obeyed it, or logind refused and the thread knows.                  *)
(*                                                                         *)
(* WorldFile, for any worlds and any modules: the world that was saved last *)
(* is the one that stands, once nothing is under way.  It is still to be   *)
(* read, or being read, or the last world on its way to the seat           *)
(* (SavedArrives); what the seat asked the children to run is of the last  *)
(* world it adopted (AskedOfTheLastSet).                                   *)
(*                                                                         *)
(* Bindings, for any worlds and any reserved chords: the map of chords is  *)
(* always that of the standing world over the seat's own (BindInv), and    *)
(* behind the lock a deed comes to nothing the world did not flag.  A name *)
(* the seat may be asked for is a command's or a verb's, never both; where *)
(* a world declares a command under a verb's name, the flag of one is that *)
(* of the other, so the second fact needs NoCommandIsAVerb.                *)
(*                                                                         *)
(* Tiling, for any windows, bounds, gap and step of a resize.  The tree is *)
(* a set of paths: each node but the root hangs at a divider, each divider *)
(* has both its sides, and no leaf is a divider (Tree).  A split and a     *)
(* collapse make a tree of a tree (SplitTree, CollapseTree), and the       *)
(* parcels of two leaves lie on two sides of the divider where their paths *)
(* part (ParcelsApart).                                                    *)
(***************************************************************************)
EXTENDS FloatDesk, PowerThread, WorldFile, Bindings, Tiling, ListProofs, SequenceTheorems,
        FiniteSetTheorems, TLAPS

-----------------------------------------------------------------------------
(* FloatDesk.                                                              *)

Place == [x : Int, y : Int, w : Nat, h : Int]
SizeMemo == (Nat \X Int) \cup {NoWin}
AtMemo == (Int \X Int) \cup {NoWin}
Side == {"left", "right", "top", "bottom"}

\* The size a window that lies free is given.
SizeFor(memo, x, zone) ==
    IF Kind[x] = "fixed" THEN OwnSize
    ELSE IF memo # NoWin THEN <<Lower(memo[1], zone.w), Lower(memo[2], zone.h)>>
    ELSE <<Higher(zone.w \div 2, 1), Higher(zone.h \div 2, 1)>>

\* A content is no smaller than the frame the pass would give the window, less
\* the titlebar; and a size that leaves the width to the client leaves it.
Fills(c, size) ==
    c.w >= size[1] /\ c.h + Px.title >= size[2] /\ (size[1] = 0 => c.w = 0)

ClaimsTyped ==
    /\ known \in Seq(Win) /\ minimised \in Seq(Win) /\ maximised \in SUBSET Win
    /\ tiled \in [Win -> Tile \cup {NoWin}] /\ keptSize \in [Win -> SizeMemo]
    /\ docked \in BOOLEAN

SpaceTyped == shown \in Seq(Win) /\ placed \in [Win -> Place] /\ keptAt \in [Win -> AtMemo]

\* Only a decorated window is ever moved or resized; and what was committed.
HoldTyped ==
    /\ hold \in [kind : {"none", "click", "move", "resize"}, win : Win \cup {NoWin},
                 at : Int \X Int, edges : SUBSET Side, from : Place]
    /\ hold.kind \in {"move", "resize"} => hold.win \in Win /\ Decorated(hold.win)
    /\ pointer \in Int \X Int
    /\ committed \in [Win -> Nat \X Int]

\* A window that is not minimised is on the screen, and one that lies free has
\* the size it would be given again.
SizesHold ==
    \A x \in ToSet(known) \ ToSet(minimised) :
        /\ x \in ToSet(shown)
        /\ tiled[x] = NoWin /\ x \notin maximised /\ Decorated(x) =>
              Fills(placed[x], SizeFor(keptSize[x], x, Usable(docked)))

DragInv == ClaimsTyped /\ SpaceTyped /\ HoldTyped /\ SizesHold

-----------------------------------------------------------------------------
(* Numbers.                                                                *)

LEMMA PxTyped ==
    /\ Px.screenW \in Nat /\ Px.screenH \in Nat /\ Px.bar \in Nat /\ Px.title \in Nat
    /\ Px.edge \in Nat /\ Px.run \in Nat /\ Px.gap \in Nat /\ Px.threshold \in Nat
    /\ Px.step \in Nat /\ Px.minW \in Nat /\ Px.minH \in Nat /\ Px.nudge \in Nat
    /\ Px.minW > 0 /\ Dock \in Nat /\ Dock < Px.screenW
BY FloatDeskAssumption DEF Measure

LEMMA OwnTyped ==
    /\ OwnSize[1] \in Nat \ {0} /\ OwnSize[2] \in Nat \ {0}
    /\ OwnSize = <<OwnSize[1], OwnSize[2]>>
BY FloatDeskAssumption

LEMMA ZoneTyped == \A d \in BOOLEAN : Usable(d) \in Place /\ Usable(d).w > 0
BY PxTyped DEF Usable, GrabZone, Rect, Place

LEMMA LowHigh ==
    \A a, b \in Int : /\ Lower(a, b) \in Int /\ Higher(a, b) \in Int
                      /\ Lower(a, b) <= a /\ Lower(a, b) <= b /\ Lower(a, b) \in {a, b}
                      /\ Higher(a, b) >= a /\ Higher(a, b) >= b /\ Higher(a, b) \in {a, b}
BY DEF Lower, Higher

LEMMA SizeTyped ==
    ASSUME NEW x \in Win, NEW zone \in Place, NEW memo \in SizeMemo
    PROVE  SizeFor(memo, x, zone) \in Nat \X Int
<1>1. zone.w \in Nat /\ zone.h \in Int
  BY DEF Place
<1>2. CASE Kind[x] = "fixed"
  BY <1>2, FloatDeskAssumption DEF SizeFor
<1>3. CASE Kind[x] # "fixed" /\ memo # NoWin
  <2>1. memo[1] \in Nat /\ memo[2] \in Int
    BY <1>3 DEF SizeMemo
  <2>2. Lower(memo[1], zone.w) \in Nat /\ Lower(memo[2], zone.h) \in Int
    BY <1>1, <2>1 DEF Lower
  <2> QED BY <1>3, <2>2 DEF SizeFor
<1>4. CASE Kind[x] # "fixed" /\ memo = NoWin
  <2>1. zone.w \div 2 \in Int /\ zone.h \div 2 \in Int
    BY <1>1
  <2>2. Higher(zone.w \div 2, 1) \in Nat /\ Higher(zone.h \div 2, 1) \in Int
    BY <2>1 DEF Higher
  <2> QED BY <1>4, <2>2 DEF SizeFor
<1> QED BY <1>2, <1>3, <1>4

LEMMA ClampTyped ==
    ASSUME NEW at \in Int \X Int, NEW w \in Int, NEW h \in Int, NEW zone \in Place
    PROVE  Clamped(at, w, h, zone) \in Int \X Int
<1>1. /\ at[1] \in Int /\ at[2] \in Int
      /\ zone.x \in Int /\ zone.y \in Int /\ zone.w \in Int /\ zone.h \in Int
  BY DEF Place
<1> QED BY <1>1 DEF Clamped, Lower, Higher

\* What lies in a zone with its size lies there with less.
LEMMA ClampTwice ==
    ASSUME NEW at \in Int \X Int, NEW w \in Int, NEW h \in Int, NEW zone \in Place,
           NEW v \in Int, NEW g \in Int, v <= w, g <= h
    PROVE  Clamped(Clamped(at, w, h, zone), v, g, zone) = Clamped(at, w, h, zone)
<1>1. PICK x \in Int, y \in Int, zx \in Int, zy \in Int, zw \in Int, zh \in Int :
         /\ x = at[1] /\ y = at[2]
         /\ zx = zone.x /\ zy = zone.y /\ zw = zone.w /\ zh = zone.h
  <2>1. at[1] \in Int /\ at[2] \in Int
    OBVIOUS
  <2>2. zone.x \in Int /\ zone.y \in Int /\ zone.w \in Int /\ zone.h \in Int
    BY DEF Place
  <2> QED BY <2>1, <2>2
<1>2. PICK once : once = Clamped(at, w, h, zone)
  OBVIOUS
<1>3. PICK ox, oy : /\ ox = Higher(Lower(x, zx + zw - w), zx)
                    /\ oy = Higher(Lower(y, zy + zh - h), zy)
  OBVIOUS
<1>4. once = <<ox, oy>>
  BY <1>1, <1>2, <1>3 DEF Clamped
<1>5. Higher(Lower(ox, zx + zw - v), zx) = ox
  BY <1>3 DEF Higher, Lower
<1>6. Higher(Lower(oy, zy + zh - g), zy) = oy
  BY <1>3 DEF Higher, Lower
<1>7. Clamped(<<ox, oy>>, v, g, zone) = <<ox, oy>>
  BY <1>1, <1>5, <1>6 DEF Clamped
<1> QED BY <1>2, <1>4, <1>7

LEMMA TileTyped ==
    ASSUME NEW tile \in Tile, NEW zone \in Place
    PROVE  TileFrame(tile, zone) \in Place
<1> DEFINE g == Px.gap
           lw == Higher((zone.w - 3 * g) \div 2, 1)
           rw == Higher(zone.w - 3 * g - lw, 1)
           th == Higher((zone.h - 3 * g) \div 2, 1)
           bh == Higher(zone.h - 3 * g - th, 1)
           full == Higher(zone.h - 2 * g, 1)
           isLeft == tile \in {"Left", "TopLeft", "BottomLeft"}
           isLow == tile \in {"BottomLeft", "BottomRight"}
<1>1. /\ g \in Nat /\ zone.x \in Int /\ zone.y \in Int /\ zone.w \in Int /\ zone.h \in Int
  BY PxTyped DEF Place
<1>2. lw \in Nat \ {0} /\ th \in Nat \ {0}
  <2>1. (zone.w - 3 * g) \div 2 \in Int /\ (zone.h - 3 * g) \div 2 \in Int
    BY <1>1
  <2> QED BY <2>1 DEF Higher
<1>3. rw \in Nat \ {0} /\ bh \in Nat \ {0} /\ full \in Nat \ {0}
  <2> HIDE DEF lw, th
  <2> QED BY <1>1, <1>2 DEF Higher
<1>4. TileFrame(tile, zone) =
        IF tile = "Full" THEN zone
        ELSE Rect(zone.x + g + (IF isLeft THEN 0 ELSE g + lw),
                  zone.y + g + (IF isLow THEN g + th ELSE 0),
                  IF isLeft THEN lw ELSE rw,
                  IF tile \in {"Left", "Right"} THEN full ELSE IF isLow THEN bh ELSE th)
  BY DEF TileFrame
<1> HIDE DEF g, lw, rw, th, bh, full
<1> QED BY <1>1, <1>2, <1>3, <1>4 DEF Rect, Place

LEMMA SnapTyped ==
    ASSUME NEW at \in Int \X Int, NEW w \in Int, NEW h \in Int, NEW zone \in Place
    PROVE  SnapToEdges(at, w, h, zone) \in Int \X Int /\ SnapRect(at, w, h, zone) \in Int \X Int
<1>1. /\ at[1] \in Int /\ at[2] \in Int
      /\ zone.x \in Int /\ zone.y \in Int /\ zone.w \in Int /\ zone.h \in Int
  BY DEF Place
<1>2. SnapToEdges(at, w, h, zone) \in Int \X Int
  <2>1. Flush(at[1], w, zone.x, zone.x + zone.w) \in Int
    BY <1>1 DEF Flush
  <2>2. Flush(at[2], h, zone.y, zone.y + zone.h) \in Int
    BY <1>1 DEF Flush
  <2> QED BY <2>1, <2>2 DEF SnapToEdges
<1>3. SnapRect(at, w, h, zone) \in Int \X Int
  BY <1>1, PxTyped DEF SnapRect, Distance
<1> QED BY <1>2, <1>3

LEMMA CascadeTyped ==
    ASSUME NEW zone \in Place, NEW index \in Int
    PROVE  /\ Cascaded(zone, index).x \in Int /\ Cascaded(zone, index).y \in Int
           /\ Cascaded(zone, index).w = Higher(zone.w \div 2, 1)
           /\ Cascaded(zone, index).h = Higher(zone.h \div 2, 1)
<1> DEFINE w == Higher(zone.w \div 2, 1)
           h == Higher(zone.h \div 2, 1)
           x == zone.x + (zone.w - w) \div 2
           y == zone.y + (zone.h - h) \div 2
           room == Lower(zone.x + zone.w - (x + w), zone.y + zone.h - (y + h))
           steps == Higher(Higher(room, 0) \div Px.step, 1)
           n == IF Px.step = 0 THEN 0 ELSE index % steps
<1>1. zone.x \in Int /\ zone.y \in Int /\ zone.w \in Int /\ zone.h \in Int
  BY DEF Place
<1>2. w \in Int /\ h \in Int
  <2>1. zone.w \div 2 \in Int /\ zone.h \div 2 \in Int
    BY <1>1
  <2> QED BY <2>1 DEF Higher
<1>3. x \in Int /\ y \in Int
  <2> HIDE DEF w, h
  <2>1. (zone.w - w) \div 2 \in Int /\ (zone.h - h) \div 2 \in Int
    BY <1>1, <1>2
  <2> QED BY <1>1, <2>1
<1>4. room \in Int
  <2> HIDE DEF x, y, w, h
  <2> QED BY <1>1, <1>2, <1>3 DEF Lower
<1>5. n \in Int
  <2> SUFFICES ASSUME Px.step # 0 PROVE index % steps \in Int
    OBVIOUS
  <2>1. Px.step \in Nat \ {0}
    BY PxTyped
  <2>2. Higher(room, 0) \in Nat
    <3> HIDE DEF room
    <3> QED BY <1>4 DEF Higher
  <2>3. Higher(room, 0) \div Px.step \in Int
    <3> HIDE DEF room
    <3> QED BY <2>1, <2>2
  <2>4. steps \in Nat \ {0}
    <3> HIDE DEF room
    <3> QED BY <2>3 DEF Higher
  <2> HIDE DEF steps
  <2> QED BY <2>4
<1>6. Cascaded(zone, index) = Rect(x + n * Px.step, y + n * Px.step, w, h)
  BY DEF Cascaded
<1>7. n * Px.step \in Int
  <2> HIDE DEF n
  <2> QED BY <1>5, PxTyped
<1> HIDE DEF n, x, y
<1> QED BY <1>3, <1>6, <1>7 DEF Rect

LEMMA CentreTyped ==
    ASSUME NEW zone \in Place, NEW w \in Int, NEW h \in Int
    PROVE  CentredLoc(zone, w, h) \in Int \X Int
<1>1. zone.x \in Int /\ zone.y \in Int /\ zone.w \in Int /\ zone.h \in Int
  BY DEF Place
<1>2. (zone.w - w) \div 2 \in Int /\ (zone.h - h) \div 2 \in Int
  BY <1>1
<1> QED BY <1>1, <1>2 DEF CentredLoc, Higher

LEMMA FirstTyped ==
    ASSUME NEW x \in Win, NEW index \in Int, NEW zone \in Place
    PROVE  FirstAt(x, index, zone) \in Int \X Int
<1> DEFINE c == Cascaded(zone, index)
<1>1. c.x \in Int /\ c.y \in Int /\ c.w \in Int /\ c.h \in Int
  <2>1. zone.w \div 2 \in Int /\ zone.h \div 2 \in Int
    BY DEF Place
  <2>2. Higher(zone.w \div 2, 1) \in Int /\ Higher(zone.h \div 2, 1) \in Int
    BY <2>1 DEF Higher
  <2> QED BY <2>2, CascadeTyped
<1>2. FirstAt(x, index, zone) = SnapToEdges(<<c.x, c.y>>, c.w, c.h, zone)
  BY DEF FirstAt
<1> HIDE DEF c
<1> QED BY <1>1, <1>2, SnapTyped

LEMMA ContentTyped ==
    ASSUME NEW x \in Win, NEW f \in Place
    PROVE  ContentOf(x, f) \in Place
<1>1. f.x \in Int /\ f.y \in Int /\ f.w \in Nat /\ f.h \in Int
  BY DEF Place
<1>2. f.h - Px.title \in Int
  BY <1>1, PxTyped
<1> QED BY <1>1, <1>2, PxTyped, OwnTyped, LowHigh DEF ContentOf, ContentFor, Rect, Place

-----------------------------------------------------------------------------
(* What a layout pass gives a window that is not minimised.                *)

LEMMA FreeSizeIs ==
    ASSUME NEW x \in Win, NEW index \in Int, NEW zone \in Place
    PROVE  FreeSize(x, index, zone) = SizeFor(keptSize'[x], x, zone)
<1>1. /\ Cascaded(zone, index).w = Higher(zone.w \div 2, 1)
      /\ Cascaded(zone, index).h = Higher(zone.h \div 2, 1)
  BY CascadeTyped
<1> QED BY <1>1 DEF FreeSize, SizeFor

LEMMA GivenTyped ==
    ASSUME ClaimsTyped', NEW x \in Win, ~Hidden0(x), NEW kept \in AtMemo, NEW index \in Int,
           NEW zone \in Place, NEW at, at = RememberedAt(kept, x, index, zone),
           NEW size, size = SizeFor(keptSize'[x], x, zone)
    PROVE  /\ at \in AtMemo
           /\ FrameGiven(at, x, index, zone) \in Place
           /\ Unplaced(x) =>
                 /\ at \in Int \X Int
                 /\ FrameGiven(at, x, index, zone) =
                       Rect(Clamped(at, size[1], size[2], zone)[1],
                            Clamped(at, size[1], size[2], zone)[2], size[1], size[2])
           /\ RememberedAt(at, x, index, zone) = at
<1>1. keptSize'[x] \in SizeMemo /\ tiled'[x] \in Tile \cup {NoWin}
  BY DEF ClaimsTyped
<1>2. size \in Nat \X Int /\ FreeSize(x, index, zone) = size
  BY <1>1, SizeTyped, FreeSizeIs
<1>3. FirstAt(x, index, zone) \in Int \X Int
  BY FirstTyped
<1>4. at \in AtMemo /\ (Unplaced(x) => at \in Int \X Int)
  BY <1>3 DEF RememberedAt, AtMemo
<1>5. RememberedAt(at, x, index, zone) = at
  BY DEF RememberedAt
<1>6. CASE x \in maximised'
  <2>1. FrameGiven(at, x, index, zone) = zone /\ ~Unplaced(x)
    BY <1>6 DEF FrameGiven, Unplaced
  <2> QED BY <2>1, <1>4, <1>5
<1>7. CASE x \notin maximised' /\ tiled'[x] # NoWin
  <2>1. FrameGiven(at, x, index, zone) = TileFrame(tiled'[x], zone) /\ ~Unplaced(x)
    BY <1>7 DEF FrameGiven, Unplaced
  <2>2. TileFrame(tiled'[x], zone) \in Place
    BY <1>1, <1>7, TileTyped
  <2> QED BY <2>1, <2>2, <1>4, <1>5
<1>8. CASE x \notin maximised' /\ tiled'[x] = NoWin /\ Kind[x] = "overlay"
  <2> DEFINE middle == CentredLoc(zone, OwnSize[1], OwnSize[2])
  <2>1. FrameGiven(at, x, index, zone) = Rect(middle[1], middle[2], OwnSize[1], OwnSize[2])
    BY <1>8 DEF FrameGiven
  <2>2. ~Unplaced(x)
    BY <1>8 DEF Unplaced
  <2>3. middle \in Int \X Int
    BY OwnTyped, CentreTyped
  <2>4. middle[1] \in Int /\ middle[2] \in Int
    <3> HIDE DEF middle
    <3> QED BY <2>3
  <2> HIDE DEF middle
  <2>5. Rect(middle[1], middle[2], OwnSize[1], OwnSize[2]) \in Place
    BY <2>4, OwnTyped DEF Rect, Place
  <2> QED BY <2>1, <2>2, <2>5, <1>4, <1>5
<1>9. CASE Unplaced(x)
  <2>1. FrameGiven(at, x, index, zone) =
           Rect(Clamped(at, size[1], size[2], zone)[1],
                Clamped(at, size[1], size[2], zone)[2], size[1], size[2])
    BY <1>9, <1>2 DEF FrameGiven, Unplaced
  <2>2. at \in Int \X Int /\ size[1] \in Nat /\ size[2] \in Int
    BY <1>2, <1>4, <1>9
  <2>3. Clamped(at, size[1], size[2], zone) \in Int \X Int
    BY <2>2, ClampTyped
  <2>4. /\ Clamped(at, size[1], size[2], zone)[1] \in Int
        /\ Clamped(at, size[1], size[2], zone)[2] \in Int
    BY <2>3
  <2>5. FrameGiven(at, x, index, zone) \in Place
    BY <2>1, <2>2, <2>4 DEF Rect, Place
  <2> QED BY <2>1, <2>2, <2>5, <1>4, <1>5
<1> QED BY <1>6, <1>7, <1>8, <1>9 DEF Unplaced

\* A content fills the frame it is for.
LEMMA ContentFills ==
    ASSUME NEW x \in Win, Decorated(x), NEW f \in Place,
           Kind[x] # "managed" => f.w = OwnSize[1] /\ f.h = OwnSize[2]
    PROVE  Fills(ContentOf(x, f), <<f.w, f.h>>)
<1>1. f.x \in Int /\ f.y \in Int /\ f.w \in Nat /\ f.h \in Int
  BY DEF Place
<1>2. CASE Kind[x] = "managed"
  BY <1>1, <1>2, PxTyped DEF ContentOf, ContentFor, Rect, Fills, Higher
<1>3. CASE Kind[x] # "managed"
  <2>1. ContentOf(x, f).w = OwnSize[1] /\ ContentOf(x, f).h = OwnSize[2]
    BY <1>3 DEF ContentOf, Rect
  <2> QED BY <1>1, <1>3, <2>1, PxTyped, OwnTyped DEF Fills
<1> QED BY <1>2, <1>3

-----------------------------------------------------------------------------
(* A whole pass.                                                           *)

Rank(x) == CHOOSE i \in 1 .. Len(known') : known'[i] = x
IsLaidOut(x) == x \in ToSet(known') /\ ~Hidden0(x)

\* The windows a pass lays out, and what it remembers and gives each.
PassGives(l, places, kept) ==
    /\ l.stack \in Seq(Win)
    /\ l.kept = [x \in Win |-> l.kept[x]] /\ l.places = [x \in Win |-> l.places[x]]
    /\ \A x \in Win : IsLaidOut(x) =>
          /\ x \in ToSet(l.stack)
          /\ Rank(x) - 1 \in Int
          /\ l.kept[x] = RememberedAt(kept[x], x, Rank(x) - 1, Usable(docked'))
          /\ l.places[x] = ContentOf(x, FrameGiven(l.kept[x], x, Rank(x) - 1, Usable(docked')))
    /\ \A x \in Win : ~IsLaidOut(x) => l.kept[x] = kept[x] /\ l.places[x] = places[x]

LEMMA PassValues ==
    ASSUME known' \in Seq(Win), NEW places, NEW stack \in Seq(Win), NEW kept
    PROVE  PassGives(Laid0(places, stack, kept), places, kept)
<1> DEFINE l == Laid0(places, stack, kept)
<1> DEFINE ranked == Sift(known', {y \in Win : ~Hidden0(y)})
           strays == Sift(stack, Win \ ToSet(known'))
           zone == Usable(docked')
           at(x) == RememberedAt(kept[x], x, Rank(x) - 1, zone)
           laid == ToSet(ranked)
<1>1. /\ l.kept = [x \in Win |-> IF x \in laid THEN at(x) ELSE kept[x]]
      /\ l.places = [x \in Win |-> IF x \in laid
                        THEN ContentOf(x, FrameGiven(at(x), x, Rank(x) - 1, zone)) ELSE places[x]]
      /\ l.stack = strays \o ranked
  BY DEF Laid0, Rank
<1>2. PICK k \in Seq(Win) : k = known'
  OBVIOUS
<1>3. ranked \in Seq(Win) /\ laid = ToSet(k) \cap {y \in Win : ~Hidden0(y)}
  <2> DEFINE keep == {y \in Win : ~Hidden0(y)}
  <2>1. Sift(k, keep) \in Seq(Win) /\ ToSet(Sift(k, keep)) = ToSet(k) \cap keep
    <3> HIDE DEF keep
    <3> QED BY SiftTyped, SiftElements
  <2> QED BY <1>2, <2>1
<1>4. strays \in Seq(Win)
  BY SiftTyped
<1>5. \A x \in Win : IsLaidOut(x) <=> x \in laid
  BY <1>2, <1>3 DEF IsLaidOut
<1>6. ASSUME NEW x \in Win, IsLaidOut(x)
      PROVE  Rank(x) - 1 \in Int
  <2>1. \E i \in 1..Len(k) : k[i] = x
    BY <1>2, <1>6 DEF IsLaidOut, ToSet
  <2>2. Rank(x) \in 1..Len(k)
    BY <1>2, <2>1 DEF Rank
  <2>3. Len(k) \in Nat
    OBVIOUS
  <2> QED BY <2>2, <2>3
<1>7. ASSUME NEW x \in Win, x \in laid
      PROVE  x \in ToSet(strays \o ranked)
  <2> HIDE DEF strays, ranked
  <2>1. PICK i \in 1..Len(ranked) : ranked[i] = x
    BY <1>3, <1>7 DEF ToSet
  <2>2. /\ Len(strays) + i \in DOMAIN (strays \o ranked)
        /\ (strays \o ranked)[Len(strays) + i] = x
    BY <1>3, <1>4, <2>1
  <2> QED BY <2>2 DEF ToSet
<1>8. l.stack \in Seq(Win)
  <2> HIDE DEF strays, ranked
  <2> QED BY <1>1, <1>3, <1>4
<1> HIDE DEF laid, strays, ranked, zone, l
<1>9. ASSUME NEW x \in Win, IsLaidOut(x)
      PROVE  /\ l.kept[x] = RememberedAt(kept[x], x, Rank(x) - 1, zone)
             /\ l.places[x] = ContentOf(x, FrameGiven(l.kept[x], x, Rank(x) - 1, zone))
  BY <1>1, <1>5, <1>9
<1>10. ASSUME NEW x \in Win, ~IsLaidOut(x)
       PROVE  l.kept[x] = kept[x] /\ l.places[x] = places[x]
  BY <1>1, <1>5, <1>10
<1>11. l.kept = [x \in Win |-> l.kept[x]] /\ l.places = [x \in Win |-> l.places[x]]
  BY <1>1
<1>12. \A x \in Win : IsLaidOut(x) => x \in ToSet(l.stack)
  BY <1>1, <1>5, <1>7
<1>13. ASSUME NEW x \in Win, IsLaidOut(x)
       PROVE  /\ x \in ToSet(l.stack)
              /\ Rank(x) - 1 \in Int
              /\ l.kept[x] = RememberedAt(kept[x], x, Rank(x) - 1, Usable(docked'))
              /\ l.places[x] = ContentOf(x, FrameGiven(l.kept[x], x, Rank(x) - 1, Usable(docked')))
  <2>1. l.kept[x] = RememberedAt(kept[x], x, Rank(x) - 1, zone)
    BY <1>9, <1>13
  <2>2. l.places[x] = ContentOf(x, FrameGiven(l.kept[x], x, Rank(x) - 1, zone))
    BY <1>9, <1>13
  <2>3. x \in ToSet(l.stack) /\ Rank(x) - 1 \in Int
    BY <1>6, <1>12, <1>13
  <2> QED BY <2>1, <2>2, <2>3 DEF zone
<1>14. PassGives(l, places, kept)
  BY <1>8, <1>10, <1>11, <1>13, Zenon DEF PassGives
<1> QED BY <1>14 DEF l

\* What a window that stands free is given: it fills its size, and its frame
\* lies in the zone next to the place that is remembered.
Lies(c, at, size) ==
    /\ Fills(c, size)
    /\ at \in Int \X Int
    /\ c.x = Clamped(at, size[1], size[2], Usable(docked'))[1]
    /\ size[1] > 0 => c.y = Clamped(at, size[1], size[2], Usable(docked'))[2] + Px.title


\* Places, a stack and memories that the rest of a step may leave behind.
SpaceSound(l) ==
    /\ l.stack \in Seq(Win) /\ l.places \in [Win -> Place] /\ l.kept \in [Win -> AtMemo]
    /\ \A x \in Win : IsLaidOut(x) =>
          /\ x \in ToSet(l.stack)
          /\ Unplaced(x) => Fills(l.places[x], SizeFor(keptSize'[x], x, Usable(docked')))

PassSound(l) ==
    /\ SpaceSound(l)
    /\ \A x \in Win : IsLaidOut(x) /\ Unplaced(x) =>
          Lies(l.places[x], l.kept[x], SizeFor(keptSize'[x], x, Usable(docked')))

LEMMA Pass ==
    ASSUME ClaimsTyped', NEW places \in [Win -> Place], NEW stack \in Seq(Win),
           NEW kept \in [Win -> AtMemo]
    PROVE  PassSound(Laid0(places, stack, kept))
<1>1. PICK l : l = Laid0(places, stack, kept)
  OBVIOUS
<1>2. known' \in Seq(Win) /\ docked' \in BOOLEAN
  BY DEF ClaimsTyped
<1>3. PICK zone \in Place : zone = Usable(docked')
  <2>1. PICK d \in BOOLEAN : d = docked'
    BY <1>2
  <2> QED BY <2>1, ZoneTyped
<1>4. PassGives(l, places, kept)
  BY <1>1, <1>2, PassValues
<1>5. ASSUME NEW x \in Win, IsLaidOut(x)
      PROVE  /\ l.places[x] \in Place /\ l.kept[x] \in AtMemo
             /\ x \in ToSet(l.stack)
             /\ Unplaced(x) => Lies(l.places[x], l.kept[x], SizeFor(keptSize'[x], x, zone))
  <2>1. PICK index \in Int : index = Rank(x) - 1
    BY <1>5, <1>4 DEF PassGives
  <2>2. /\ l.kept[x] = RememberedAt(kept[x], x, index, zone)
        /\ l.places[x] = ContentOf(x, FrameGiven(l.kept[x], x, index, zone))
        /\ x \in ToSet(l.stack)
    BY <1>3, <1>5, <1>4, <2>1 DEF PassGives
  <2>3. kept[x] \in AtMemo /\ ~Hidden0(x)
    BY <1>5 DEF IsLaidOut
  <2>4. PICK at, size : at = l.kept[x] /\ size = SizeFor(keptSize'[x], x, zone)
    OBVIOUS
  <2>5. /\ at \in AtMemo
        /\ FrameGiven(at, x, index, zone) \in Place
        /\ Unplaced(x) =>
              /\ at \in Int \X Int
              /\ FrameGiven(at, x, index, zone) =
                    Rect(Clamped(at, size[1], size[2], zone)[1],
                         Clamped(at, size[1], size[2], zone)[2], size[1], size[2])
    BY <2>2, <2>3, <2>4, GivenTyped
  <2>6. l.places[x] \in Place
    BY <2>2, <2>4, <2>5, ContentTyped
  <2>7. ASSUME Unplaced(x) PROVE Lies(l.places[x], at, size)
    <3>1. PICK f \in Place : f = FrameGiven(at, x, index, zone)
      BY <2>5
    <3>2. /\ f.x = Clamped(at, size[1], size[2], zone)[1]
          /\ f.y = Clamped(at, size[1], size[2], zone)[2]
          /\ f.w = size[1] /\ f.h = size[2]
      BY <2>5, <2>7, <3>1 DEF Rect
    <3>3. Decorated(x)
      BY <2>7 DEF Unplaced, Decorated
    <3>4. Kind[x] # "managed" => size = OwnSize
      BY <2>4, <3>3, FloatDeskAssumption DEF SizeFor, Decorated
    <3>5. keptSize'[x] \in SizeMemo
      BY DEF ClaimsTyped
    <3>6. size = <<size[1], size[2]>>
      BY <2>4, <3>5, SizeTyped
    <3>7. Fills(ContentOf(x, f), size)
      BY <3>2, <3>3, <3>4, <3>6, ContentFills
    <3>8. ContentOf(x, f).x = f.x /\ (f.w > 0 => ContentOf(x, f).y = f.y + Px.title)
      BY <3>3 DEF ContentOf, ContentFor, Rect
    <3> QED BY <2>2, <2>4, <2>5, <2>7, <1>3, <3>1, <3>2, <3>7, <3>8 DEF Lies
  <2> QED BY <2>2, <2>4, <2>5, <2>6, <2>7
<1>6. ASSUME NEW x \in Win, ~IsLaidOut(x)
      PROVE  l.places[x] \in Place /\ l.kept[x] \in AtMemo
  BY <1>6, <1>4 DEF PassGives
<1>7. /\ l.stack \in Seq(Win)
      /\ l.kept = [x \in Win |-> l.kept[x]] /\ l.places = [x \in Win |-> l.places[x]]
  BY <1>4 DEF PassGives
<1>8. \A x \in Win : l.places[x] \in Place /\ l.kept[x] \in AtMemo
  BY <1>5, <1>6
<1>9. l.places \in [Win -> Place] /\ l.kept \in [Win -> AtMemo]
  BY <1>7, <1>8
<1>10. \A x \in Win : IsLaidOut(x) /\ Unplaced(x) =>
         Lies(l.places[x], l.kept[x], SizeFor(keptSize'[x], x, Usable(docked')))
  BY <1>3, <1>5
<1>11. \A x \in Win : IsLaidOut(x) =>
         /\ x \in ToSet(l.stack)
         /\ Unplaced(x) => Fills(l.places[x], SizeFor(keptSize'[x], x, Usable(docked')))
  BY <1>5, <1>10 DEF Lies
<1>12. SpaceSound(l)
  BY <1>7, <1>9, <1>11, Zenon DEF SpaceSound
<1> QED BY <1>1, <1>10, <1>12, Zenon DEF PassSound

\* A second pass gives every window what the first one gave it.
LEMMA PassTwice ==
    ASSUME ClaimsTyped', NEW places \in [Win -> Place], NEW stack \in Seq(Win),
           NEW kept \in [Win -> AtMemo],
           NEW first, first = Laid0(places, stack, kept), NEW rest \in Seq(Win),
           NEW x \in Win, IsLaidOut(x)
    PROVE  Laid0(first.places, rest, first.kept).places[x] = first.places[x]
<1>1. known' \in Seq(Win)
  BY DEF ClaimsTyped
<1>2. PassGives(first, places, kept)
  BY <1>1, PassValues
<1>3. PICK second : second = Laid0(first.places, rest, first.kept)
  OBVIOUS
<1>4. PICK p, k : p = first.places /\ k = first.kept
  OBVIOUS
<1>5. PassGives(second, p, k)
  BY <1>1, <1>3, <1>4, PassValues
<1>6. PICK index, zone : index = Rank(x) - 1 /\ zone = Usable(docked')
  OBVIOUS
<1>7. /\ first.kept[x] = RememberedAt(kept[x], x, index, zone)
      /\ first.places[x] = ContentOf(x, FrameGiven(first.kept[x], x, index, zone))
  BY <1>2, <1>6 DEF PassGives
<1>8. /\ second.kept[x] = RememberedAt(k[x], x, index, zone)
      /\ second.places[x] = ContentOf(x, FrameGiven(second.kept[x], x, index, zone))
  BY <1>5, <1>6 DEF PassGives
<1>9. RememberedAt(first.kept[x], x, index, zone) = first.kept[x]
  BY <1>7 DEF RememberedAt
<1> QED BY <1>3, <1>4, <1>7, <1>8, <1>9

-----------------------------------------------------------------------------
(* The steps.                                                              *)

\* What a step leaves behind is sound when it only moves windows from where
\* sound places have them, and takes none off the screen.
LEMMA SpaceEnds ==
    ASSUME ClaimsTyped', SpaceTyped', HoldTyped', NEW l, SpaceSound(l),
           \A x \in Win : x \in ToSet(known') \cap ToSet(l.stack) => x \in ToSet(shown'),
           \A x \in Win : placed'[x].w = l.places[x].w /\ placed'[x].h = l.places[x].h
    PROVE  DragInv'
<1>1. ASSUME NEW x \in ToSet(known') \ ToSet(minimised')
      PROVE  /\ x \in ToSet(shown')
             /\ tiled'[x] = NoWin /\ x \notin maximised' /\ Decorated(x) =>
                   Fills(placed'[x], SizeFor(keptSize'[x], x, Usable(docked')))
  <2>1. x \in Win /\ IsLaidOut(x)
    BY <1>1 DEF ClaimsTyped, ToSet, IsLaidOut, Hidden0
  <2>2. x \in ToSet(shown')
    BY <1>1, <2>1 DEF SpaceSound
  <2>3. ASSUME tiled'[x] = NoWin, x \notin maximised', Decorated(x)
        PROVE  Fills(placed'[x], SizeFor(keptSize'[x], x, Usable(docked')))
    <3>1. Unplaced(x)
      BY <2>3 DEF Unplaced, Decorated
    <3>2. Fills(l.places[x], SizeFor(keptSize'[x], x, Usable(docked')))
      BY <2>1, <3>1 DEF SpaceSound
    <3> QED BY <2>1, <3>2 DEF Fills
  <2> QED BY <2>2, <2>3
<1>2. SizesHold'
  BY <1>1 DEF SizesHold
<1> QED BY <1>2 DEF DragInv

\* The space as it is, while nobody claims anything else.
Now == [stack |-> shown, places |-> placed, kept |-> keptAt]

LEMMA NowSound ==
    ASSUME DragInv, UNCHANGED <<known, minimised, maximised, tiled, keptSize, docked>>
    PROVE  SpaceSound(Now)
<1>1. Now.stack = shown /\ Now.places = placed /\ Now.kept = keptAt
  BY DEF Now
<1>2. ASSUME NEW x \in Win, IsLaidOut(x)
      PROVE  /\ x \in ToSet(shown)
             /\ Unplaced(x) => Fills(placed[x], SizeFor(keptSize'[x], x, Usable(docked')))
  <2>1. x \in ToSet(known) \ ToSet(minimised)
    BY <1>2 DEF IsLaidOut, Hidden0
  <2> QED BY <2>1 DEF DragInv, SizesHold, Unplaced, Decorated
<1> QED BY <1>1, <1>2 DEF SpaceSound, DragInv, SpaceTyped

\* The step DraggedStaysPut asks for.
DragStep == MovedByDrag /\ HasCommitted(hold.win) => LiesWhereAPassPuts(hold.win)

\* A handler that ends with the layout pass.
LEMMA PassStep ==
    ASSUME DragInv, ClaimsTyped', HoldTyped', NEW places \in [Win -> Place],
           NEW stack \in Seq(Win), NEW kept \in [Win -> AtMemo], ApplyFloat(places, stack, kept)
    PROVE  DragInv' /\ DragStep
<1>1. PICK l : l = Laid0(places, stack, kept)
  OBVIOUS
<1>2. PassSound(l)
  BY <1>1, Pass
<1>3. shown' = l.stack /\ placed' = l.places /\ keptAt' = l.kept
  BY <1>1 DEF ApplyFloat, SpaceBecomes
<1>4. SpaceTyped' /\ SpaceSound(l)
  BY <1>2, <1>3 DEF PassSound, SpaceSound, SpaceTyped
<1>5. DragInv'
  BY <1>3, <1>4, SpaceEnds
<1>6. ASSUME NEW x \in Win, IsLaidOut(x)
      PROVE  Laid0(placed', shown', keptAt').places[x] = placed'[x]
  <2>1. l.stack \in Seq(Win)
    BY <1>4 DEF SpaceSound
  <2>2. Laid0(l.places, l.stack, l.kept).places[x] = l.places[x]
    BY <1>1, <1>6, <2>1, PassTwice
  <2> QED BY <1>3, <2>2
<1>7. DragStep
  <2>1. SUFFICES ASSUME hold.kind = "move", hold.win \in ToSet(known'), ~Hidden0(hold.win)
                 PROVE  Laid0(placed', shown', keptAt').places[hold.win] = placed'[hold.win]
    BY DEF DragStep, MovedByDrag, HasCommitted, LiesWhereAPassPuts
  <2>2. PICK x \in Win : x = hold.win
    BY <2>1 DEF DragInv, HoldTyped
  <2>3. IsLaidOut(x)
    BY <2>1, <2>2 DEF IsLaidOut
  <2> QED BY <1>6, <2>2, <2>3
<1> QED BY <1>5, <1>7

\* A handler that lays nothing out: it claims nothing and resizes nothing.
LEMMA RestStep ==
    ASSUME DragInv, HoldTyped', SpaceTyped',
           UNCHANGED <<known, minimised, maximised, tiled, keptSize, docked>>,
           \A x \in Win : x \in ToSet(known) \cap ToSet(shown) => x \in ToSet(shown'),
           \A x \in Win : placed'[x].w = placed[x].w /\ placed'[x].h = placed[x].h
    PROVE  DragInv'
<1>1. ClaimsTyped'
  BY DEF DragInv, ClaimsTyped
<1>2. PICK l : l = Now
  OBVIOUS
<1>3. SpaceSound(l)
  BY <1>2, NowSound
<1>4. l.stack = shown /\ l.places = placed
  BY <1>2 DEF Now
<1> QED BY <1>1, <1>3, <1>4, SpaceEnds

LEMMA TopTyped ==
    ASSUME NEW s \in Seq(Win), NEW x \in Win
    PROVE  /\ Drop(s, x) \in Seq(Win) /\ ToTop(s, x) \in Seq(Win)
           /\ \A y \in ToSet(s) : y \in ToSet(ToTop(s, x))
<1>1. Drop(s, x) \in Seq(Win) /\ ToSet(Drop(s, x)) = ToSet(s) \cap (ToSet(s) \ {x})
  <2> DEFINE keep == ToSet(s) \ {x}
  <2>1. Sift(s, keep) \in Seq(Win) /\ ToSet(Sift(s, keep)) = ToSet(s) \cap keep
    <3> HIDE DEF keep
    <3> QED BY SiftTyped, SiftElements
  <2> QED BY <2>1 DEF Drop
<1>2. ToSet(Append(Drop(s, x), x)) = ToSet(Drop(s, x)) \cup {x}
  BY <1>1, AppendElements
<1> QED BY <1>1, <1>2 DEF ToTop

LEMMA InTheList ==
    ASSUME NEW s \in Seq(Win)
    PROVE  ToSet(s) \subseteq Win
BY DEF ToSet

LEMMA GeometryTyped ==
    ASSUME DragInv, NEW x \in Win
    PROVE  Geometry(x) \in Place
<1>1. PICK p \in Place, w \in Nat, h \in Int :
         p = placed[x] /\ w = committed[x][1] /\ h = committed[x][2]
  BY DEF DragInv, SpaceTyped, HoldTyped
<1>2. [p EXCEPT !.w = w, !.h = h] \in Place
  BY DEF Place
<1> QED BY <1>1, <1>2 DEF Geometry

LEMMA SnapStepTyped ==
    ASSUME NEW current \in Tile \cup {NoWin}, NEW dir \in Arrow
    PROVE  SnapStep(current, dir) \in Tile \cup {NoWin, "Minimize"}
<1>1. dir \in {"Left", "Right", "Above", "Below"}
  BY FloatDeskAssumption
<1>2. CASE dir = "Left"
  BY <1>2 DEF SnapStep, Tile
<1>3. CASE dir = "Right"
  BY <1>3 DEF SnapStep, Tile
<1>4. CASE dir = "Above"
  BY <1>4 DEF SnapStep, Tile
<1>5. CASE dir = "Below"
  BY <1>5 DEF SnapStep, Tile
<1> QED BY <1>1, <1>2, <1>3, <1>4, <1>5

LEMMA ScreenTyped == Screen0 \in Place /\ GrabZone \in Place /\ Rect(0, 0, 1, 1) \in Place
<1>1. Screen0.w = Px.screenW /\ Px.screenW > 0
  BY PxTyped DEF Screen0, Rect
<1> QED BY <1>1, PxTyped DEF Screen0, GrabZone, Rect, Place

-----------------------------------------------------------------------------
(* Windows come and go.                                                    *)

LEMMA NewWindowStep ==
    ASSUME DragInv, NEW x \in Win, NewWindow(x)
    PROVE  DragInv' /\ DragStep
<1>1. /\ known' = Append(known, x) /\ tiled' = [tiled EXCEPT ![x] = NoWin]
      /\ keptSize' = [keptSize EXCEPT ![x] = NoWin]
      /\ UNCHANGED <<maximised, minimised, docked, pointer, hold>>
      /\ committed' = [committed EXCEPT ![x] = <<0, 0>>]
      /\ ApplyFloat([placed EXCEPT ![x] = Rect(0, 0, 1, 1)], Append(shown, x),
                    [keptAt EXCEPT ![x] = NoWin])
  BY DEF NewWindow, PointerKept
<1>2. ClaimsTyped'
  BY <1>1 DEF DragInv, ClaimsTyped, SizeMemo
<1>3. HoldTyped'
  BY <1>1 DEF DragInv, HoldTyped
<1>4. PICK p, s, k : /\ p = [placed EXCEPT ![x] = Rect(0, 0, 1, 1)] /\ s = Append(shown, x)
                     /\ k = [keptAt EXCEPT ![x] = NoWin]
  OBVIOUS
<1>5. p \in [Win -> Place] /\ s \in Seq(Win) /\ k \in [Win -> AtMemo]
  BY <1>4, ScreenTyped DEF DragInv, SpaceTyped, AtMemo
<1>6. ApplyFloat(p, s, k)
  BY <1>1, <1>4
<1> QED BY <1>2, <1>3, <1>5, <1>6, PassStep

LEMMA WindowGoneStep ==
    ASSUME DragInv, NEW x \in Win, WindowGone(x)
    PROVE  DragInv' /\ DragStep
<1> DEFINE p0 == IF hold.win = x THEN placed ELSE [placed EXCEPT ![x] = Screen0]
           k0 == IF hold.win = x THEN keptAt ELSE [keptAt EXCEPT ![x] = NoWin]
<1>1. /\ known' = Drop(known, x) /\ maximised' = maximised \ {x}
      /\ minimised' = Drop(minimised, x)
      /\ tiled' = (IF hold.win = x THEN tiled ELSE [tiled EXCEPT ![x] = NoWin])
      /\ keptSize' = (IF hold.win = x THEN keptSize ELSE [keptSize EXCEPT ![x] = NoWin])
      /\ UNCHANGED <<docked, pointer, hold>>
      /\ committed' = (IF hold.win = x THEN committed ELSE [committed EXCEPT ![x] = <<0, 0>>])
      /\ ApplyFloat(p0, Drop(shown, x), k0)
  BY DEF WindowGone, PointerKept
<1>2. Drop(known, x) \in Seq(Win) /\ Drop(minimised, x) \in Seq(Win) /\ Drop(shown, x) \in Seq(Win)
  BY TopTyped DEF DragInv, ClaimsTyped, SpaceTyped
<1>3. ClaimsTyped'
  BY <1>1, <1>2 DEF DragInv, ClaimsTyped, SizeMemo
<1>4. HoldTyped'
  BY <1>1 DEF DragInv, HoldTyped
<1>5. PICK p, s, k : p = p0 /\ s = Drop(shown, x) /\ k = k0
  OBVIOUS
<1>6. p \in [Win -> Place] /\ s \in Seq(Win) /\ k \in [Win -> AtMemo]
  BY <1>2, <1>5, ScreenTyped DEF DragInv, SpaceTyped, AtMemo
<1> HIDE DEF p0, k0
<1>7. ApplyFloat(p, s, k)
  BY <1>1, <1>5
<1> QED BY <1>3, <1>4, <1>6, <1>7, PassStep

\* A pass from the places the windows have.
LEMMA PassHere ==
    ASSUME DragInv, ClaimsTyped', HoldTyped', ApplyFloat(placed, shown, keptAt)
    PROVE  DragInv' /\ DragStep
<1>1. PICK p, s, k : p = placed /\ s = shown /\ k = keptAt
  OBVIOUS
<1>2. p \in [Win -> Place] /\ s \in Seq(Win) /\ k \in [Win -> AtMemo] /\ ApplyFloat(p, s, k)
  BY <1>1 DEF DragInv, SpaceTyped
<1> QED BY <1>2, PassStep

LEMMA RefreshSpaceStep ==
    ASSUME DragInv, RefreshSpace
    PROVE  DragInv' /\ DragStep
<1>1. /\ shown' = Sift(shown, ToSet(known))
      /\ UNCHANGED <<known, minimised, maximised, tiled, keptSize, docked>>
      /\ UNCHANGED <<placed, keptAt, hold, pointer, committed>>
  BY DEF RefreshSpace, ClaimsKept, PointerKept
<1>2. shown' \in Seq(Win) /\ ToSet(shown') = ToSet(shown) \cap ToSet(known)
  <2>1. PICK s \in Seq(Win), stay \in SUBSET Win : s = shown /\ stay = ToSet(known)
    BY InTheList DEF DragInv, SpaceTyped, ClaimsTyped
  <2>2. Sift(s, stay) \in Seq(Win) /\ ToSet(Sift(s, stay)) = ToSet(s) \cap stay
    BY SiftTyped, SiftElements
  <2> QED BY <1>1, <2>1, <2>2
<1>3. HoldTyped' /\ SpaceTyped'
  BY <1>1, <1>2 DEF DragInv, HoldTyped, SpaceTyped
<1>4. DragInv'
  BY <1>1, <1>2, <1>3, RestStep
<1> QED BY <1>1, <1>4 DEF DragStep, MovedByDrag

LEMMA CommitsStep ==
    ASSUME DragInv, NEW x \in Win, Commits(x)
    PROVE  DragInv' /\ DragStep
<1>1. PICK w, h :
         /\ w = (IF placed[x].w = 0 THEN OwnSize[1] ELSE placed[x].w) /\ h = placed[x].h
         /\ committed' = [committed EXCEPT ![x] = <<w, h>>]
  BY DEF Commits
<1>2. /\ UNCHANGED <<known, minimised, maximised, tiled, keptSize, docked>>
      /\ UNCHANGED <<placed, keptAt, shown, hold, pointer>>
  BY DEF Commits, ClaimsKept, PointerKept
<1>3. w \in Nat /\ h \in Int
  BY <1>1, OwnTyped DEF DragInv, SpaceTyped, Place
<1>4. HoldTyped' /\ SpaceTyped'
  BY <1>1, <1>2, <1>3 DEF DragInv, HoldTyped, SpaceTyped
<1>5. DragInv'
  BY <1>2, <1>4, RestStep
<1> QED BY <1>2, <1>5 DEF DragStep, MovedByDrag

LEMMA DockStep ==
    ASSUME DragInv, DockChanges
    PROVE  DragInv' /\ DragStep
<1>1. /\ docked' = ~docked
      /\ UNCHANGED <<known, minimised, maximised, tiled, keptSize, hold, pointer, committed>>
      /\ ApplyFloat(placed, shown, keptAt)
  BY DEF DockChanges, ClaimsKept, PointerKept
<1>2. ClaimsTyped' /\ HoldTyped'
  BY <1>1 DEF DragInv, ClaimsTyped, HoldTyped
<1> QED BY <1>1, <1>2, PassHere

-----------------------------------------------------------------------------
(* The deeds that arrange.                                                 *)

LEMMA FocusTyped ==
    ASSUME DragInv
    PROVE  /\ Focused \in Win \cup {NoWin}
           /\ Arranges(Focused) => Focused \in Win /\ Focused = keys /\ Decorated(Focused)
           /\ ActsOnFocus => keys \in Win
<1>1. ToSet(known) \subseteq Win /\ ToSet(shown) \subseteq Win
  BY InTheList DEF DragInv, ClaimsTyped, SpaceTyped
<1> QED BY <1>1, FloatDeskAssumption DEF Focused, Arranges, ActsOnFocus

\* Maximise and Minimise, which a key or a button asks for.
LEMMA MaximiseStep ==
    ASSUME DragInv, NEW x \in Win, Maximise(x), HoldTyped'
    PROVE  DragInv' /\ DragStep
<1>1. Drop(minimised, x) \in Seq(Win)
  BY TopTyped DEF DragInv, ClaimsTyped
<1>2. ClaimsTyped'
  BY <1>1 DEF DragInv, ClaimsTyped, Maximise
<1> QED BY <1>2, PassHere DEF Maximise

LEMMA MinimiseStep ==
    ASSUME DragInv, NEW x \in Win, Minimise(x), HoldTyped'
    PROVE  DragInv' /\ DragStep
<1>1. ToTop(minimised, x) \in Seq(Win)
  BY TopTyped DEF DragInv, ClaimsTyped
<1>2. /\ minimised' = ToTop(minimised, x) /\ maximised' = maximised \ {x}
      /\ UNCHANGED <<known, tiled, keptSize, docked>>
      /\ ApplyFloat(placed, shown, keptAt)
  BY DEF Minimise
<1>3. ClaimsTyped'
  BY <1>1, <1>2 DEF DragInv, ClaimsTyped
<1> QED BY <1>2, <1>3, PassHere

LEMMA KeysStep ==
    ASSUME DragInv, ToggleMaximize \/ MinimizeKeys
    PROVE  DragInv' /\ DragStep
<1>1. keys \in Win
  BY FocusTyped DEF ToggleMaximize, MinimizeKeys
<1>2. HoldTyped'
  BY DEF DragInv, HoldTyped, ToggleMaximize, MinimizeKeys, PointerKept, Maximise, Minimise
<1>3. PICK x \in Win : x = keys
  BY <1>1
<1>4. Maximise(x) \/ Minimise(x)
  BY <1>3 DEF ToggleMaximize, MinimizeKeys
<1> QED BY <1>2, <1>4, MaximiseStep, MinimiseStep

LEMMA RestoreStep ==
    ASSUME DragInv, RestoreLast
    PROVE  DragInv' /\ DragStep
<1>1. minimised' \in Seq(Win)
  BY DEF DragInv, ClaimsTyped, RestoreLast, Front
<1>2. ClaimsTyped' /\ HoldTyped'
  BY <1>1 DEF DragInv, ClaimsTyped, HoldTyped, RestoreLast, PointerKept
<1> QED BY <1>2, PassHere DEF RestoreLast

LEMMA SnapKeysStep ==
    ASSUME DragInv, NEW dir \in Arrow, SnapKeys(dir)
    PROVE  DragInv' /\ DragStep
<1>1. PICK x \in Win : x = Focused
  BY FocusTyped DEF SnapKeys
<1>2. PICK to \in Tile \cup {NoWin, "Minimize"} : to = SnapStep(tiled[x], dir)
  <2>1. PICK current \in Tile \cup {NoWin} : current = tiled[x]
    BY DEF DragInv, ClaimsTyped
  <2> QED BY <2>1, SnapStepTyped
<1>3. CASE to = "Minimize" /\ MinimizeKeys
  BY <1>3, KeysStep
<1>4. CASE /\ to # "Minimize"
           /\ Release(x, to)
           /\ UNCHANGED <<known, minimised, keptSize, keys, committed, docked>> /\ PointerKept
           /\ ApplyFloat(placed, shown, keptAt)
  <2>1. ClaimsTyped' /\ HoldTyped'
    BY <1>2, <1>4 DEF DragInv, ClaimsTyped, HoldTyped, Release, PointerKept
  <2> QED BY <1>4, <2>1, PassHere
<1> QED BY <1>1, <1>2, <1>3, <1>4 DEF SnapKeys

LEMMA ResizeKeysStep ==
    ASSUME DragInv, NEW dir \in Arrow, ResizeKeys(dir)
    PROVE  DragInv' /\ DragStep
<1>1. PICK x \in Win : x = Focused
  BY FocusTyped DEF ResizeKeys
<1> DEFINE f == FrameOf(Geometry(x))
           wide == CASE dir = "Right" -> Px.nudge [] dir = "Left" -> - Px.nudge [] OTHER -> 0
           tall == CASE dir = "Below" -> Px.nudge [] dir = "Above" -> - Px.nudge [] OTHER -> 0
           w == IF wide = 0 THEN f.w ELSE Higher(f.w + wide, Px.minW)
           h == IF tall = 0 THEN f.h ELSE Higher(f.h + tall, Px.minH)
<1>2. f.x \in Int /\ f.y \in Int /\ f.w \in Nat /\ f.h \in Int
  <2>1. Geometry(x) \in Place
    BY GeometryTyped
  <2> QED BY <2>1, PxTyped DEF FrameOf, Rect, Place
<1>3. wide \in Int /\ tall \in Int
  BY PxTyped
<1>4. /\ Release(x, NoWin) /\ keptSize' = [keptSize EXCEPT ![x] = <<w, h>>]
      /\ UNCHANGED <<known, minimised, committed, docked, pointer, hold>>
      /\ ApplyFloat(placed, shown, [keptAt EXCEPT ![x] = <<f.x, f.y>>])
  BY <1>1 DEF ResizeKeys, PointerKept
<1>5. w \in Nat /\ h \in Int
  <2> HIDE DEF f, wide, tall
  <2> QED BY <1>2, <1>3, PxTyped DEF Higher
<1> HIDE DEF f, w, h
<1>6. ClaimsTyped' /\ HoldTyped'
  BY <1>4, <1>5 DEF DragInv, ClaimsTyped, HoldTyped, Release, SizeMemo
<1>7. PICK p, s, k : p = placed /\ s = shown /\ k = [keptAt EXCEPT ![x] = <<f.x, f.y>>]
  OBVIOUS
<1>8. p \in [Win -> Place] /\ s \in Seq(Win) /\ k \in [Win -> AtMemo]
  BY <1>2, <1>7 DEF DragInv, SpaceTyped, AtMemo
<1>9. ApplyFloat(p, s, k)
  BY <1>4, <1>7
<1> QED BY <1>6, <1>8, <1>9, PassStep

LEMMA FocusTowardsStep ==
    ASSUME DragInv, NEW dir \in Arrow, FocusTowards(dir)
    PROVE  DragInv' /\ DragStep
<1>1. /\ UNCHANGED <<known, minimised, maximised, tiled, keptSize, docked>>
      /\ UNCHANGED <<placed, keptAt, hold, pointer, committed>>
  BY DEF FocusTowards, ClaimsKept, PointerKept
<1>2. shown' = shown \/ \E y \in ToSet(shown) : shown' = ToTop(shown, y)
  BY DEF FocusTowards
<1>3. shown' \in Seq(Win) /\ \A y \in ToSet(shown) : y \in ToSet(shown')
  BY <1>2, InTheList, TopTyped DEF DragInv, SpaceTyped
<1>4. HoldTyped' /\ SpaceTyped'
  BY <1>1, <1>3 DEF DragInv, HoldTyped, SpaceTyped
<1>5. DragInv'
  BY <1>1, <1>3, <1>4, RestStep
<1> QED BY <1>1, <1>5 DEF DragStep, MovedByDrag

-----------------------------------------------------------------------------
(* The press, the grabs and the release.                                   *)

HoldSet == [kind : {"none", "click", "move", "resize"}, win : Win \cup {NoWin},
            at : Int \X Int, edges : SUBSET Side, from : Place]

LEMMA HoldsMade ==
    ASSUME DragInv, NEW x \in Win, NEW p \in Int \X Int, NEW edges \in SUBSET Side
    PROVE  /\ NoHold \in HoldSet /\ NoHold.kind = "none" /\ NoHold.win = NoWin
           /\ MoveHold(x, p) \in HoldSet /\ MoveHold(x, p).kind = "move" /\ MoveHold(x, p).win = x
           /\ ResizeHold(x, p, edges) \in HoldSet /\ ResizeHold(x, p, edges).win = x
           /\ ResizeHold(x, p, edges).kind = "resize"
           /\ ClickHold(x) \in HoldSet /\ ClickHold(x).kind = "click"
<1>1. placed[x] \in Place /\ pointer \in Int \X Int
  BY DEF DragInv, SpaceTyped, HoldTyped
<1>2. FrameOf(Geometry(x)) \in Place
  BY GeometryTyped, PxTyped DEF FrameOf, Rect, Place
<1>3. <<placed[x].x - p[1], placed[x].y - p[2]>> \in Int \X Int
  BY <1>1 DEF Place
<1>4. NoHold \in HoldSet /\ NoHold.kind = "none" /\ NoHold.win = NoWin
  BY ScreenTyped DEF NoHold, HoldSet
<1> QED BY <1>1, <1>2, <1>3, <1>4 DEF MoveHold, ResizeHold, ClickHold, HoldSet, NoHold

\* Only a decorated window is grabbed.
GrabsDecorated == hold'.kind \in {"move", "resize"} => hold'.win \in Win /\ Decorated(hold'.win)

\* A press or a client's request that changes the stack, the keyboard and the
\* grab, and nothing else.
LEMMA GrabStep ==
    ASSUME DragInv, UNCHANGED <<known, minimised, maximised, tiled, keptSize, docked>>,
           UNCHANGED <<placed, keptAt, pointer, committed>>, hold' \in HoldSet, GrabsDecorated,
           shown' = shown \/ \E x \in Win : shown' = ToTop(shown, x)
    PROVE  DragInv' /\ DragStep
<1>1. shown' \in Seq(Win) /\ \A y \in ToSet(shown) : y \in ToSet(shown')
  BY TopTyped DEF DragInv, SpaceTyped
<1>2. HoldTyped' /\ SpaceTyped'
  BY <1>1 DEF DragInv, HoldTyped, SpaceTyped, HoldSet, GrabsDecorated
<1>3. DragInv'
  BY <1>1, <1>2, RestStep
<1> QED BY <1>3 DEF DragStep, MovedByDrag

LEMMA PressBarStep ==
    ASSUME DragInv, NEW x \in Bars, PressBar(x)
    PROVE  DragInv' /\ DragStep
<1>1. x \in Win /\ Decorated(x)
  BY InTheList DEF DragInv, SpaceTyped, Bars
<1>2. ASSUME hold' = hold, pointer' = pointer, committed' = committed
      PROVE  HoldTyped'
  BY <1>2 DEF DragInv, HoldTyped
<1>3. ASSUME Maximise(x) \/ Minimise(x), hold' = hold, pointer' = pointer
      PROVE  DragInv' /\ DragStep
  <2>1. committed' = committed
    BY <1>3 DEF Maximise, Minimise
  <2> QED BY <1>1, <1>2, <1>3, <2>1, MaximiseStep, MinimiseStep
<1>4. ASSUME Raised(x), UNCHANGED <<known, committed, docked, pointer>>, ClaimsKept,
             hold' = hold \/ hold' = MoveHold(x, pointer)
      PROVE  DragInv' /\ DragStep
  <2>1. pointer \in Int \X Int
    BY DEF DragInv, HoldTyped
  <2>2. PICK p \in Int \X Int : p = pointer
    BY <2>1
  <2>3. MoveHold(x, p) \in HoldSet /\ MoveHold(x, p).win = x
    BY <1>1, HoldsMade
  <2>4. hold' \in HoldSet /\ GrabsDecorated
    BY <1>1, <1>4, <2>2, <2>3 DEF DragInv, HoldTyped, HoldSet, GrabsDecorated
  <2> QED BY <1>1, <1>4, <2>4, GrabStep DEF Raised, ClaimsKept
<1> QED BY <1>3, <1>4 DEF PressBar

LEMMA PressButtonStep ==
    ASSUME DragInv, NEW button, NEW logo \in BOOLEAN, PressButton(button, logo)
    PROVE  DragInv' /\ DragStep
<1>1. pointer \in Int \X Int /\ hold \in HoldSet
  BY DEF DragInv, HoldTyped, HoldSet
<1>2. PICK p \in Int \X Int : p = pointer
  BY <1>1
<1>3. ASSUME NEW x \in Borders, PressBorder(x)
      PROVE  DragInv' /\ DragStep
  <2>1. x \in Win /\ Decorated(x)
    BY InTheList DEF DragInv, SpaceTyped, Borders
  <2>2. PICK edges : edges = BorderHit(FrameOf(Geometry(x)), p)
    OBVIOUS
  <2>3. edges \in SUBSET Side
    BY <2>2 DEF BorderHit, Side
  <2>4. ResizeHold(x, p, edges) \in HoldSet /\ ResizeHold(x, p, edges).win = x
    BY <2>1, <2>3, HoldsMade
  <2>5. hold' = ResizeHold(x, p, edges)
    BY <1>2, <1>3, <2>2 DEF PressBorder
  <2> QED BY <1>3, <2>1, <2>4, <2>5, GrabStep DEF PressBorder, Raised, ClaimsKept,
                                                        GrabsDecorated
<1>4. ASSUME NEW x \in Contents, PressContent(x, button, logo)
      PROVE  DragInv' /\ DragStep
  <2> DEFINE c == Geometry(x)
             quadrant == {IF 2 * pointer[1] < 2 * c.x + c.w THEN "left" ELSE "right",
                          IF 2 * pointer[2] < 2 * c.y + c.h THEN "top" ELSE "bottom"}
  <2>1. x \in Win
    BY InTheList DEF DragInv, SpaceTyped, Contents
  <2>2. PICK edges \in SUBSET Side : edges = quadrant
    BY DEF Side
  <2>3. /\ MoveHold(x, p) \in HoldSet /\ MoveHold(x, p).win = x
        /\ ResizeHold(x, p, edges) \in HoldSet /\ ResizeHold(x, p, edges).win = x
        /\ ClickHold(x) \in HoldSet /\ ClickHold(x).kind = "click"
    BY <2>1, HoldsMade
  <2>4. CASE logo /\ Decorated(x)
    <3>1. hold' = MoveHold(x, p) \/ hold' = ResizeHold(x, p, edges)
      BY <1>2, <1>4, <2>2, <2>4 DEF PressContent
    <3>2. hold' \in HoldSet /\ GrabsDecorated
      BY <2>1, <2>3, <2>4, <3>1 DEF GrabsDecorated
    <3> QED BY <1>4, <2>1, <3>2, GrabStep DEF PressContent, Raised, ClaimsKept
  <2>5. CASE ~(logo /\ Decorated(x))
    <3>1. hold' = hold \/ hold' = ClickHold(x)
      BY <1>4, <2>5 DEF PressContent
    <3>2. hold' \in HoldSet /\ GrabsDecorated
      BY <1>1, <2>3, <3>1 DEF DragInv, HoldTyped, GrabsDecorated
    <3> QED BY <1>4, <2>1, <3>2, GrabStep DEF PressContent, Raised, ClaimsKept
  <2> QED BY <2>4, <2>5
<1>5. ASSUME PressGround
      PROVE  DragInv' /\ DragStep
  <2>1. GrabsDecorated
    BY <1>5 DEF DragInv, HoldTyped, PressGround, GrabsDecorated
  <2> QED BY <1>1, <1>5, <2>1, GrabStep DEF PressGround, ClaimsKept
<1> QED BY <1>3, <1>4, <1>5, PressBarStep DEF PressButton

LEMMA TapAgesStep ==
    ASSUME DragInv, TapAges
    PROVE  DragInv' /\ DragStep
<1>1. hold' \in HoldSet /\ GrabsDecorated
  BY DEF DragInv, HoldTyped, HoldSet, TapAges, GrabsDecorated
<1> QED BY <1>1, GrabStep DEF TapAges, ClaimsKept

LEMMA ClientTakesStep ==
    ASSUME DragInv, ClientTakes
    PROVE  DragInv' /\ DragStep
<1>1. PICK x \in Win, p \in Int \X Int, edges \in SUBSET Side :
         x = hold.win /\ p = hold.at /\ edges = {"right", "bottom"} /\ Decorated(x)
  <2>1. hold.win \in Win /\ Decorated(hold.win)
    BY InTheList DEF DragInv, SpaceTyped, ClientTakes
  <2>2. hold.at \in Int \X Int
    BY DEF DragInv, HoldTyped
  <2>3. {"right", "bottom"} \in SUBSET Side
    BY DEF Side
  <2> QED BY <2>1, <2>2, <2>3
<1>2. hold' = MoveHold(x, p) \/ hold' = ResizeHold(x, p, edges)
  BY <1>1 DEF ClientTakes
<1>3. /\ MoveHold(x, p) \in HoldSet /\ MoveHold(x, p).win = x
      /\ ResizeHold(x, p, edges) \in HoldSet /\ ResizeHold(x, p, edges).win = x
  BY HoldsMade
<1>4. hold' \in HoldSet /\ hold'.win = x
  BY <1>2, <1>3
<1> QED BY <1>1, <1>4, GrabStep DEF ClientTakes, ClaimsKept, GrabsDecorated

LEMMA StretchStep ==
    ASSUME DragInv, NEW p \in Int \X Int, NEW x \in Win, x = hold.win, hold.kind = "resize",
           Stretch(x, p), UNCHANGED <<known, minimised, committed, docked>>, pointer' = p
    PROVE  DragInv' /\ DragStep
<1> DEFINE f == ResizedFrame(hold.from, hold.edges, p[1] - hold.at[1], p[2] - hold.at[2])
<1>1. f \in Place
  <2>1. hold.from \in Place /\ hold.at \in Int \X Int /\ hold.edges \in SUBSET Side
    BY DEF DragInv, HoldTyped
  <2>2. p[1] - hold.at[1] \in Int /\ p[2] - hold.at[2] \in Int
    BY <2>1
  <2>3. PICK from \in Place, edges \in SUBSET Side : from = hold.from /\ edges = hold.edges
    BY <2>1
  <2>4. PICK dx \in Int, dy \in Int : dx = p[1] - hold.at[1] /\ dy = p[2] - hold.at[2]
    BY <2>2
  <2> DEFINE w == CASE "left" \in edges -> Higher(from.w - dx, Px.minW)
                    [] "left" \notin edges /\ "right" \in edges -> Higher(from.w + dx, Px.minW)
                    [] OTHER -> from.w
             h == CASE "top" \in edges -> Higher(from.h - dy, Px.minH)
                    [] "top" \notin edges /\ "bottom" \in edges -> Higher(from.h + dy, Px.minH)
                    [] OTHER -> from.h
  <2>5. from.x \in Int /\ from.y \in Int /\ from.w \in Nat /\ from.h \in Int
    BY DEF Place
  <2>6. w \in Nat
    BY <2>5, PxTyped DEF Higher
  <2>7. h \in Int
    BY <2>5, PxTyped DEF Higher
  <2>8. f = Rect(IF "left" \in edges THEN from.x + from.w - w ELSE from.x,
                 IF "top" \in edges THEN from.y + from.h - h ELSE from.y, w, h)
    BY <2>3, <2>4 DEF ResizedFrame
  <2> HIDE DEF w, h, f
  <2> QED BY <2>5, <2>6, <2>7, <2>8 DEF Rect, Place
<1>2. /\ Release(x, NoWin)
      /\ keptAt' = [keptAt EXCEPT ![x] = <<f.x, f.y>>]
      /\ keptSize' = [keptSize EXCEPT ![x] = <<f.w, f.h>>]
      /\ placed' = [placed EXCEPT ![x] = ContentOf(x, f)]
      /\ shown' = ToTop(shown, x) /\ hold' = hold
  BY DEF Stretch
<1> HIDE DEF f
<1>3. f.x \in Int /\ f.y \in Int /\ f.w \in Nat /\ f.h \in Int
  BY <1>1 DEF Place
<1>4. ContentOf(x, f) \in Place /\ Decorated(x)
  BY <1>1, ContentTyped DEF DragInv, HoldTyped
<1>5. ClaimsTyped' /\ HoldTyped'
  BY <1>2, <1>3 DEF DragInv, ClaimsTyped, HoldTyped, Release, SizeMemo
<1>6. shown' \in Seq(Win) /\ \A y \in ToSet(shown) : y \in ToSet(shown')
  BY <1>2, TopTyped DEF DragInv, SpaceTyped
<1>7. SpaceTyped'
  BY <1>2, <1>3, <1>4, <1>6 DEF DragInv, SpaceTyped, AtMemo
<1>8. PICK zone \in Place : zone = Usable(docked') /\ zone.w > 0
  <2>1. PICK d \in BOOLEAN : d = docked'
    BY <1>5 DEF ClaimsTyped
  <2> QED BY <2>1, ZoneTyped
<1>9. Fills(ContentOf(x, f), SizeFor(<<f.w, f.h>>, x, zone))
  <2>1. CASE Kind[x] = "fixed"
    <3>1. ContentOf(x, f).w = OwnSize[1] /\ ContentOf(x, f).h = OwnSize[2]
      BY <2>1 DEF ContentOf, Rect
    <3>2. SizeFor(<<f.w, f.h>>, x, zone) = OwnSize
      BY <2>1 DEF SizeFor
    <3> QED BY <3>1, <3>2, PxTyped, OwnTyped DEF Fills
  <2>2. CASE Kind[x] # "fixed"
    <3>1. Kind[x] = "managed"
      BY <1>4, <2>2, FloatDeskAssumption DEF Decorated
    <3>2. Fills(ContentOf(x, f), <<f.w, f.h>>)
      BY <1>1, <1>4, <3>1, ContentFills
    <3>3. ContentOf(x, f).w \in Int /\ ContentOf(x, f).h \in Int
      BY <1>4 DEF Place
    <3>4. <<f.w, f.h>> # NoWin
      BY <1>3, FloatDeskAssumption
    <3>5. SizeFor(<<f.w, f.h>>, x, zone) = <<Lower(f.w, zone.w), Lower(f.h, zone.h)>>
      BY <2>2, <3>4 DEF SizeFor
    <3>6. zone.w \in Int /\ zone.h \in Int
      BY DEF Place
    <3>7. Lower(f.w, zone.w) <= f.w /\ Lower(f.h, zone.h) <= f.h
          /\ Lower(f.w, zone.w) \in Int /\ Lower(f.h, zone.h) \in Int
      BY <1>3, <3>6 DEF Lower
    <3>8. /\ ContentOf(x, f).w >= f.w /\ ContentOf(x, f).h + Px.title >= f.h
          /\ f.w = 0 => ContentOf(x, f).w = 0
      BY <3>2 DEF Fills
    <3>9. Lower(f.w, zone.w) = 0 => f.w = 0
      BY <1>3, <1>8, <3>6 DEF Lower
    <3> HIDE DEF f
    <3> QED BY <1>3, <3>3, <3>5, <3>7, <3>8, <3>9, PxTyped DEF Fills
  <2> QED BY <2>1, <2>2
<1>10. PICK l : l = [stack |-> shown', places |-> placed', kept |-> keptAt']
  OBVIOUS
<1>11. ASSUME NEW y \in Win, IsLaidOut(y)
       PROVE  /\ y \in ToSet(shown')
              /\ Unplaced(y) => Fills(placed'[y], SizeFor(keptSize'[y], y, zone))
  <2>1. y \in ToSet(known) \ ToSet(minimised)
    BY <1>11 DEF IsLaidOut, Hidden0
  <2>2. y \in ToSet(shown')
    BY <1>6, <2>1 DEF DragInv, SizesHold
  <2>3. CASE y = x
    <3>1. placed'[y] = ContentOf(x, f) /\ keptSize'[y] = <<f.w, f.h>>
      BY <1>2, <2>3 DEF DragInv, SpaceTyped, ClaimsTyped
    <3> QED BY <1>9, <2>2, <2>3, <3>1
  <2>4. CASE y # x
    <3>1. /\ placed'[y] = placed[y] /\ keptSize'[y] = keptSize[y] /\ tiled'[y] = tiled[y]
          /\ (y \in maximised' <=> y \in maximised) /\ Usable(docked) = zone
      BY <1>2, <1>8, <2>4 DEF DragInv, SpaceTyped, ClaimsTyped, Release
    <3> QED BY <2>1, <2>2, <3>1 DEF DragInv, SizesHold, Unplaced, Decorated
  <2> QED BY <2>3, <2>4
<1>12. SpaceSound(l)
  BY <1>7, <1>8, <1>10, <1>11 DEF SpaceSound, SpaceTyped
<1>13. DragInv'
  BY <1>5, <1>7, <1>10, <1>12, SpaceEnds
<1> QED BY <1>2, <1>13 DEF DragStep, MovedByDrag

\* Putting a content elsewhere changes its corner and nothing else.
MovedTo(places, x, at) == [places EXCEPT ![x].x = at[1], ![x].y = at[2] + Px.title]

LEMMA MovedTyped ==
    ASSUME NEW places \in [Win -> Place], NEW x \in Win, NEW at \in Int \X Int, NEW moved,
           moved = MovedTo(places, x, at)
    PROVE  /\ moved \in [Win -> Place]
           /\ moved[x].x = at[1] /\ moved[x].y = at[2] + Px.title
           /\ \A y \in Win : moved[y].w = places[y].w /\ moved[y].h = places[y].h
           /\ FrameCorner(moved[x]) = at
<1>1. at[1] \in Int /\ at[2] \in Int /\ at[2] + Px.title \in Int /\ at = <<at[1], at[2]>>
  BY PxTyped
<1>2. moved[x] = [places[x] EXCEPT !.x = at[1], !.y = at[2] + Px.title]
  BY DEF MovedTo
<1>3. places[x] \in Place
  OBVIOUS
<1>4. /\ moved[x].x = at[1] /\ moved[x].y = at[2] + Px.title
      /\ moved[x].w = places[x].w /\ moved[x].h = places[x].h /\ moved[x] \in Place
  BY <1>1, <1>2, <1>3 DEF Place
<1>5. \A y \in Win : y # x => moved[y] = places[y]
  BY DEF MovedTo
<1>6. moved = [y \in Win |-> moved[y]]
  BY DEF MovedTo
<1>7. moved \in [Win -> Place]
  BY <1>4, <1>5, <1>6
<1>8. FrameCorner(moved[x]) = at
  BY <1>1, <1>4, PxTyped DEF FrameCorner
<1> QED BY <1>4, <1>5, <1>7, <1>8

LEMMA DropDragStep ==
    ASSUME DragInv, NEW x \in Win, DropDrag(x), UNCHANGED <<known, docked>>, HoldTyped',
           hold'.kind = "none"
    PROVE  DragInv' /\ DragStep
<1>1. UNCHANGED <<maximised, minimised, keptSize>>
  BY DEF DropDrag
<1>2. CASE /\ ZoneFor(pointer) # NoWin
           /\ tiled' = [tiled EXCEPT ![x] = ZoneFor(pointer)]
           /\ ApplyFloat(placed, shown, keptAt)
  <2>1. ZoneFor(pointer) \in Tile
    BY <1>2 DEF ZoneFor, Tile
  <2>2. ClaimsTyped'
    BY <1>1, <1>2, <2>1 DEF DragInv, ClaimsTyped
  <2> QED BY <1>2, <2>2, PassHere
<1>3. CASE UNCHANGED tiled /\ UNCHANGED <<placed, keptAt, shown>>
  <2>1. SpaceTyped'
    BY <1>3 DEF DragInv, SpaceTyped
  <2>2. DragInv'
    BY <1>1, <1>3, <2>1, RestStep
  <2> QED BY <2>2 DEF DragStep, MovedByDrag
<1> DEFINE f == FrameOf(Geometry(x))
           at == SnapRect(<<f.x, f.y>>, f.w, f.h, Screen0)
<1>4. CASE /\ UNCHANGED tiled
           /\ placed' = [placed EXCEPT ![x].x = at[1], ![x].y = at[2] + Px.title]
           /\ keptAt' = [keptAt EXCEPT ![x] = FrameCorner(placed'[x])]
           /\ shown' = ToTop(shown, x)
  <2>1. f \in Place
    <3>1. Geometry(x) \in Place
      BY GeometryTyped
    <3> QED BY <3>1, PxTyped DEF FrameOf, Rect, Place
  <2>2. <<f.x, f.y>> \in Int \X Int /\ f.w \in Int /\ f.h \in Int
    BY <2>1 DEF Place
  <2>3. at \in Int \X Int
    <3> HIDE DEF f
    <3> QED BY <2>2, ScreenTyped, SnapTyped
  <2>4. PICK p \in [Win -> Place], to \in Int \X Int, m \in {placed'} : p = placed /\ to = at
    BY <2>3 DEF DragInv, SpaceTyped
  <2> HIDE DEF at
  <2>5. m = MovedTo(p, x, to)
    BY <1>4, <2>4 DEF MovedTo
  <2>6. /\ m \in [Win -> Place] /\ FrameCorner(m[x]) = to
        /\ \A y \in Win : m[y].w = p[y].w /\ m[y].h = p[y].h
    BY <2>5, MovedTyped
  <2>7. keptAt' = [keptAt EXCEPT ![x] = to]
    BY <1>4, <2>4, <2>6
  <2>8. shown' \in Seq(Win) /\ \A y \in ToSet(shown) : y \in ToSet(shown')
    BY <1>4, TopTyped DEF DragInv, SpaceTyped
  <2>9. SpaceTyped'
    BY <2>4, <2>6, <2>7, <2>8 DEF DragInv, SpaceTyped, AtMemo
  <2>10. \A y \in Win : placed'[y].w = placed[y].w /\ placed'[y].h = placed[y].h
    BY <2>4, <2>6
  <2>11. DragInv'
    BY <1>1, <1>4, <2>8, <2>9, <2>10, RestStep
  <2> QED BY <2>11 DEF DragStep, MovedByDrag
<1> QED BY <1>2, <1>3, <1>4 DEF DropDrag

LEMMA PointerFreedStep ==
    ASSUME DragInv, PointerFreed
    PROVE  DragInv' /\ DragStep
<1>1. hold' = NoHold /\ pointer' = pointer /\ UNCHANGED <<known, committed, docked>>
  BY DEF PointerFreed
<1>2. NoHold \in HoldSet /\ NoHold.kind = "none"
  BY ScreenTyped DEF NoHold, HoldSet
<1>3. HoldTyped' /\ hold'.kind = "none"
  BY <1>1, <1>2 DEF DragInv, HoldTyped, HoldSet
<1>4. CASE hold.kind = "move"
  <2>1. PICK x \in Win : x = hold.win
    BY <1>4 DEF DragInv, HoldTyped
  <2>2. DropDrag(x)
    BY <1>4, <2>1 DEF PointerFreed
  <2> QED BY <1>1, <1>3, <2>2, DropDragStep
<1>5. CASE hold.kind # "move"
  <2>1. ClaimsKept /\ UNCHANGED <<placed, keptAt, shown>>
    BY <1>5 DEF PointerFreed
  <2> QED BY <1>1, <1>2, <2>1, GrabStep DEF ClaimsKept, GrabsDecorated
<1> QED BY <1>4, <1>5

\* A drag puts the frame where the next pass would clamp it to: in the zone of
\* the drag, which is the zone of the pass while no layer keeps columns, and
\* with at least the size the pass would give the window.
LEMMA DragMoves ==
    ASSUME DragInv, NEW p \in Int \X Int, NEW x \in Win, x = hold.win, hold.kind = "move",
           Drag(x, p), UNCHANGED <<known, minimised, keptSize, committed, docked>>,
           pointer' = p
    PROVE  DragInv' /\ DragStep
<1> DEFINE freed == tiled[x] # NoWin \/ x \in maximised
           space == IF freed THEN Laid0(placed, shown, keptAt)
                    ELSE [places |-> placed, stack |-> shown, kept |-> keptAt]
<1>1. Release(x, NoWin) /\ Decorated(x)
  BY DEF Drag, DragInv, HoldTyped
<1>2. ClaimsTyped'
  BY <1>1 DEF DragInv, ClaimsTyped, Release
<1>3. PICK l : l = space
  OBVIOUS
<1>4. SpaceSound(l)
  <2>1. CASE freed
    <3>1. PICK q, s, k : q = placed /\ s = shown /\ k = keptAt
      OBVIOUS
    <3>2. q \in [Win -> Place] /\ s \in Seq(Win) /\ k \in [Win -> AtMemo]
      BY <3>1 DEF DragInv, SpaceTyped
    <3>3. PassSound(Laid0(q, s, k))
      BY <1>2, <3>2, Pass
    <3>4. l = Laid0(q, s, k)
      BY <1>3, <2>1, <3>1
    <3> QED BY <3>3, <3>4 DEF PassSound
  <2>2. CASE ~freed
    <3>1. UNCHANGED <<tiled, maximised>>
      BY <1>1, <2>2 DEF Release, DragInv, ClaimsTyped
    <3>2. l = Now
      BY <1>3, <2>2 DEF Now
    <3> QED BY <3>1, <3>2, NowSound
  <2> QED BY <2>1, <2>2
<1> HIDE DEF space
<1>5. l.stack \in Seq(Win) /\ l.places \in [Win -> Place] /\ l.kept \in [Win -> AtMemo]
  BY <1>4 DEF SpaceSound
<1>6. PICK places \in [Win -> Place], stack \in Seq(Win), kept \in [Win -> AtMemo] :
            places = l.places /\ stack = l.stack /\ kept = l.kept
  BY <1>5
<1>7. PICK geo \in Place, old \in Place, here \in BOOLEAN :
         geo = places[x] /\ old = placed[x] /\ (here <=> x \in ToSet(stack))
  <2>1. places[x] \in Place /\ placed[x] \in Place
    BY DEF DragInv, SpaceTyped
  <2>2. \E here \in BOOLEAN : here <=> x \in ToSet(stack)
    OBVIOUS
  <2> QED BY <2>1, <2>2, Zenon
<1>8. PICK size, grip, want, at :
         /\ size = committed[x]
         /\ grip = (IF freed /\ here /\ x \in ToSet(shown) /\ size[1] > 0
                    THEN <<- Lower(Higher(p[1] - old.x, 0), size[1]), hold.at[2]>>
                    ELSE hold.at)
         /\ want = <<p[1] + grip[1], p[2] + grip[2] - Px.title>>
         /\ at = (IF here THEN Clamped(want, size[1], size[2] + Px.title, GrabZone) ELSE want)
  OBVIOUS
<1>9. /\ placed' = MovedTo(places, x, at)
      /\ keptAt' = [kept EXCEPT ![x] = FrameCorner(placed'[x])]
      /\ shown' = ToTop(stack, x)
      /\ hold' = [hold EXCEPT !.at = grip]
  BY <1>3, <1>6, <1>8, <1>7, Zenon DEF Drag, MovedTo, space
<1>10. size \in Nat \X Int /\ committed' = committed
  BY <1>8 DEF DragInv, HoldTyped
<1>11. size[1] \in Int /\ size[2] + Px.title \in Int /\ size[2] \in Int
  BY <1>10, PxTyped
<1>12. /\ old.x \in Int /\ p[1] \in Int /\ p[2] \in Int
      /\ hold.at \in Int \X Int /\ hold.at[2] \in Int
  BY DEF Place, DragInv, HoldTyped
<1>13. grip \in Int \X Int
  <2>1. Lower(Higher(p[1] - old.x, 0), size[1]) \in Int
    BY <1>11, <1>12 DEF Lower, Higher
  <2> QED BY <1>8, <1>12, <2>1
<1>14. want \in Int \X Int
  <2>1. grip[1] \in Int /\ grip[2] \in Int /\ Px.title \in Int
    BY <1>13, PxTyped
  <2>2. \A a, b, t \in Int : a + b \in Int /\ a + b - t \in Int
    OBVIOUS
  <2>3. p[1] + grip[1] \in Int /\ p[2] + grip[2] - Px.title \in Int
    BY <1>12, <2>1, <2>2, Zenon
  <2> QED BY <1>8, <1>7, <2>3
<1>15. at \in Int \X Int
  <2>1. Clamped(want, size[1], size[2] + Px.title, GrabZone) \in Int \X Int
    BY <1>14, <1>11, ScreenTyped, ClampTyped
  <2> QED BY <1>8, <1>7, <1>14, <2>1
<1>16. PICK moved : moved = placed'
  OBVIOUS
<1>17. /\ moved \in [Win -> Place] /\ FrameCorner(moved[x]) = at
       /\ moved[x].x = at[1] /\ moved[x].y = at[2] + Px.title
       /\ \A y \in Win : moved[y].w = places[y].w /\ moved[y].h = places[y].h
  BY <1>9, <1>15, <1>16, MovedTyped
<1>18. keptAt' = [kept EXCEPT ![x] = at] /\ keptAt'[x] = at
  <2>1. keptAt' = [kept EXCEPT ![x] = at]
    BY <1>9, <1>16, <1>17
  <2> QED BY <1>5, <1>6, <2>1
<1>19. shown' \in Seq(Win) /\ \A y \in ToSet(stack) : y \in ToSet(shown')
  BY <1>9, TopTyped
<1>20. SpaceTyped'
  BY <1>5, <1>6, <1>15, <1>16, <1>17, <1>18, <1>19 DEF SpaceTyped, AtMemo
<1>21. HoldTyped'
  BY <1>9, <1>13 DEF DragInv, HoldTyped
<1>22. DragInv'
  <2>1. \A y \in Win : y \in ToSet(known') \cap ToSet(l.stack) => y \in ToSet(shown')
    BY <1>6, <1>19
  <2>2. \A y \in Win : placed'[y].w = l.places[y].w /\ placed'[y].h = l.places[y].h
    BY <1>6, <1>16, <1>17
  <2> QED BY <1>2, <1>4, <1>20, <1>21, <2>1, <2>2, SpaceEnds
<1>23. ASSUME ~docked, IsLaidOut(x), HasCommitted(x)
       PROVE  LET again == Laid0(placed', shown', keptAt').places[x]
              IN  again.x = placed'[x].x /\ again.y = placed'[x].y
  <2>1. PICK least : least = SizeFor(keptSize'[x], x, GrabZone)
    OBVIOUS
  <2>2. Unplaced(x) /\ Usable(docked') = GrabZone
    BY <1>1, <1>23 DEF Unplaced, Decorated, Release, Usable, DragInv, ClaimsTyped
  <2>3. x \in ToSet(stack) /\ Fills(geo, least)
    BY <1>4, <1>6, <1>8, <1>7, <1>23, <2>1, <2>2 DEF SpaceSound
  <2>4. /\ at = Clamped(want, size[1], size[2] + Px.title, GrabZone)
        /\ size[1] = geo.w /\ size[2] = geo.h /\ geo.w > 0
    <3>1. at = Clamped(want, size[1], size[2] + Px.title, GrabZone)
      BY <1>8, <1>7, <2>3
    <3>2. placed'[x].w = geo.w /\ placed'[x].h = geo.h
      BY <1>7, <1>16, <1>17
    <3>3. size = <<placed'[x].w, placed'[x].h>> /\ size[1] > 0
      BY <1>8, <1>10, <1>23 DEF HasCommitted
    <3> QED BY <3>1, <3>2, <3>3
  <2>5. PICK s, k : s = shown' /\ k = keptAt'
    OBVIOUS
  <2>6. PICK second : second = Laid0(moved, s, k)
    OBVIOUS
  <2>7. PassSound(second) /\ PassGives(second, moved, k)
    <3>1. moved \in [Win -> Place] /\ s \in Seq(Win) /\ k \in [Win -> AtMemo]
      BY <1>16, <1>20, <2>5 DEF SpaceTyped
    <3>2. known' \in Seq(Win)
      BY <1>2 DEF ClaimsTyped
    <3> QED BY <1>2, <2>6, <3>1, <3>2, Pass, PassValues
  <2>8. second.kept[x] = at
    <3>1. at # NoWin
      BY <1>15, FloatDeskAssumption
    <3>2. second.kept[x] = RememberedAt(at, x, Rank(x) - 1, Usable(docked'))
      BY <1>18, <1>23, <2>5, <2>7 DEF PassGives
    <3> QED BY <3>1, <3>2 DEF RememberedAt
  <2>9. Lies(second.places[x], at, least)
    BY <1>23, <2>1, <2>2, <2>7, <2>8 DEF PassSound
  <2>10. least[1] \in Nat /\ least[2] \in Int
    <3>1. keptSize'[x] \in SizeMemo
      BY <1>2 DEF ClaimsTyped
    <3>2. least \in Nat \X Int
      BY <2>1, <3>1, ScreenTyped, SizeTyped
    <3> QED BY <3>2
  <2>11. Clamped(at, least[1], least[2], GrabZone) = at
    <3>1. PICK w \in Int, h \in Int, v \in Int, g \in Int :
             w = size[1] /\ h = size[2] + Px.title /\ v = least[1] /\ g = least[2]
      BY <1>11, <2>10
    <3>2. v <= w /\ g <= h
      BY <2>3, <2>4, <3>1 DEF Fills
    <3>3. at = Clamped(want, w, h, GrabZone)
      BY <2>4, <3>1
    <3>4. Clamped(Clamped(want, w, h, GrabZone), v, g, GrabZone) = Clamped(want, w, h, GrabZone)
      BY <1>14, <3>2, ScreenTyped, ClampTwice
    <3> QED BY <3>1, <3>3, <3>4
  <2>12. second.places[x].x = at[1] /\ second.places[x].y = at[2] + Px.title
    <3>1. least[1] > 0
      <4>1. least[1] \in Nat
        BY <2>10
      <4> QED BY <2>3, <2>4, <4>1 DEF Fills
    <3> QED BY <2>2, <2>9, <2>11, <3>1 DEF Lies
  <2> QED BY <1>16, <1>17, <2>5, <2>6, <2>12
<1>24. DragStep
  <2>1. SUFFICES ASSUME ~docked, x \in ToSet(known'), ~Hidden0(x),
                        HasCommitted(x)
                 PROVE  LET again == Laid0(placed', shown', keptAt').places[x]
                        IN  again.x = placed'[x].x /\ again.y = placed'[x].y
    BY DEF DragStep, MovedByDrag, LiesWhereAPassPuts
  <2> QED BY <1>23, <2>1 DEF IsLaidOut
<1> QED BY <1>22, <1>24

LEMMA MovePointerStep ==
    ASSUME DragInv, NEW p \in DragSpot, MovePointer(p)
    PROVE  DragInv' /\ DragStep
<1>1. p \in Int \X Int
  BY FloatDeskAssumption
<1>2. pointer' = p /\ UNCHANGED <<known, minimised, committed, docked>>
  BY DEF MovePointer
<1>3. CASE hold.kind = "move"
  <2>1. PICK x \in Win : x = hold.win
    BY <1>3 DEF DragInv, HoldTyped
  <2>2. Drag(x, p) /\ UNCHANGED keptSize
    BY <1>3, <2>1 DEF MovePointer
  <2> QED BY <1>1, <1>2, <1>3, <2>1, <2>2, DragMoves
<1>4. CASE hold.kind = "resize"
  <2>1. PICK x \in Win : x = hold.win
    BY <1>4 DEF DragInv, HoldTyped
  <2>2. Stretch(x, p)
    BY <1>4, <2>1 DEF MovePointer
  <2> QED BY <1>1, <1>2, <1>4, <2>1, <2>2, StretchStep
<1>5. CASE hold.kind \notin {"move", "resize"}
  <2>1. UNCHANGED <<shown, placed, keptAt, tiled, maximised, keptSize, hold>>
    BY <1>5 DEF MovePointer
  <2>2. HoldTyped' /\ SpaceTyped'
    BY <1>1, <1>2, <2>1 DEF DragInv, HoldTyped, SpaceTyped
  <2>3. DragInv'
    BY <1>2, <2>1, <2>2, RestStep
  <2> QED BY <2>1, <2>3 DEF DragStep, MovedByDrag
<1> QED BY <1>3, <1>4, <1>5

-----------------------------------------------------------------------------
LEMMA DragInvInit == FloatInit => DragInv
<1> SUFFICES ASSUME FloatInit PROVE DragInv
  OBVIOUS
<1>1. ClaimsTyped
  <2>1. <<>> \in Seq(Win) /\ {} \in SUBSET Win
    OBVIOUS
  <2>2. tiled \in [Win -> Tile \cup {NoWin}] /\ keptSize \in [Win -> SizeMemo]
    BY DEF FloatInit, SizeMemo
  <2> QED BY <2>1, <2>2 DEF FloatInit, ClaimsTyped
<1>2. SpaceTyped
  BY ScreenTyped DEF FloatInit, SpaceTyped, AtMemo
<1>3. HoldTyped
  BY ScreenTyped, FloatDeskAssumption DEF FloatInit, HoldTyped, NoHold
<1>4. SizesHold
  BY DEF FloatInit, SizesHold, ToSet
<1> QED BY <1>1, <1>2, <1>3, <1>4 DEF DragInv

LEMMA DragInvNext ==
    DragInv /\ [FloatNext]_floatVars => DragInv' /\ (DragStep \/ UNCHANGED floatVars)
<1> SUFFICES ASSUME DragInv, [FloatNext]_floatVars
             PROVE  DragInv' /\ (DragStep \/ UNCHANGED floatVars)
  OBVIOUS
<1>1. CASE UNCHANGED floatVars
  BY <1>1 DEF floatVars, DragInv, ClaimsTyped, SpaceTyped, HoldTyped, SizesHold
<1>2. CASE \E x \in Win : NewWindow(x) \/ WindowGone(x) \/ Commits(x)
  BY <1>2, NewWindowStep, WindowGoneStep, CommitsStep
<1>3. CASE RefreshSpace \/ DockChanges
  BY <1>3, RefreshSpaceStep, DockStep
<1>4. CASE ToggleMaximize \/ MinimizeKeys \/ RestoreLast
  BY <1>4, KeysStep, RestoreStep
<1>5. CASE \E dir \in Arrow : SnapKeys(dir) \/ ResizeKeys(dir) \/ FocusTowards(dir)
  BY <1>5, SnapKeysStep, ResizeKeysStep, FocusTowardsStep
<1>6. CASE \E button \in {"left", "right"}, logo \in BOOLEAN : PressButton(button, logo)
  BY <1>6, PressButtonStep
<1>7. CASE TapAges \/ ClientTakes \/ PointerFreed
  BY <1>7, TapAgesStep, ClientTakesStep, PointerFreedStep
<1>8. CASE \E p \in DragSpot : MovePointer(p)
  BY <1>8, MovePointerStep
<1> QED BY <1>1, <1>2, <1>3, <1>4, <1>5, <1>6, <1>7, <1>8 DEF FloatNext

\* Wherever a window is dragged on whatever screen, the next layout pass puts it
\* where the drag left it, as long as its client has committed the size asked of
\* it and no layer keeps columns: the drag and the pass then clamp to one zone,
\* and the drag to no smaller a size (grab.rs, usable_zone; layout.rs,
\* apply_layout).
THEOREM DraggedAlwaysStaysPut == FloatSpec => DraggedStaysPut
<1>1. FloatInit => DragInv
  BY DragInvInit
<1>2. DragInv /\ [FloatNext]_floatVars => DragInv' /\ [DragStep]_floatVars
  BY DragInvNext
<1>3. FloatSpec => [][DragStep]_floatVars
  BY <1>1, <1>2, PTL DEF FloatSpec
<1> QED BY <1>3 DEF DraggedStaysPut, DragStep

-----------------------------------------------------------------------------
(* PowerThread.                                                            *)

Command ==
    [do : {"volume", "take", "release"}]
      \cup [do : {"backlight"}, step : Steps] \cup [do : {"locked"}, is : BOOLEAN]

\* The last command of s that is about one of kinds is one of wanted.
LastIs(s, kinds, wanted) ==
    \A i \in 1..Len(s):
        s[i].do \in kinds /\ (\A j \in (i + 1)..Len(s): s[j].do \notin kinds) => s[i] \in wanted

Silent(s, kinds) == \A i \in 1..Len(s): s[i].do \notin kinds

OfInhibitor == {"take", "release"}

WantedInhibitor(m) ==
    {c \in Command: \/ c.do = "take" /\ m.inhibitor = TRUE
                    \/ c.do = "release" /\ m.inhibitor = FALSE}

WantedHint(m) == {c \in Command: c.do = "locked" /\ c.is = m.hint}

\* The strengthening of PowerSettles.
QueueSpeaksLast ==
    /\ commands \in Seq(Command)
    /\ meant \in [inhibitor : BOOLEAN, hint : BOOLEAN]
    /\ refused \in [inhibitor : BOOLEAN, hint : BOOLEAN]
    /\ LastIs(commands, OfInhibitor, WantedInhibitor(meant))
    /\ LastIs(commands, {"locked"}, WantedHint(meant))
    /\ Silent(commands, OfInhibitor) => inhibitor = meant.inhibitor \/ refused.inhibitor = TRUE
    /\ Silent(commands, {"locked"}) => hint = meant.hint \/ refused.hint = TRUE

-----------------------------------------------------------------------------
(* What sending and taking do to the last word.                            *)

LEMMA AppendTyped ==
    ASSUME NEW s \in Seq(Command), NEW c \in Command
    PROVE  /\ Append(s, c) \in Seq(Command) /\ Len(Append(s, c)) = Len(s) + 1
           /\ \A i \in 1..Len(s): Append(s, c)[i] = s[i]
           /\ Append(s, c)[Len(s) + 1] = c
  OBVIOUS

LEMMA TailTyped ==
    ASSUME NEW s \in Seq(Command), s # <<>>
    PROVE  /\ Tail(s) \in Seq(Command) /\ Len(s) >= 1 /\ Len(Tail(s)) = Len(s) - 1
           /\ \A i \in 1..(Len(s) - 1): Tail(s)[i] = s[i + 1]
           /\ Head(s) = s[1] /\ Head(s) \in Command
  OBVIOUS

\* A command of another kind leaves the last word where it is.
LEMMA SendOther ==
    ASSUME NEW s \in Seq(Command), NEW c \in Command, NEW kinds, NEW wanted,
           c.do \notin kinds, LastIs(s, kinds, wanted)
    PROVE  /\ LastIs(Append(s, c), kinds, wanted)
           /\ Silent(Append(s, c), kinds) => Silent(s, kinds)
<1>1. ASSUME NEW i \in 1..Len(Append(s, c)), Append(s, c)[i].do \in kinds,
             \A j \in (i + 1)..Len(Append(s, c)): Append(s, c)[j].do \notin kinds
      PROVE  Append(s, c)[i] \in wanted
  <2>1. i \in 1..Len(s) /\ Append(s, c)[i] = s[i]
    BY <1>1, AppendTyped
  <2>2. \A j \in (i + 1)..Len(s): s[j].do \notin kinds
    BY <1>1, AppendTyped
  <2> QED BY <1>1, <2>1, <2>2 DEF LastIs
<1>2. Silent(Append(s, c), kinds) => Silent(s, kinds)
  BY AppendTyped DEF Silent
<1> QED BY <1>1, <1>2 DEF LastIs

\* A command of the kind is the last word, whatever was said before.
LEMMA SendNew ==
    ASSUME NEW s \in Seq(Command), NEW c \in Command, NEW kinds, NEW wanted,
           c.do \in kinds, c \in wanted
    PROVE  /\ LastIs(Append(s, c), kinds, wanted)
           /\ ~Silent(Append(s, c), kinds)
<1>1. Len(s) + 1 \in 1..Len(Append(s, c))
  BY AppendTyped
<1>2. ASSUME NEW i \in 1..Len(Append(s, c)),
             \A j \in (i + 1)..Len(Append(s, c)): Append(s, c)[j].do \notin kinds
      PROVE  Append(s, c)[i] = c
  BY <1>2, AppendTyped
<1>3. ~Silent(Append(s, c), kinds)
  BY <1>1, AppendTyped DEF Silent
<1> QED BY <1>2, <1>3 DEF LastIs

\* Taking a command: when nothing of the kind is left, either the command was
\* the last word or nothing of the kind was there.
LEMMA TakeOne ==
    ASSUME NEW s \in Seq(Command), s # <<>>, NEW kinds, NEW wanted, LastIs(s, kinds, wanted)
    PROVE  /\ LastIs(Tail(s), kinds, wanted)
           /\ Silent(Tail(s), kinds) =>
                IF Head(s).do \in kinds THEN Head(s) \in wanted ELSE Silent(s, kinds)
<1>1. ASSUME NEW i \in 1..Len(Tail(s)), Tail(s)[i].do \in kinds,
             \A j \in (i + 1)..Len(Tail(s)): Tail(s)[j].do \notin kinds
      PROVE  Tail(s)[i] \in wanted
  <2>1. i + 1 \in 1..Len(s) /\ Tail(s)[i] = s[i + 1]
    BY TailTyped
  <2>2. ASSUME NEW j \in (i + 2)..Len(s) PROVE s[j].do \notin kinds
    <3>1. j - 1 \in (i + 1)..Len(Tail(s)) /\ Tail(s)[j - 1] = s[j]
      BY TailTyped
    <3> QED BY <1>1, <3>1
  <2>3. \A j \in ((i + 1) + 1)..Len(s): s[j].do \notin kinds
    BY <2>2
  <2> QED BY <1>1, <2>1, <2>3 DEF LastIs
<1>2. ASSUME Silent(Tail(s), kinds), NEW j \in 2..Len(s) PROVE s[j].do \notin kinds
  <2>1. j - 1 \in 1..Len(Tail(s)) /\ Tail(s)[j - 1] = s[j]
    BY TailTyped
  <2> QED BY <1>2, <2>1 DEF Silent
<1>3. ASSUME Silent(Tail(s), kinds), Head(s).do \in kinds PROVE Head(s) \in wanted
  <2>1. 1 \in 1..Len(s) /\ \A j \in (1 + 1)..Len(s): s[j].do \notin kinds
    BY <1>2, <1>3, TailTyped
  <2> QED BY <1>3, <2>1, TailTyped DEF LastIs
<1>4. ASSUME Silent(Tail(s), kinds), Head(s).do \notin kinds PROVE Silent(s, kinds)
  <2>1. ASSUME NEW i \in 1..Len(s) PROVE s[i].do \notin kinds
    <3>1. i = 1 \/ i \in 2..Len(s)
      OBVIOUS
    <3> QED BY <1>2, <1>4, <3>1, TailTyped
  <2> QED BY <2>1 DEF Silent
<1> QED BY <1>1, <1>3, <1>4 DEF LastIs

-----------------------------------------------------------------------------
LEMMA Commands ==
    /\ [do |-> "volume"] \in Command /\ [do |-> "take"] \in Command /\ [do |-> "release"] \in Command
    /\ \A b \in BOOLEAN: [do |-> "locked", is |-> b] \in Command
    /\ \A c \in [do : {"backlight"}, step : Steps]: c \in Command /\ c.do = "backlight"
  BY DEF Command

LEMMA SettlesInit == PowerInit => QueueSpeaksLast
<1> SUFFICES ASSUME PowerInit PROVE QueueSpeaksLast
  OBVIOUS
<1> DEFINE s == <<[do |-> "take"]>>
<1>1. commands = s /\ Len(s) = 1 /\ s[1] = [do |-> "take"] /\ s \in Seq(Command)
  BY Commands DEF PowerInit
<1>2. meant = [inhibitor |-> TRUE, hint |-> FALSE] /\ refused = [inhibitor |-> FALSE, hint |-> FALSE]
      /\ hint = FALSE
  BY DEF PowerInit
<1>3. LastIs(commands, OfInhibitor, WantedInhibitor(meant))
  BY <1>1, <1>2, Commands DEF LastIs, OfInhibitor, WantedInhibitor
<1>4. LastIs(commands, {"locked"}, WantedHint(meant))
  BY <1>1 DEF LastIs
<1>5. ~Silent(commands, OfInhibitor)
  BY <1>1 DEF Silent, OfInhibitor
<1> QED BY <1>1, <1>2, <1>3, <1>4, <1>5 DEF QueueSpeaksLast

LEMMA KeySettles == QueueSpeaksLast /\ PowerKey => QueueSpeaksLast'
<1> SUFFICES ASSUME QueueSpeaksLast, PowerKey PROVE QueueSpeaksLast'
  OBVIOUS
<1>1. PICK c \in {[do |-> "volume"]} \cup [do : {"backlight"}, step : Steps]:
        commands' = Append(commands, c)
  BY DEF PowerKey, Send
<1>2. c \in Command /\ c.do \in {"volume", "backlight"}
  BY Commands
<1>3. UNCHANGED <<inhibitor, hint, meant, refused>>
  BY DEF PowerKey
<1>4. c.do \notin OfInhibitor /\ c.do \notin {"locked"}
  BY <1>2 DEF OfInhibitor
<1>5. LastIs(commands', OfInhibitor, WantedInhibitor(meant))
      /\ (Silent(commands', OfInhibitor) => Silent(commands, OfInhibitor))
  BY <1>1, <1>2, <1>4, SendOther DEF QueueSpeaksLast
<1>6. LastIs(commands', {"locked"}, WantedHint(meant))
      /\ (Silent(commands', {"locked"}) => Silent(commands, {"locked"}))
  BY <1>1, <1>2, <1>4, SendOther DEF QueueSpeaksLast
<1>7. commands' \in Seq(Command)
  BY <1>1, <1>2, AppendTyped DEF QueueSpeaksLast
<1> QED BY <1>3, <1>5, <1>6, <1>7 DEF QueueSpeaksLast, LastIs, Silent

LEMMA LockSettles == QueueSpeaksLast /\ LockedChanges => QueueSpeaksLast'
<1> SUFFICES ASSUME QueueSpeaksLast, LockedChanges PROVE QueueSpeaksLast'
  OBVIOUS
<1> DEFINE c == [do |-> "locked", is |-> ~meant.hint]
<1>1. commands' = Append(commands, c) /\ UNCHANGED <<inhibitor, hint, refused>>
  BY DEF LockedChanges, Send
<1>2. meant' \in [inhibitor : BOOLEAN, hint : BOOLEAN]
      /\ meant'.inhibitor = meant.inhibitor /\ meant'.hint = ~meant.hint
  BY DEF LockedChanges, QueueSpeaksLast
<1>3. c \in Command /\ c.do = "locked" /\ c.is = meant'.hint
  BY <1>2, Commands DEF QueueSpeaksLast
<1>4. commands' \in Seq(Command)
  BY <1>1, <1>3, AppendTyped DEF QueueSpeaksLast
<1> HIDE DEF c
<1>5. WantedInhibitor(meant') = WantedInhibitor(meant)
  BY <1>2 DEF WantedInhibitor
<1>6. LastIs(commands', OfInhibitor, WantedInhibitor(meant'))
      /\ (Silent(commands', OfInhibitor) => Silent(commands, OfInhibitor))
  BY <1>1, <1>3, <1>5, SendOther DEF QueueSpeaksLast, OfInhibitor
<1>7. LastIs(commands', {"locked"}, WantedHint(meant')) /\ ~Silent(commands', {"locked"})
  <2>1. c \in WantedHint(meant') /\ c.do \in {"locked"}
    BY <1>3 DEF WantedHint
  <2> QED BY <1>1, <1>3, <2>1, SendNew DEF QueueSpeaksLast
<1> QED BY <1>1, <1>2, <1>4, <1>6, <1>7 DEF QueueSpeaksLast

\* The two ends of a sleep, each with its word about the inhibitor.
LEMMA SleepSettles == QueueSpeaksLast /\ (SleepPrepared \/ WakeUp) => QueueSpeaksLast'
<1> SUFFICES ASSUME QueueSpeaksLast, SleepPrepared \/ WakeUp PROVE QueueSpeaksLast'
  OBVIOUS
<1>1. PICK c \in Command:
        /\ commands' = Append(commands, c) /\ c.do \in OfInhibitor
        /\ meant' \in [inhibitor : BOOLEAN, hint : BOOLEAN] /\ meant'.hint = meant.hint
        /\ c \in WantedInhibitor(meant')
  <2>1. CASE SleepPrepared
    BY <2>1, Commands DEF SleepPrepared, Send, QueueSpeaksLast, OfInhibitor, WantedInhibitor
  <2>2. CASE WakeUp
    BY <2>2, Commands DEF WakeUp, Send, QueueSpeaksLast, OfInhibitor, WantedInhibitor
  <2> QED BY <2>1, <2>2
<1>2. UNCHANGED <<inhibitor, hint, refused>>
  BY DEF SleepPrepared, WakeUp
<1>3. commands' \in Seq(Command)
  BY <1>1, AppendTyped DEF QueueSpeaksLast
<1>4. LastIs(commands', OfInhibitor, WantedInhibitor(meant')) /\ ~Silent(commands', OfInhibitor)
  BY <1>1, SendNew DEF QueueSpeaksLast
<1>5. WantedHint(meant') = WantedHint(meant)
  BY <1>1 DEF WantedHint
<1>6. LastIs(commands', {"locked"}, WantedHint(meant'))
      /\ (Silent(commands', {"locked"}) => Silent(commands, {"locked"}))
  BY <1>1, <1>5, SendOther DEF QueueSpeaksLast, OfInhibitor
<1> QED BY <1>1, <1>2, <1>3, <1>4, <1>6 DEF QueueSpeaksLast

\* The thread took a command and, if it is about the inhibitor or the lock,
\* has obeyed it or was refused.
Obeyed(c) ==
    /\ refused' \in [inhibitor : BOOLEAN, hint : BOOLEAN]
    /\ IF c.do \in OfInhibitor
       THEN inhibitor' = (c.do = "take") \/ refused'.inhibitor = TRUE
       ELSE inhibitor' = inhibitor /\ refused'.inhibitor = refused.inhibitor
    /\ IF c.do = "locked"
       THEN hint' = c.is \/ refused'.hint = TRUE
       ELSE hint' = hint /\ refused'.hint = refused.hint

LEMMA TakenIsObeyed ==
    ASSUME QueueSpeaksLast, commands # <<>>,
           Backlight \/ SoundBegins \/ TakeInhibitor \/ ReleaseInhibitor \/ TellLocked
    PROVE  /\ commands' = Tail(commands) /\ UNCHANGED meant
           /\ Obeyed(Head(commands))
<1> USE DEF Takes, Obeyed, OfInhibitor, QueueSpeaksLast
<1>1. CASE Backlight
  BY <1>1 DEF Backlight
<1>2. CASE SoundBegins
  BY <1>2 DEF SoundBegins
<1>3. CASE TakeInhibitor
  BY <1>3 DEF TakeInhibitor
<1>4. CASE ReleaseInhibitor
  BY <1>4 DEF ReleaseInhibitor
<1>5. CASE TellLocked
  BY <1>5 DEF TellLocked
<1> QED BY <1>1, <1>2, <1>3, <1>4, <1>5

LEMMA LoopSettles == QueueSpeaksLast /\ PowerLoop => QueueSpeaksLast'
<1> SUFFICES ASSUME QueueSpeaksLast, PowerLoop PROVE QueueSpeaksLast'
  OBVIOUS
<1>1. CASE ToolReturns
  BY <1>1 DEF ToolReturns, QueueSpeaksLast
<1>2. CASE ~ToolReturns
  <2>1. commands # <<>>
        /\ (Backlight \/ SoundBegins \/ TakeInhibitor \/ ReleaseInhibitor \/ TellLocked)
    BY <1>2 DEF PowerLoop, Takes, Backlight, SoundBegins, TakeInhibitor, ReleaseInhibitor, TellLocked
  <2> DEFINE c == Head(commands)
  <2>2. commands' = Tail(commands) /\ meant' = meant /\ Obeyed(c)
    BY <2>1, TakenIsObeyed
  <2>3. commands' \in Seq(Command)
    BY <2>1, <2>2, TailTyped DEF QueueSpeaksLast
  <2> HIDE DEF c
  <2>4. LastIs(commands', OfInhibitor, WantedInhibitor(meant))
        /\ (Silent(commands', OfInhibitor) =>
              IF c.do \in OfInhibitor THEN c \in WantedInhibitor(meant)
              ELSE Silent(commands, OfInhibitor))
    BY <2>1, <2>2, TakeOne DEF QueueSpeaksLast, c
  <2>5. LastIs(commands', {"locked"}, WantedHint(meant))
        /\ (Silent(commands', {"locked"}) =>
              IF c.do \in {"locked"} THEN c \in WantedHint(meant)
              ELSE Silent(commands, {"locked"}))
    BY <2>1, <2>2, TakeOne DEF QueueSpeaksLast, c
  <2>6. Silent(commands', OfInhibitor)
          => inhibitor' = meant.inhibitor \/ refused'.inhibitor = TRUE
    BY <2>2, <2>4 DEF QueueSpeaksLast, Obeyed, WantedInhibitor
  <2>7. Silent(commands', {"locked"}) => hint' = meant.hint \/ refused'.hint = TRUE
    BY <2>2, <2>5 DEF QueueSpeaksLast, Obeyed, WantedHint
  <2> QED BY <2>2, <2>3, <2>4, <2>5, <2>6, <2>7 DEF QueueSpeaksLast, Obeyed
<1> QED BY <1>1, <1>2

LEMMA SettlesStep == QueueSpeaksLast /\ [PowerNext]_powerVars => QueueSpeaksLast'
<1> SUFFICES ASSUME QueueSpeaksLast, [PowerNext]_powerVars PROVE QueueSpeaksLast'
  OBVIOUS
<1>1. CASE FallAsleep \/ UNCHANGED powerVars
  BY <1>1 DEF FallAsleep, powerVars, QueueSpeaksLast
<1> QED BY <1>1, KeySettles, LockSettles, SleepSettles, LoopSettles DEF PowerNext

-----------------------------------------------------------------------------
\* The queue keeps the order in which the seat spoke, so that its last command
\* of a kind is the seat's last word, and what is in force without one is that
\* word too (power::run, one receiver on one channel).
THEOREM LastWordStands == PowerSpec => []QueueSpeaksLast
<1> QED BY SettlesInit, SettlesStep, PTL DEF PowerSpec

\* When the queue is empty logind holds the inhibitor and the hint the seat
\* last asked for, or logind refused: however long a tool hung, however many
\* commands waited behind it, and whatever slept or woke meanwhile.
THEOREM PowerAlwaysSettles == PowerSpec => []PowerSettles
<1>1. QueueSpeaksLast => PowerSettles
  <2> SUFFICES ASSUME QueueSpeaksLast, commands = <<>>
               PROVE  /\ inhibitor = meant.inhibitor \/ refused.inhibitor
                      /\ hint = meant.hint \/ refused.hint
    BY DEF PowerSettles
  <2>1. Silent(commands, OfInhibitor) /\ Silent(commands, {"locked"})
    BY DEF Silent
  <2> QED BY <2>1 DEF QueueSpeaksLast
<1> QED BY <1>1, LastWordStands, PTL

-----------------------------------------------------------------------------
\* What waits for the seat.
Message ==
    [kind : {"world"}, w : Worlds \cup {Bad, NoWorld}]
      \cup [kind : {"cell"}, name : Module, text : 0..MaxGeneration \cup {NoCell}]

\* The last world of q is w; when none is left in it, w is what stands, or w was
\* refused.
EndsOn(q, stands, w) ==
    /\ \A i \in 1..Len(q):
          q[i].kind = "world" /\ (\A j \in (i + 1)..Len(q): q[j].kind # "world") => q[i].w = w
    /\ (\A i \in 1..Len(q): q[i].kind # "world") => w \in {stands, Bad}

\* What was saved last is still to be read, or is being read, or was read and
\* is the last of the worlds that go to the seat.
SavedArrives ==
    /\ file \in Worlds \cup {Bad} /\ late \in Worlds \cup {NoWorld}
    /\ reading \in Worlds \cup {Bad, NoWorld}
    /\ watch \in {"off", "idle", "settling", "resolving"}
    /\ seatQ \in Seq(Message)
    /\ ~overtaken => late = NoWorld
    /\ watch = "off" => ~savedSeen
    /\ savedSeen /\ ~overtaken =>
          \/ event = TRUE
          \/ watch = "settling"
          \/ watch = "resolving" /\ reading = file
          \/ watch = "idle" /\ EndsOn(seatQ, standing, file)

\* A question that is open was asked of the modules as they stand.
AskedOfTheLastSet == asked \in [Module -> {schedGen, NoCell}]

\* A world behind the queue is the last one, and a cell changes nothing.
LEMMA AppendWorld ==
    ASSUME NEW q \in Seq(Message), NEW m \in Message, NEW stands, m.kind = "world"
    PROVE  Append(q, m) \in Seq(Message) /\ EndsOn(Append(q, m), stands, m.w)
<1>1. /\ Append(q, m) \in Seq(Message) /\ Len(Append(q, m)) = Len(q) + 1 /\ Len(q) \in Nat
      /\ \A i \in 1..Len(q): Append(q, m)[i] = q[i]
      /\ Append(q, m)[Len(q) + 1] = m
  OBVIOUS
<1>2. /\ \A i \in 1..Len(Append(q, m)): i = Len(q) + 1 \/ Len(q) + 1 \in (i + 1)..Len(Append(q, m))
      /\ Len(q) + 1 \in 1..Len(Append(q, m))
  BY <1>1
<1> QED BY <1>1, <1>2 DEF EndsOn

LEMMA AppendCell ==
    ASSUME NEW q \in Seq(Message), NEW m \in Message, NEW stands, NEW w, m.kind = "cell", EndsOn(q, stands, w)
    PROVE  EndsOn(Append(q, m), stands, w)
<1>1. /\ Len(Append(q, m)) = Len(q) + 1 /\ Len(q) \in Nat
      /\ \A i \in 1..Len(q): Append(q, m)[i] = q[i]
      /\ Append(q, m)[Len(q) + 1] = m
  OBVIOUS
<1>2. \A i \in 1..Len(q): /\ i \in 1..Len(Append(q, m)) /\ i # Len(q) + 1
                          /\ \A j \in (i + 1)..Len(q): j \in (i + 1)..Len(Append(q, m)) /\ j \in 1..Len(q)
  BY <1>1
<1>3. \A i \in 1..Len(Append(q, m)): i \in 1..Len(q) \/ i = Len(q) + 1
  BY <1>1
<1> QED BY <1>1, <1>2, <1>3 DEF EndsOn

\* The seat takes the first of the queue: a cell, or a world that stands from
\* now on unless it is refused.
LEMMA TakeFirst ==
    ASSUME NEW q \in Seq(Message), q # <<>>, NEW stands, NEW now, NEW w, EndsOn(q, stands, w),
           IF Head(q).kind = "world" THEN Head(q).w = Bad \/ now = Head(q).w ELSE now = stands
    PROVE  Tail(q) \in Seq(Message) /\ EndsOn(Tail(q), now, w)
<1>1. /\ Tail(q) \in Seq(Message) /\ Len(q) \in Nat \ {0} /\ Len(Tail(q)) = Len(q) - 1 /\ Head(q) = q[1]
      /\ \A i \in 1..Len(Tail(q)): i + 1 \in 1..Len(q) /\ Tail(q)[i] = q[i + 1]
      /\ 1 \in 1..Len(q)
  OBVIOUS
<1>2. \A j \in 1..Len(q): 1 < j => j - 1 \in 1..Len(Tail(q)) /\ Tail(q)[j - 1] = q[j]
  BY <1>1
<1>3. ASSUME NEW i \in 1..Len(Tail(q)), Tail(q)[i].kind = "world",
             \A j \in (i + 1)..Len(Tail(q)): Tail(q)[j].kind # "world"
      PROVE  Tail(q)[i].w = w
  <2>1. ASSUME NEW j \in (i + 1 + 1)..Len(q) PROVE q[j].kind # "world"
    <3>1. j - 1 \in (i + 1)..Len(Tail(q)) /\ j \in 1..Len(q) /\ 1 < j
      BY <1>1
    <3> QED BY <1>2, <1>3, <3>1
  <2> QED BY <1>1, <1>3, <2>1 DEF EndsOn
<1>4. ASSUME \A i \in 1..Len(Tail(q)): Tail(q)[i].kind # "world"
      PROVE  w \in {now, Bad}
  <2>1. \A j \in 2..Len(q): q[j].kind # "world"
    <3>1. \A j \in 2..Len(q): j \in 1..Len(q) /\ 1 < j
      BY <1>1
    <3> QED BY <1>2, <1>4, <3>1
  <2>2. \A j \in 1..Len(q): j = 1 \/ j \in 2..Len(q)
    BY <1>1
  <2>3. CASE q[1].kind = "world"
    <3>1. q[1].w = w
      BY <1>1, <2>1, <2>3 DEF EndsOn
    <3> QED BY <1>1, <2>3, <3>1
  <2>4. CASE q[1].kind # "world"
    BY <1>1, <2>1, <2>2, <2>4 DEF EndsOn
  <2> QED BY <2>3, <2>4
<1> QED BY <1>1, <1>3, <1>4 DEF EndsOn

\* Steps of the file, the watcher and the module thread.
LEMMA ReadersKeep ==
    ASSUME SavedArrives, AskedOfTheLastSet,
           \/ \E w \in Worlds \cup {Bad}: Save(w)
           \/ WatchStarts \/ WatchEvent \/ ResolveStarts
    PROVE  SavedArrives' /\ AskedOfTheLastSet'
<1> USE DEF SavedArrives, AskedOfTheLastSet, adopted, loopVars
<1>1. ASSUME NEW w \in Worlds \cup {Bad}, Save(w) PROVE SavedArrives' /\ AskedOfTheLastSet'
  BY <1>1 DEF Save
<1>2. CASE WatchStarts
  BY <1>2 DEF WatchStarts
<1>3. CASE WatchEvent
  BY <1>3 DEF WatchEvent
<1>4. CASE ResolveStarts
  BY <1>4 DEF ResolveStarts
<1> QED BY <1>1, <1>2, <1>3, <1>4

\* A world is sent to the seat.
LEMMA SendKeeps ==
    ASSUME SavedArrives, AskedOfTheLastSet, LateFirst \/ ResolveEnds
    PROVE  /\ SavedArrives' /\ AskedOfTheLastSet'
           /\ Len(seatQ') > Len(seatQ) => seatQ'[Len(seatQ')].kind # "cell"
<1> PICK x : x = (IF LateFirst THEN late ELSE reading)
  OBVIOUS
<1> DEFINE m == [kind |-> "world", w |-> x]
<1>1. m \in Message /\ m.kind = "world" /\ m.w = x
  BY DEF Message, SavedArrives
<1>2. seatQ' = Append(seatQ, m)
  BY DEF LateFirst, ResolveEnds
<1> HIDE DEF m
<1>3. seatQ \in Seq(Message)
  BY DEF SavedArrives
<1>4. seatQ' \in Seq(Message) /\ EndsOn(seatQ', standing, x)
  BY <1>1, <1>2, <1>3, AppendWorld
<1>5. seatQ'[Len(seatQ')] = m
  BY <1>1, <1>2, <1>3
<1>6. CASE LateFirst
  BY <1>1, <1>4, <1>5, <1>6 DEF LateFirst, SavedArrives, AskedOfTheLastSet, adopted, loopVars
<1>7. CASE ResolveEnds /\ ~LateFirst
  BY <1>1, <1>4, <1>5, <1>7 DEF ResolveEnds, SavedArrives, AskedOfTheLastSet, adopted, loopVars
<1> QED BY <1>6, <1>7

\* The seat takes what arrives.
LEMMA SeatKeeps ==
    ASSUME SavedArrives, AskedOfTheLastSet, AdoptWorld \/ SetCell
    PROVE  SavedArrives' /\ AskedOfTheLastSet' /\ seatQ' = Tail(seatQ) /\ Len(seatQ') < Len(seatQ)
<1>1. /\ seatQ # <<>> /\ seatQ' = Tail(seatQ) /\ UNCHANGED <<fileVars, loopVars>>
      /\ IF Head(seatQ).kind = "world" THEN Head(seatQ).w = Bad \/ standing' = Head(seatQ).w
                                       ELSE standing' = standing
  BY DEF AdoptWorld, SetCell
<1>2. seatQ \in Seq(Message)
  BY DEF SavedArrives
<1>3. Tail(seatQ) \in Seq(Message) /\ Len(seatQ') < Len(seatQ)
  BY <1>1, <1>2
<1>4. EndsOn(seatQ, standing, file) => EndsOn(seatQ', standing', file)
  BY <1>1, <1>2, TakeFirst
<1> QED BY <1>1, <1>3, <1>4 DEF SavedArrives, AskedOfTheLastSet, fileVars, loopVars

\* A module answers.
LEMMA AnswerKeeps ==
    ASSUME SavedArrives, AskedOfTheLastSet, NEW n \in Module,
           NEW text \in 0..MaxGeneration \cup {NoCell}, Answered(n, text)
    PROVE  SavedArrives' /\ AskedOfTheLastSet' /\ seatQ'[Len(seatQ')].text \in {schedGen, NoCell}
<1> DEFINE m == [kind |-> "cell", name |-> n, text |-> text]
<1>1. m \in Message /\ m.kind = "cell" /\ m.text = text
  BY DEF Message
<1>2. seatQ' = Append(seatQ, m) /\ UNCHANGED <<fileVars, adopted, schedGen>>
  BY DEF Answered
<1> HIDE DEF m
<1>3. seatQ \in Seq(Message)
  BY DEF SavedArrives
<1>4. seatQ' \in Seq(Message) /\ seatQ'[Len(seatQ')] = m
  BY <1>1, <1>2, <1>3
<1>5. EndsOn(seatQ, standing, file) => EndsOn(seatQ', standing, file)
  BY <1>1, <1>2, <1>3, AppendCell
<1>6. text \in {schedGen, NoCell} /\ AskedOfTheLastSet'
  BY DEF Answered, AskedOfTheLastSet
<1> QED BY <1>1, <1>2, <1>4, <1>5, <1>6 DEF SavedArrives, fileVars, adopted

\* The module thread and the seat's word to it.
LEMMA LoopKeeps ==
    ASSUME SavedArrives, AskedOfTheLastSet,
           \/ \E k \in {"pause", "resume"}: BarControl(k)
           \/ LoopSet \/ LoopPause \/ LoopResume \/ (\E n \in Module: LoopAsk(n) \/ LoopPeriod(n))
           \/ UNCHANGED worldVars
    PROVE  SavedArrives' /\ AskedOfTheLastSet' /\ seatQ' = seatQ
<1>1. UNCHANGED <<fileVars, seatQ, standing>>
  BY DEF BarControl, LoopSet, LoopPause, LoopResume, LoopAsk, LoopPeriod, worldVars, adopted
<1>2. SavedArrives'
  BY <1>1 DEF SavedArrives, fileVars
<1>3. AskedOfTheLastSet'
  <2>1. CASE LoopSet \/ LoopPause
    BY <2>1 DEF LoopSet, LoopPause, AskedOfTheLastSet
  <2>2. CASE \E n \in Module: LoopAsk(n)
    BY <2>2 DEF LoopAsk, AskedOfTheLastSet
  <2>3. CASE (\E k \in {"pause", "resume"}: BarControl(k)) \/ LoopResume \/ (\E n \in Module: LoopPeriod(n))
             \/ UNCHANGED worldVars
    BY <2>3 DEF BarControl, LoopResume, LoopPeriod, AskedOfTheLastSet, loopVars, worldVars
  <2> QED BY <2>1, <2>2, <2>3
<1> QED BY <1>1, <1>2, <1>3

LEMMA NextArrives ==
    SavedArrives /\ AskedOfTheLastSet /\ [WorldNext]_worldVars =>
        /\ SavedArrives' /\ AskedOfTheLastSet'
        /\ Len(seatQ') > Len(seatQ) /\ seatQ'[Len(seatQ')].kind = "cell"
              => seatQ'[Len(seatQ')].text \in {schedGen, NoCell}
<1> SUFFICES ASSUME SavedArrives, AskedOfTheLastSet, [WorldNext]_worldVars
             PROVE  /\ SavedArrives' /\ AskedOfTheLastSet'
                    /\ Len(seatQ') > Len(seatQ) /\ seatQ'[Len(seatQ')].kind = "cell"
                          => seatQ'[Len(seatQ')].text \in {schedGen, NoCell}
  OBVIOUS
<1>0. Len(seatQ) \in Nat
  BY DEF SavedArrives
<1>1. CASE \/ \E w \in Worlds \cup {Bad}: Save(w)
           \/ WatchStarts \/ WatchEvent \/ ResolveStarts
  <2>1. seatQ' = seatQ
    BY <1>1 DEF Save, WatchStarts, WatchEvent, ResolveStarts
  <2> QED BY <1>0, <1>1, <2>1, ReadersKeep
<1>2. CASE LateFirst \/ ResolveEnds
  BY <1>2, SendKeeps
<1>3. CASE AdoptWorld \/ SetCell
  <2>1. SavedArrives' /\ AskedOfTheLastSet' /\ Len(seatQ') < Len(seatQ)
    BY <1>3, SeatKeeps
  <2>2. Len(seatQ') \in Nat
    BY <2>1 DEF SavedArrives
  <2> QED BY <1>0, <2>1, <2>2
<1>4. CASE \E n \in Module, text \in 0..MaxGeneration \cup {NoCell}: Answered(n, text)
  BY <1>4, AnswerKeeps
<1>5. CASE \/ \E k \in {"pause", "resume"}: BarControl(k)
           \/ LoopSet \/ LoopPause \/ LoopResume \/ (\E n \in Module: LoopAsk(n) \/ LoopPeriod(n))
           \/ UNCHANGED worldVars
  BY <1>0, <1>5, LoopKeeps
<1> QED BY <1>1, <1>2, <1>3, <1>4, <1>5 DEF WorldNext

LEMMA ArrivedStands == SavedArrives => SavedStands
<1> SUFFICES ASSUME SavedArrives, Arrived, savedSeen, ~overtaken PROVE file \in {standing, Bad}
  BY DEF SavedStands
<1>1. CASE savedSeen /\ ~overtaken
  <2>1. EndsOn(seatQ, standing, file) /\ seatQ \in Seq(Message)
    BY <1>1 DEF SavedArrives, Arrived
  <2>2. \A i \in 1..Len(seatQ): seatQ[i].kind # "world"
    BY <2>1 DEF Arrived
  <2> QED BY <2>1, <2>2 DEF EndsOn
<1> QED BY <1>1

\* However the saves fall on the watcher's burst, its worker and the queues, the
\* seat ends on what was saved last, and what the bar is told is an answer of
\* the modules as they stand (world.rs, modules.rs).
THEOREM LastWorldAlwaysStands == WorldSpec => TheLastWorldStands
<1>1. WorldInit => SavedArrives /\ AskedOfTheLastSet
  BY DEF WorldInit, SavedArrives, AskedOfTheLastSet
<1> QED BY <1>1, NextArrives, ArrivedStands, PTL DEF WorldSpec, TheLastWorldStands, AnswersOfTheLastSet

-----------------------------------------------------------------------------
(* Bindings.                                                               *)

\* What a command may do, and the look a config can hold.
Doable == [does : {"run", "deed", "screenshot"}, verb : Verbs]
LookType == [modifier : {Logo, AltKey}, floating : BOOLEAN]

\* The worlds after n entries of w: commands of the names it declares, binds of
\* its own, and a look the config takes.
NamesOf(w) == {w.entries[i].name : i \in {j \in DOMAIN w.entries : w.entries[j].entry = "command"}}
BindsOf(w) == {WorldBind(w.entries[i]) : i \in DOMAIN w.entries}
Declared(N) == UNION {[D -> Doable] : D \in SUBSET N}
ResolvedTo(w) == [commands : Declared(NamesOf(w)), binds : Seq(BindsOf(w)), look : LookType]

LEMMA NoWorldTyped == \A w : NoWorldYet \in ResolvedTo(w)
<1> SUFFICES ASSUME NEW w PROVE NoWorldYet \in ResolvedTo(w)
  OBVIOUS
<1>1. <<>> \in [{} -> Doable] /\ {} \in SUBSET NamesOf(w)
  OBVIOUS
<1>2. <<>> \in Declared(NamesOf(w))
  BY <1>1 DEF Declared
<1>3. <<>> \in Seq(BindsOf(w))
  OBVIOUS
<1>4. [modifier |-> Logo, floating |-> TRUE] \in LookType
  BY DEF LookType
<1> QED BY <1>2, <1>3, <1>4 DEF NoWorldYet, ResolvedTo

LEMMA VerbsAreNoCommands == "command" \notin Verbs /\ "refused" \notin Verbs /\ "none" \in Verbs
<1>1. /\ "command" \notin Range(Focus) /\ "command" \notin Range(Resize) /\ "command" \notin Range(Snap)
      /\ "refused" \notin Range(Focus) /\ "refused" \notin Range(Resize) /\ "refused" \notin Range(Snap)
  BY DEF Range, Focus, Resize, Snap
<1> QED BY <1>1 DEF Verbs

LEMMA FromWorldTyped == \A value : FromWorld(value) \subseteq Doable
<1> SUFFICES ASSUME NEW value PROVE FromWorld(value) \subseteq Doable
  OBVIOUS
<1>1. "none" \in Verbs /\ "volume-up" \in Verbs
  BY DEF Verbs
<1> QED BY <1>1 DEF FromWorld, SeatCommand, Doable

\* An entry of w leaves a resolved world resolved.
LEMMA ApplyTyped ==
    ASSUME NEW w, NEW i \in DOMAIN w.entries, NEW r \in ResolvedTo(w)
    PROVE  ApplyEntry(r, w.entries[i]) \in ResolvedTo(w)
<1> DEFINE e == w.entries[i]
<1>1. /\ r = [commands |-> r.commands, binds |-> r.binds, look |-> r.look]
      /\ r.commands \in Declared(NamesOf(w)) /\ r.binds \in Seq(BindsOf(w)) /\ r.look \in LookType
  BY DEF ResolvedTo
<1>2. CASE e.entry = "command"
  <2> DEFINE new == FromWorld(e.value)
             c == CHOOSE c \in new : TRUE
             cs == Put(r.commands, e.name, c)
  <2>1. CASE new = {}
    BY <1>1, <1>2, <2>1 DEF ApplyEntry
  <2>2. CASE new # {}
    <3>1. c \in Doable
      BY <2>2, FromWorldTyped
    <3>2. e.name \in NamesOf(w)
      BY <1>2 DEF NamesOf
    <3> HIDE DEF c
    <3>3. PICK D \in SUBSET NamesOf(w) : r.commands \in [D -> Doable]
      BY <1>1 DEF Declared
    <3>4. cs \in [(D \cup {e.name}) -> Doable]
      BY <3>1, <3>3 DEF Put
    <3>5. D \cup {e.name} \in SUBSET NamesOf(w)
      BY <3>2, <3>3
    <3>6. cs \in Declared(NamesOf(w))
      BY <3>4, <3>5 DEF Declared
    <3> HIDE DEF cs
    <3>7. [r EXCEPT !.commands = cs] \in ResolvedTo(w)
      BY <3>6 DEF ResolvedTo
    <3>8. ApplyEntry(r, e) = [r EXCEPT !.commands = cs]
      BY <1>2, <2>2 DEF ApplyEntry, cs, c
    <3> QED BY <3>7, <3>8
  <2> QED BY <2>1, <2>2
<1>3. CASE e.entry = "bind"
  <2>1. WorldBind(e) \in BindsOf(w)
    BY DEF BindsOf
  <2>2. Append(r.binds, WorldBind(e)) \in Seq(BindsOf(w))
    BY <1>1, <2>1
  <2>3. ApplyEntry(r, e) = [r EXCEPT !.binds = Append(r.binds, WorldBind(e))]
    BY <1>3 DEF ApplyEntry
  <2> QED BY <2>2, <2>3 DEF ResolvedTo
<1>4. CASE e.entry = "config"
  <2>1. ApplyEntry(r, e) = SetField(r, e.field, e.value)
    BY <1>4 DEF ApplyEntry
  <2>2. CASE e.value \notin FieldTakes[e.field]
    BY <2>1, <2>2 DEF SetField
  <2>3. CASE e.value \in FieldTakes[e.field]
    <3>1. SetField(r, e.field, e.value) = [r EXCEPT !.look = [r.look EXCEPT ![e.field] = e.value]]
      BY <2>3 DEF SetField
    <3>2. [r.look EXCEPT ![e.field] = e.value] \in LookType
      <4>1. CASE e.field \in {"modifier", "floating"}
        BY <1>1, <2>3, <4>1 DEF LookType, FieldTakes
      <4>2. CASE e.field \notin {"modifier", "floating"}
        BY <1>1, <4>2 DEF LookType
      <4> QED BY <4>1, <4>2
    <3> QED BY <1>1, <2>1, <3>1, <3>2 DEF ResolvedTo
  <2> QED BY <2>2, <2>3
<1>5. CASE e.entry \notin {"command", "bind", "config"}
  BY <1>5 DEF ApplyEntry
<1> QED BY <1>2, <1>3, <1>4, <1>5

\* What a world is resolved to.
LEMMA ResolvedTyped ==
    ASSUME NEW w \in WorldFiles
    PROVE  /\ Resolved(w).look \in LookType
           /\ \E S : Resolved(w).binds \in Seq(S)
           /\ \E D : /\ Resolved(w).commands \in [D -> Doable]
                     /\ D = {} \/ (w.state = "judged" /\ D \subseteq NamesOf(w))
<1>1. CASE w.state # "judged"
  <2>1. Resolved(w) = NoWorldYet
    BY <1>1 DEF Resolved
  <2>2. NoWorldYet.look \in LookType /\ NoWorldYet.commands \in [{} -> Doable] /\ NoWorldYet.binds \in Seq({})
    BY DEF NoWorldYet, LookType
  <2> QED BY <1>1, <2>1, <2>2
<1>2. CASE w.state = "judged"
  <2> DEFINE m == Len(w.entries)
             A == ResolvedTo(w)
             Climbs(k) == k = [n \in 0..m |-> IF n = 0 THEN NoWorldYet ELSE ApplyEntry(k[n - 1], w.entries[n])]
             step == [p \in A \X (1..m) |-> ApplyEntry(p[1], w.entries[p[2]])]
             so == CHOOSE k : Climbs(k)
  <2>1. m \in Nat /\ DOMAIN w.entries = 1..m
    BY <1>2, BindingsAssumption
  <2>2. \A r \in A, i \in 1..m : ApplyEntry(r, w.entries[i]) \in A
    BY <2>1, ApplyTyped
  <2>3. NoWorldYet \in A
    BY NoWorldTyped
  <2>4. Resolved(w) = so[m]
    BY <1>2 DEF Resolved
  <2> HIDE DEF A, m
  <2>5. step \in [A \X (1..m) -> A] /\ \A r \in A, i \in 1..m : step[<<r, i>>] = ApplyEntry(r, w.entries[i])
    BY <2>2
  <2> HIDE DEF step
  <2>6. PICK k \in [0..m -> A] : Unrolls(k, NoWorldYet, step, m)
    BY <2>1, <2>3, <2>5, UnrollExists
  <2>7. Climbs(k)
    <3>1. \A n \in 0..m : n # 0 => n \in 1..m /\ k[n - 1] \in A
      BY <2>1
    <3>2. \A n \in 0..m : k[n] = IF n = 0 THEN NoWorldYet ELSE ApplyEntry(k[n - 1], w.entries[n])
      BY <2>5, <2>6, <3>1 DEF Unrolls
    <3>3. k = [n \in 0..m |-> k[n]]
      OBVIOUS
    <3> QED BY <3>2, <3>3
  <2> HIDE DEF Climbs
  <2>8. Climbs(so)
    BY <2>7
  <2> HIDE DEF so
  <2> DEFINE G == {n \in 0..m : so[n] \in A}
  <2>9. \A n \in 0..m : so[n] = IF n = 0 THEN NoWorldYet ELSE ApplyEntry(so[n - 1], w.entries[n])
    BY <2>8 DEF Climbs
  <2>10. 0 \in G
    BY <2>1, <2>3, <2>9
  <2>11. ASSUME NEW n \in 0..m, n # m, n \in G PROVE n + 1 \in G
    <3>1. n + 1 \in 1..m /\ n + 1 \in 0..m /\ n + 1 # 0 /\ (n + 1) - 1 = n /\ so[n] \in A
      BY <2>1, <2>11
    <3>2. so[n + 1] = ApplyEntry(so[n], w.entries[n + 1])
      BY <2>9, <3>1
    <3> QED BY <2>2, <3>1, <3>2
  <2> HIDE DEF G
  <2>12. 0..m \subseteq G
    BY <2>1, <2>10, <2>11, UpTo
  <2>13. so[m] \in A
    BY <2>1, <2>12 DEF G
  <2>14. PICK D \in SUBSET NamesOf(w) : so[m].commands \in [D -> Doable]
    BY <2>13 DEF A, ResolvedTo, Declared
  <2>15. so[m].look \in LookType /\ so[m].binds \in Seq(BindsOf(w))
    BY <2>13 DEF A, ResolvedTo
  <2> QED BY <1>2, <2>4, <2>14, <2>15
<1> QED BY <1>1, <1>2

-----------------------------------------------------------------------------
(* The seat's own chords.                                                  *)

\* A chord the seat binds itself: no way out, and a bare one only for a key that
\* is nobody's letter.
OwnModifiers == {{}, {"ctrl"}, {"super"}, {"alt"}, {"super", "shift"}, {"alt", "shift"}}
Letters == {"h", "j", "k", "l", "q", "f", "m", "t", "n", "s", "Left", "Right", "Up", "Down",
            "Tab", "Return", "Escape", "Space"}
OwnChord ==
    {c \in [modifiers : OwnModifiers, key : Letters \cup MediaKeys] :
        c.modifiers = {} => c.key \in MediaKeys}
Own == OwnChord \X Verbs

LEMMA DefaultListTyped ==
    ASSUME NEW logo \in {Logo, AltKey}, NEW floating \in BOOLEAN
    PROVE  DefaultList(logo, floating) \in Seq(Own)
<1> DEFINE shifted == logo \cup {"shift"}
           plain(key, v) == <<Chord(logo, key), v>>
           shift(key, v) == <<Chord(shifted, key), v>>
           letter(key, side) == <<plain(key, Focus[side]), shift(key, Resize[side])>>
           arrow(key, side) ==
               <<plain(key, IF floating THEN Snap[side] ELSE Focus[side]), shift(key, Resize[side])>>
           bare(key, v) == <<Chord({}, key), v>>
<1>1. logo \in OwnModifiers /\ shifted \in OwnModifiers /\ logo # {} /\ shifted # {}
  <2>1. logo = {"super"} \/ logo = {"alt"}
    BY DEF Logo, AltKey
  <2>2. {"super"} \cup {"shift"} = {"super", "shift"} /\ {"alt"} \cup {"shift"} = {"alt", "shift"}
    OBVIOUS
  <2>3. shifted \in {{"super", "shift"}, {"alt", "shift"}}
    BY <2>1, <2>2
  <2> HIDE DEF shifted
  <2> QED BY <2>1, <2>3 DEF OwnModifiers
<1>2. \A key \in Letters, v \in Verbs : plain(key, v) \in Own /\ shift(key, v) \in Own
  <2> HIDE DEF shifted
  <2> QED BY <1>1 DEF Own, OwnChord, Chord
<1>3. \A key \in MediaKeys, v \in Verbs : bare(key, v) \in Own
  BY DEF Own, OwnChord, Chord, OwnModifiers
<1>5. <<Chord({"ctrl"}, "Space"), "spawn-launcher">> \in Own
  <2>1. {"ctrl"} \in OwnModifiers /\ "Space" \in Letters /\ "spawn-launcher" \in Verbs
    BY DEF OwnModifiers, Letters, Verbs
  <2> QED BY <2>1 DEF Own, OwnChord, Chord
<1>6. \A side \in {"left", "right", "up", "down"} :
          Focus[side] \in Verbs /\ Resize[side] \in Verbs /\ Snap[side] \in Verbs
  BY DEF Verbs, Range, Focus, Resize, Snap
<1> HIDE DEF plain, shift, bare
<1>7. \A key \in Letters, side \in {"left", "right", "up", "down"} :
          letter(key, side) \in Seq(Own) /\ arrow(key, side) \in Seq(Own)
  BY <1>2, <1>6
<1> DEFINE some == <<plain("q", "close"),
                    plain("f", "toggle-maximize"), shift("f", "toggle-maximize"),
                    plain("m", "minimize"), shift("m", "restore-last"),
                    plain("Tab", "tab-next"), shift("Tab", "tab-prev"),
                    plain("t", "tab-join"), shift("t", "tab-leave"),
                    plain("Return", "spawn-terminal"),
                    <<Chord({"ctrl"}, "Space"), "spawn-launcher">>>>
           rest == <<plain("n", "dismiss-note"), plain("Escape", "lock"),
                    plain("Space", "next-layout"),
                    bare("PrintScreen", "screenshot"), shift("s", "screenshot"),
                    bare("VolumeUp", "volume-up"), bare("VolumeDown", "volume-down"),
                    bare("Mute", "mute"), bare("BrightnessUp", "brightness-up"),
                    bare("BrightnessDown", "brightness-down")>>
<1>8. some \in Seq(Own)
  <2>1. {"close", "toggle-maximize", "minimize", "restore-last", "tab-next", "tab-prev", "tab-join",
         "tab-leave", "spawn-terminal"} \subseteq Verbs
    BY DEF Verbs
  <2>2. /\ plain("q", "close") \in Own /\ plain("f", "toggle-maximize") \in Own
        /\ shift("f", "toggle-maximize") \in Own /\ plain("m", "minimize") \in Own
        /\ shift("m", "restore-last") \in Own /\ plain("Tab", "tab-next") \in Own
        /\ shift("Tab", "tab-prev") \in Own /\ plain("t", "tab-join") \in Own
        /\ shift("t", "tab-leave") \in Own /\ plain("Return", "spawn-terminal") \in Own
    BY <1>2, <2>1 DEF Letters
  <2> QED BY <1>5, <2>2
<1>9. rest \in Seq(Own)
  <2>1. {"dismiss-note", "lock", "next-layout", "screenshot", "volume-up", "volume-down", "mute",
         "brightness-up", "brightness-down"} \subseteq Verbs
    BY DEF Verbs
  <2>2. {"PrintScreen", "VolumeUp", "VolumeDown", "Mute", "BrightnessUp", "BrightnessDown"}
           \subseteq MediaKeys
    BY DEF MediaKeys
  <2>3. /\ plain("n", "dismiss-note") \in Own /\ plain("Escape", "lock") \in Own
        /\ plain("Space", "next-layout") \in Own /\ shift("s", "screenshot") \in Own
    BY <1>2, <2>1 DEF Letters
  <2>4. /\ bare("PrintScreen", "screenshot") \in Own /\ bare("VolumeUp", "volume-up") \in Own
        /\ bare("VolumeDown", "volume-down") \in Own /\ bare("Mute", "mute") \in Own
        /\ bare("BrightnessUp", "brightness-up") \in Own
        /\ bare("BrightnessDown", "brightness-down") \in Own
    BY <1>3, <2>1, <2>2
  <2> QED BY <2>3, <2>4
<1> HIDE DEF some, rest, letter, arrow
<1> DEFINE lists == <<letter("h", "left"), letter("j", "down"), letter("k", "up"),
                      letter("l", "right"), arrow("Left", "left"), arrow("Down", "down"),
                      arrow("Up", "up"), arrow("Right", "right"), some, rest>>
<1>10. lists \in Seq(Seq(Own))
  <2>1. /\ letter("h", "left") \in Seq(Own) /\ letter("j", "down") \in Seq(Own)
        /\ letter("k", "up") \in Seq(Own) /\ letter("l", "right") \in Seq(Own)
        /\ arrow("Left", "left") \in Seq(Own) /\ arrow("Down", "down") \in Seq(Own)
        /\ arrow("Up", "up") \in Seq(Own) /\ arrow("Right", "right") \in Seq(Own)
    BY <1>7 DEF Letters
  <2> DEFINE A == Seq(Own)
  <2>2. some \in A /\ rest \in A /\ letter("h", "left") \in A /\ letter("j", "down") \in A
        /\ letter("k", "up") \in A /\ letter("l", "right") \in A
        /\ arrow("Left", "left") \in A /\ arrow("Down", "down") \in A
        /\ arrow("Up", "up") \in A /\ arrow("Right", "right") \in A
    BY <1>8, <1>9, <2>1
  <2> HIDE DEF A
  <2>3. lists \in Seq(A)
    BY <2>2
  <2> QED BY <2>3 DEF A
<1>11. DefaultList(logo, floating) = Chained(lists)
  BY DEF DefaultList, lists, some, rest, letter, arrow, plain, shift, bare
<1> HIDE DEF lists
<1> QED BY <1>10, <1>11, ChainedTyped

LEMMA DefaultsAreAMap ==
    \A look : DefaultBindings(look) = [c \in DOMAIN DefaultBindings(look) |-> DefaultBindings(look)[c]]
<1> SUFFICES ASSUME NEW look
    PROVE  DefaultBindings(look) = [c \in DOMAIN DefaultBindings(look) |-> DefaultBindings(look)[c]]
  OBVIOUS
<1> DEFINE list == DefaultList(look.modifier, look.floating)
           chords == {list[i][1] : i \in DOMAIN list}
           deed(c) == Verb(list[CHOOSE i \in DOMAIN list :
                            list[i][1] = c /\ \A j \in 1..(i - 1) : list[j][1] # c][2])
<1>1. DefaultBindings(look) = [c \in chords |-> deed(c)]
  BY DEF DefaultBindings
<1> HIDE DEF chords, deed
<1> QED BY <1>1

\* A chord the seat binds itself stands for a verb of the list.
LEMMA DefaultsTyped ==
    ASSUME NEW look \in LookType, NEW c \in DOMAIN DefaultBindings(look)
    PROVE  \E v \in Verbs :
              /\ DefaultBindings(look)[c] = Verb(v)
              /\ <<c, v>> \in ToSet(DefaultList(look.modifier, look.floating))
              /\ c \notin Reserved /\ ~IsBareApplicationKey(c)
<1> DEFINE list == DefaultList(look.modifier, look.floating)
           T == {i \in DOMAIN list : list[i][1] = c}
           at == CHOOSE i \in DOMAIN list : list[i][1] = c /\ \A j \in 1..(i - 1) : list[j][1] # c
<1>1. list \in Seq(Own)
  BY DefaultListTyped DEF LookType
<1> HIDE DEF list
<1>2. c \in {list[i][1] : i \in DOMAIN list} /\ DefaultBindings(look)[c] = Verb(list[at][2])
  BY DEF DefaultBindings, list
<1>3. T # {} /\ T \in SUBSET Nat
  BY <1>1, <1>2
<1>4. PICK i \in T : \A j \in T : ~(j < i)
  BY <1>3, SmallestOf
<1>5. \A j \in 1..(i - 1) : j \in DOMAIN list /\ j < i
  BY <1>1, <1>4
<1>6. at \in DOMAIN list /\ list[at][1] = c
  BY <1>4, <1>5
<1> HIDE DEF at
<1>7. list[at] \in Own
  BY <1>1, <1>6
<1>8. list[at] = <<c, list[at][2]>> /\ c \in OwnChord /\ list[at][2] \in Verbs
  BY <1>6, <1>7 DEF Own
<1>9. <<c, list[at][2]>> \in ToSet(list)
  BY <1>6, <1>8 DEF ToSet
<1>10. c \notin Reserved /\ ~IsBareApplicationKey(c)
  BY <1>8, BindingsAssumption DEF OwnChord, OwnModifiers, IsBareApplicationKey
<1> QED BY <1>2, <1>8, <1>9, <1>10 DEF list

-----------------------------------------------------------------------------
(* A world's binds over them.                                              *)

\* A chord of the map is one of bs that stands, or one of the map before.
Over(m, map, bs, cs) ==
    \A c \in DOMAIN m :
        \/ c \in DOMAIN map /\ m[c] = map[c]
        \/ \E i \in DOMAIN bs :
              bs[i].chord = c /\ Stands(bs[i], cs) /\ m[c] = ActionDeed(bs[i].action, cs)

LEMMA PutOver ==
    ASSUME NEW m, NEW map, NEW bs, NEW cs, NEW i \in DOMAIN bs,
           Over(m, map, bs, cs), Stands(bs[i], cs)
    PROVE  Over(Put(m, bs[i].chord, ActionDeed(bs[i].action, cs)), map, bs, cs)
BY DEF Over, Put

LEMMA BoundOverHolds ==
    ASSUME NEW S, NEW bs \in Seq(S), NEW cs, NEW map,
           map = [c \in DOMAIN map |-> map[c]]
    PROVE  Over(BoundOver(map, bs, cs), map, bs, cs)
<1> DEFINE m == Len(bs)
           bound == DOMAIN map \cup {bs[i].chord : i \in 1..m}
           deeds == {map[c] : c \in DOMAIN map} \cup {ActionDeed(bs[i].action, cs) : i \in 1..m}
           A == UNION {[D -> deeds] : D \in SUBSET bound}
           next(x, n) == IF Stands(bs[n], cs) THEN Put(x, bs[n].chord, ActionDeed(bs[n].action, cs)) ELSE x
           Climbs(k) == k = [n \in 0..m |-> IF n = 0 THEN map
                ELSE IF Stands(bs[n], cs)
                     THEN Put(k[n - 1], bs[n].chord, ActionDeed(bs[n].action, cs)) ELSE k[n - 1]]
           step == [p \in A \X (1..m) |-> next(p[1], p[2])]
           over == CHOOSE k : Climbs(k)
<1>1. m \in Nat /\ DOMAIN bs = 1..m
  OBVIOUS
<1>2. map \in A
  <2>1. map \in [DOMAIN map -> deeds]
    OBVIOUS
  <2> QED BY <2>1
<1>3. \A x \in A, n \in 1..m : next(x, n) \in A
  <2> SUFFICES ASSUME NEW x \in A, NEW n \in 1..m PROVE next(x, n) \in A
    OBVIOUS
  <2>1. PICK D \in SUBSET bound : x \in [D -> deeds]
    OBVIOUS
  <2>2. bs[n].chord \in bound /\ ActionDeed(bs[n].action, cs) \in deeds
    OBVIOUS
  <2> HIDE DEF bound, deeds
  <2>3. Put(x, bs[n].chord, ActionDeed(bs[n].action, cs)) \in [(D \cup {bs[n].chord}) -> deeds]
    BY <2>1, <2>2 DEF Put
  <2>4. D \cup {bs[n].chord} \in SUBSET bound
    BY <2>1, <2>2
  <2> QED BY <2>3, <2>4
<1>4. BoundOver(map, bs, cs) = over[m]
  BY DEF BoundOver
<1> HIDE DEF A, m, next
<1>5. step \in [A \X (1..m) -> A] /\ \A x \in A, n \in 1..m : step[<<x, n>>] = next(x, n)
  BY <1>3
<1> HIDE DEF step
<1>6. PICK k \in [0..m -> A] : Unrolls(k, map, step, m)
  BY <1>1, <1>2, <1>5, UnrollExists
<1>7. Climbs(k)
  <2>1. \A n \in 0..m : n # 0 => n \in 1..m /\ k[n - 1] \in A
    BY <1>1
  <2>2. \A n \in 0..m : k[n] = IF n = 0 THEN map ELSE next(k[n - 1], n)
    BY <1>5, <1>6, <2>1 DEF Unrolls
  <2>3. k = [n \in 0..m |-> k[n]]
    OBVIOUS
  <2> QED BY <2>2, <2>3 DEF next
<1> HIDE DEF Climbs
<1>8. Climbs(over)
  BY <1>7
<1> HIDE DEF over
<1>9. \A n \in 0..m : over[n] = IF n = 0 THEN map
          ELSE IF Stands(bs[n], cs)
               THEN Put(over[n - 1], bs[n].chord, ActionDeed(bs[n].action, cs)) ELSE over[n - 1]
  BY <1>8 DEF Climbs
<1> DEFINE G == {n \in 0..m : Over(over[n], map, bs, cs)}
<1>10. 0 \in G
  <2>1. Over(map, map, bs, cs)
    BY DEF Over
  <2>2. over[0] = map /\ 0 \in 0..m
    BY <1>1, <1>9
  <2> QED BY <2>1, <2>2
<1>11. ASSUME NEW n \in 0..m, n # m, n \in G PROVE n + 1 \in G
  <2>1. n + 1 \in DOMAIN bs /\ n + 1 \in 0..m /\ n + 1 # 0 /\ (n + 1) - 1 = n
    BY <1>1, <1>11
  <2>2. over[n + 1] = IF Stands(bs[n + 1], cs)
                      THEN Put(over[n], bs[n + 1].chord, ActionDeed(bs[n + 1].action, cs)) ELSE over[n]
    BY <1>9, <2>1
  <2>3. Over(over[n], map, bs, cs)
    BY <1>11
  <2>4. Over(over[n + 1], map, bs, cs)
    BY <2>1, <2>2, <2>3, PutOver
  <2> QED BY <2>1, <2>4
<1> HIDE DEF G
<1>12. 0..m \subseteq G
  BY <1>1, <1>10, <1>11, UpTo
<1>13. m \in G
  BY <1>1, <1>12
<1> QED BY <1>4, <1>13 DEF G

-----------------------------------------------------------------------------
(* The invariant.                                                          *)

\* A chord stands for a verb, or for a command of the standing world.
ChordsTyped ==
    \A c \in DOMAIN bindings :
        \/ bindings[c].verb \in Verbs
        \/ \E n \in DOMAIN worldCommands : bindings[c] = ByName(n)

\* A name that may run behind the lock is the action of a bind that stands.
FlagsAreBound ==
    \A name \in behindLock : \E i \in DOMAIN binds :
        /\ binds[i].locked /\ binds[i].action = name
        /\ Stands(binds[i], worldCommands)

\* What waits to be performed is a verb or a command.
AskedTyped == pendingDeeds = <<>> \/ \E d : pendingDeeds = <<d>> /\ d.verb \in Verbs \cup {"command"}

BindInv ==
    /\ seatLook \in LookType
    /\ \E D : worldCommands \in [D -> Doable]
    /\ ChordsTyped /\ BindingsAreOfThisWorld /\ FlagsAreBound /\ AskedTyped

\* No world declares a command under a verb's name.
NoCommandIsAVerb ==
    \A w \in WorldFiles : w.state = "judged" =>
        \A i \in DOMAIN w.entries :
            w.entries[i].entry = "command" => Dashed(w.entries[i].name) \notin Verbs

\* Then the standing one does not either.
NamesAreFree == \A name \in DOMAIN worldCommands : Dashed(name) \notin Verbs

LEMMA BindInitHolds == BindingsInit => BindInv /\ NamesAreFree
<1> SUFFICES ASSUME BindingsInit PROVE BindInv /\ NamesAreFree
  OBVIOUS
<1>1. seatLook \in LookType
  BY DEF BindingsInit, NoWorldYet, LookType
<1>2. worldCommands \in [{} -> Doable] /\ NamesAreFree
  BY DEF BindingsInit, NamesAreFree
<1>3. \A c \in DOMAIN bindings : \E v \in Verbs :
          /\ bindings[c] = Verb(v)
          /\ <<c, v>> \in ToSet(DefaultList(seatLook.modifier, seatLook.floating))
          /\ c \notin Reserved /\ ~IsBareApplicationKey(c)
  <2>1. \A look \in LookType : \A c \in DOMAIN DefaultBindings(look) : \E v \in Verbs :
          /\ DefaultBindings(look)[c] = Verb(v)
          /\ <<c, v>> \in ToSet(DefaultList(look.modifier, look.floating))
          /\ c \notin Reserved /\ ~IsBareApplicationKey(c)
    BY DefaultsTyped
  <2>2. bindings = DefaultBindings(seatLook)
    BY DEF BindingsInit
  <2> QED BY <1>1, <2>1, <2>2
<1>4. \A c \in DOMAIN bindings :
          /\ bindings[c].verb \in Verbs /\ bindings[c].verb # "command"
          /\ <<c, bindings[c].verb>> \in ToSet(DefaultList(seatLook.modifier, seatLook.floating))
  <2> SUFFICES ASSUME NEW c \in DOMAIN bindings
      PROVE  /\ bindings[c].verb \in Verbs /\ bindings[c].verb # "command"
             /\ <<c, bindings[c].verb>> \in ToSet(DefaultList(seatLook.modifier, seatLook.floating))
    OBVIOUS
  <2>1. PICK v \in Verbs :
            /\ bindings[c] = Verb(v)
            /\ <<c, v>> \in ToSet(DefaultList(seatLook.modifier, seatLook.floating))
    BY <1>3
  <2>2. bindings[c].verb = v
    BY <2>1 DEF Verb
  <2> QED BY <2>1, <2>2, VerbsAreNoCommands
<1>6. ChordsTyped /\ BindingsAreOfThisWorld
  BY <1>3, <1>4 DEF ChordsTyped, BindingsAreOfThisWorld
<1>5. FlagsAreBound /\ AskedTyped
  BY DEF BindingsInit, FlagsAreBound, AskedTyped
<1> QED BY <1>1, <1>2, <1>5, <1>6 DEF BindInv

\* A world that is adopted.
LEMMA AdoptKeeps ==
    ASSUME BindInv, NEW w \in WorldFiles, AdoptWorldBindings(w)
    PROVE  BindInv' /\ (NoCommandIsAVerb /\ NamesAreFree => NamesAreFree')
<1>1. CASE UNCHANGED <<worldCommands, binds, seatLook, bindings, behindLock>>
  BY <1>1 DEF AdoptWorldBindings, BindInv, ChordsTyped, BindingsAreOfThisWorld, FlagsAreBound,
              AskedTyped, NamesAreFree
<1>2. CASE ~UNCHANGED <<worldCommands, binds, seatLook, bindings, behindLock>>
  <2> DEFINE r == Resolved(w)
  <2>1. /\ worldCommands' = r.commands /\ binds' = r.binds /\ seatLook' = r.look
        /\ bindings' = BoundOver(DefaultBindings(r.look), r.binds, r.commands)
        /\ behindLock' = Flags(r.binds, r.commands)
        /\ UNCHANGED pendingDeeds
    BY <1>2 DEF AdoptWorldBindings, Rebuild
  <2>2. PICK D, S : /\ r.look \in LookType /\ r.binds \in Seq(S) /\ r.commands \in [D -> Doable]
                    /\ D = {} \/ (w.state = "judged" /\ D \subseteq NamesOf(w))
    BY ResolvedTyped
  <2> HIDE DEF r
  <2> DEFINE own == DefaultBindings(r.look)
  <2>3. Over(bindings', own, r.binds, r.commands)
    <3>1. \A cs, map : \A bs \in Seq(S) :
              map = [c \in DOMAIN map |-> map[c]] => Over(BoundOver(map, bs, cs), map, bs, cs)
      BY BoundOverHolds
    <3>2. own = [c \in DOMAIN own |-> own[c]]
      BY DefaultsAreAMap DEF own
    <3>3. bindings' = BoundOver(own, r.binds, r.commands)
      BY <2>1 DEF own
    <3>4. Over(BoundOver(own, r.binds, r.commands), own, r.binds, r.commands)
      BY <2>2, <3>1, <3>2
    <3> QED BY <3>3, <3>4
  <2>4. \A c \in DOMAIN own : \E v \in Verbs :
          /\ own[c] = Verb(v)
          /\ <<c, v>> \in ToSet(DefaultList(r.look.modifier, r.look.floating))
          /\ c \notin Reserved /\ ~IsBareApplicationKey(c)
    <3>1. \A look \in LookType : \A c \in DOMAIN DefaultBindings(look) : \E v \in Verbs :
            /\ DefaultBindings(look)[c] = Verb(v)
            /\ <<c, v>> \in ToSet(DefaultList(look.modifier, look.floating))
            /\ c \notin Reserved /\ ~IsBareApplicationKey(c)
      BY DefaultsTyped
    <3> QED BY <2>2, <3>1
  <2> HIDE DEF own
  <2>5. \A c \in DOMAIN bindings' :
          /\ c \notin Reserved /\ ~IsBareApplicationKey(c)
          /\ \/ \E v \in Verbs :
                   bindings'[c] = Verb(v)
                   /\ <<c, v>> \in ToSet(DefaultList(r.look.modifier, r.look.floating))
             \/ \E i \in DOMAIN r.binds :
                   r.binds[i].chord = c
                   /\ \/ \E v \in Verbs : bindings'[c] = Verb(v)
                      \/ \E n \in DOMAIN r.commands : bindings'[c] = ByName(n)
    <3> SUFFICES ASSUME NEW c \in DOMAIN bindings'
        PROVE  /\ c \notin Reserved /\ ~IsBareApplicationKey(c)
               /\ \/ \E v \in Verbs :
                        bindings'[c] = Verb(v)
                        /\ <<c, v>> \in ToSet(DefaultList(r.look.modifier, r.look.floating))
                  \/ \E i \in DOMAIN r.binds :
                        r.binds[i].chord = c
                        /\ \/ \E v \in Verbs : bindings'[c] = Verb(v)
                           \/ \E n \in DOMAIN r.commands : bindings'[c] = ByName(n)
      OBVIOUS
    <3>1. CASE c \in DOMAIN own /\ bindings'[c] = own[c]
      BY <2>4, <3>1
    <3>2. ASSUME NEW i \in DOMAIN r.binds, r.binds[i].chord = c, Stands(r.binds[i], r.commands),
                 bindings'[c] = ActionDeed(r.binds[i].action, r.commands)
          PROVE  /\ c \notin Reserved /\ ~IsBareApplicationKey(c)
                 /\ \/ \E v \in Verbs : bindings'[c] = Verb(v)
                    \/ \E n \in DOMAIN r.commands : bindings'[c] = ByName(n)
      BY <3>2 DEF Stands, ActionDeed
    <3> QED BY <2>3, <3>1, <3>2 DEF Over
  <2> DEFINE map == bindings'
  <2>6. \A c \in DOMAIN map :
          \/ /\ map[c].verb \in Verbs /\ map[c].verb # "command"
             /\ \/ <<c, map[c].verb>> \in ToSet(DefaultList(r.look.modifier, r.look.floating))
                \/ \E i \in DOMAIN r.binds : r.binds[i].chord = c
          \/ \E i \in DOMAIN r.binds, n \in DOMAIN r.commands :
                r.binds[i].chord = c /\ map[c] = ByName(n) /\ map[c].name = n
    <3>1. \A v \in Verbs : v # "command" /\ Verb(v).verb = v
      BY VerbsAreNoCommands DEF Verb
    <3>2. \A n : ByName(n).name = n
      BY DEF ByName
    <3> HIDE DEF map
    <3>3. \A c \in DOMAIN map :
            \/ \E v \in Verbs :
                 map[c] = Verb(v)
                 /\ <<c, v>> \in ToSet(DefaultList(r.look.modifier, r.look.floating))
            \/ \E i \in DOMAIN r.binds :
                 r.binds[i].chord = c
                 /\ \/ \E v \in Verbs : map[c] = Verb(v)
                    \/ \E n \in DOMAIN r.commands : map[c] = ByName(n)
      BY <2>5 DEF map
    <3> SUFFICES ASSUME NEW c \in DOMAIN map
        PROVE  \/ /\ map[c].verb \in Verbs /\ map[c].verb # "command"
                  /\ \/ <<c, map[c].verb>> \in ToSet(DefaultList(r.look.modifier, r.look.floating))
                     \/ \E i \in DOMAIN r.binds : r.binds[i].chord = c
               \/ \E i \in DOMAIN r.binds, n \in DOMAIN r.commands :
                     r.binds[i].chord = c /\ map[c] = ByName(n) /\ map[c].name = n
      OBVIOUS
    <3>4. CASE \E v \in Verbs :
                 map[c] = Verb(v)
                 /\ <<c, v>> \in ToSet(DefaultList(r.look.modifier, r.look.floating))
      BY <3>1, <3>4
    <3>5. ASSUME NEW i \in DOMAIN r.binds, r.binds[i].chord = c, NEW v \in Verbs, map[c] = Verb(v)
          PROVE  map[c].verb \in Verbs /\ map[c].verb # "command"
      BY <3>1, <3>5
    <3>6. ASSUME NEW i \in DOMAIN r.binds, r.binds[i].chord = c,
                 NEW n \in DOMAIN r.commands, map[c] = ByName(n)
          PROVE  map[c].name = n
      BY <3>2, <3>6
    <3> QED BY <3>3, <3>4, <3>5, <3>6
  <2>7. ChordsTyped' /\ BindingsAreOfThisWorld'
    <3>1. \A c \in DOMAIN map : map[c].verb \in Verbs \/ \E n \in DOMAIN r.commands : map[c] = ByName(n)
      BY <2>6
    <3>2. \A c \in DOMAIN map : map[c].verb = "command" => map[c].name \in DOMAIN r.commands
      BY <2>6
    <3>3. \A c \in DOMAIN map :
              \/ \E i \in DOMAIN r.binds : r.binds[i].chord = c
              \/ <<c, map[c].verb>> \in ToSet(DefaultList(r.look.modifier, r.look.floating))
      BY <2>6
    <3>4. \A c \in DOMAIN map : c \notin Reserved /\ ~IsBareApplicationKey(c)
      BY <2>5
    <3>5. ChordsTyped'
      BY <2>1, <3>1 DEF ChordsTyped
    <3>6. BindingsAreOfThisWorld'
      BY <2>1, <3>2, <3>3, <3>4 DEF BindingsAreOfThisWorld
    <3> QED BY <3>5, <3>6
  <2>8. FlagsAreBound'
    BY <2>1 DEF FlagsAreBound, Flags
  <2>9. AskedTyped' /\ seatLook' \in LookType /\ worldCommands' \in [D -> Doable]
    BY <2>1, <2>2 DEF BindInv, AskedTyped
  <2>10. ASSUME NoCommandIsAVerb PROVE NamesAreFree'
    BY <2>1, <2>2, <2>10 DEF NoCommandIsAVerb, NamesAreFree, NamesOf
  <2> QED BY <2>7, <2>8, <2>9, <2>10 DEF BindInv
<1> QED BY <1>1, <1>2

LEMMA BindStep ==
    ASSUME BindInv, [BindingsNext]_bindingVars
    PROVE  BindInv' /\ (NoCommandIsAVerb /\ NamesAreFree => NamesAreFree')
<1>1. CASE \E w \in WorldFiles : AdoptWorldBindings(w)
  BY <1>1, AdoptKeeps
<1>2. CASE UNCHANGED <<worldCommands, binds, seatLook, bindings, behindLock>>
  <2>1. AskedTyped => AskedTyped'
    <3>1. CASE \E w \in WorldFiles : AdoptWorldBindings(w)
      BY <3>1 DEF AdoptWorldBindings, AskedTyped
    <3>2. CASE \E c \in DOMAIN bindings : PressChord(c)
      BY <3>2 DEF PressChord, AskedTyped
    <3>3. CASE \E deed \in Asked : AskDeed(deed)
      BY <3>3 DEF AskDeed, AskedTyped
    <3>4. CASE DrainDeeds
      BY <3>4 DEF DrainDeeds, AskedTyped
    <3>5. CASE ShutOrOpen \/ UNCHANGED bindingVars
      BY <3>5 DEF ShutOrOpen, bindingVars, AskedTyped
    <3> QED BY <3>1, <3>2, <3>3, <3>4, <3>5 DEF BindingsNext
  <2> QED BY <1>2, <2>1 DEF BindInv, ChordsTyped, BindingsAreOfThisWorld, FlagsAreBound, NamesAreFree
<1>3. CASE ~(\E w \in WorldFiles : AdoptWorldBindings(w))
  <2>1. UNCHANGED <<worldCommands, binds, seatLook, bindings, behindLock>>
    BY <1>3 DEF BindingsNext, PressChord, AskDeed, DrainDeeds, ShutOrOpen, bindingVars
  <2> QED BY <1>2, <2>1
<1> QED BY <1>1, <1>3

-----------------------------------------------------------------------------
(* Behind the lock.                                                        *)

\* A deed the standing world flagged, or one that always may.
FlaggedOrFree(deed) ==
    \/ deed.verb \in AlwaysRuns
    \/ \E i \in DOMAIN binds : binds[i].locked /\ ActionDeed(binds[i].action, worldCommands) = deed

LEMMA VerbIsFlagged ==
    ASSUME BindInv, isShut, NEW v \in Verbs, PerformVerb(v) # NoDeed
    PROVE  FlaggedOrFree(PerformVerb(v))
<1>1. PerformVerb(v) = Verb(v) /\ RunsBehindLock(Verb(v))
  BY DEF PerformVerb
<1>2. v # "command" /\ Verb(v).verb = v
  BY VerbsAreNoCommands DEF Verb
<1>3. CASE v \in AlwaysRuns
  BY <1>1, <1>2, <1>3 DEF FlaggedOrFree
<1>4. ASSUME NEW name \in behindLock, Dashed(name) = v PROVE FlaggedOrFree(PerformVerb(v))
  <2>1. PICK i \in DOMAIN binds : binds[i].locked /\ binds[i].action = name
    BY DEF BindInv, FlagsAreBound
  <2>2. ActionDeed(name, worldCommands) = Verb(v)
    BY <1>4 DEF ActionDeed
  <2> QED BY <1>1, <2>1, <2>2 DEF FlaggedOrFree
<1> QED BY <1>1, <1>2, <1>3, <1>4 DEF RunsBehindLock

LEMMA DeedIsFlagged ==
    ASSUME BindInv, NamesAreFree, isShut, NEW deed, deed.verb \in Verbs \cup {"command"},
           Perform(deed) # NoDeed
    PROVE  FlaggedOrFree(Perform(deed))
<1>1. CASE deed.verb # "command"
  BY <1>1, VerbIsFlagged DEF Perform
<1>2. CASE deed.verb = "command"
  <2>1. /\ deed.name \in DOMAIN worldCommands /\ deed.name \in behindLock
        /\ Perform(deed) = PerformCommand(deed.name)
    BY <1>2 DEF Perform, RunsBehindLock
  <2>2. worldCommands[deed.name] \in Doable
    BY <2>1 DEF BindInv
  <2>3. CASE worldCommands[deed.name].does = "deed"
    <3>1. worldCommands[deed.name].verb \in Verbs
      BY <2>2 DEF Doable
    <3>2. Perform(deed) = PerformVerb(worldCommands[deed.name].verb)
      BY <2>1, <2>3 DEF PerformCommand
    <3> QED BY <3>1, <3>2, VerbIsFlagged
  <2>4. CASE worldCommands[deed.name].does # "deed"
    <3>1. Perform(deed) = ByName(deed.name)
      BY <2>1, <2>4 DEF PerformCommand
    <3>2. PICK i \in DOMAIN binds : binds[i].locked /\ binds[i].action = deed.name
      BY <2>1 DEF BindInv, FlagsAreBound
    <3>3. ActionDeed(deed.name, worldCommands) = ByName(deed.name)
      BY <2>1 DEF ActionDeed, NamesAreFree
    <3> QED BY <3>1, <3>2, <3>3 DEF FlaggedOrFree
  <2> QED BY <2>3, <2>4
<1> QED BY <1>1, <1>2

LEMMA OnlyFlaggedStep ==
    ASSUME BindInv, NamesAreFree, [BindingsNext]_bindingVars, isShut, lastDeed' # lastDeed,
           lastDeed' # NoDeed
    PROVE  FlaggedOrFree(lastDeed')
<1>1. ASSUME NEW c \in DOMAIN bindings, PressChord(c) PROVE FlaggedOrFree(lastDeed')
  <2>1. bindings[c].verb \in Verbs \cup {"command"}
    BY DEF BindInv, ChordsTyped, ByName
  <2>2. lastDeed' = Perform(bindings[c])
    BY <1>1 DEF PressChord
  <2> QED BY <2>1, <2>2, DeedIsFlagged
<1>2. CASE DrainDeeds
  <2>1. lastDeed' = Perform(Head(pendingDeeds)) /\ Head(pendingDeeds).verb \in Verbs \cup {"command"}
    BY <1>2 DEF DrainDeeds, BindInv, AskedTyped
  <2> QED BY <2>1, DeedIsFlagged
<1>3. CASE UNCHANGED lastDeed
  BY <1>3
<1> QED BY <1>1, <1>2, <1>3 DEF BindingsNext, AdoptWorldBindings, AskDeed, ShutOrOpen, bindingVars

\* No sequence of worlds, with anything in them, binds a chord of the way out, a
\* letter of the applications or a command nobody declares, and none leaves a
\* chord behind (deed.rs, world_bindings).
THEOREM ChordsAlwaysOfThisWorld == BindingsSpec => []BindingsAreOfThisWorld
<1>1. BindingsInit => BindInv
  BY BindInitHolds
<1>2. BindInv /\ [BindingsNext]_bindingVars => BindInv'
  BY BindStep
<1>3. BindInv => BindingsAreOfThisWorld
  BY DEF BindInv
<1> QED BY <1>1, <1>2, <1>3, PTL DEF BindingsSpec

\* Behind the lock no more is done than the standing world flagged, unless a
\* world declares a command under a verb's name: a bind that flags the verb then
\* flags the command (deed.rs, runs_behind_lock).
THEOREM BindingsAlwaysHold == NoCommandIsAVerb => (BindingsSpec => BindingsHold)
<1> SUFFICES ASSUME NoCommandIsAVerb PROVE BindingsSpec => BindingsHold
  OBVIOUS
<1> DEFINE Inv == BindInv /\ NamesAreFree
<1>1. BindingsInit => Inv
  BY BindInitHolds
<1>2. Inv /\ [BindingsNext]_bindingVars => Inv'
  BY BindStep
<1>3. Inv /\ [BindingsNext]_bindingVars =>
          [isShut /\ lastDeed' # lastDeed /\ lastDeed' # NoDeed =>
              \/ lastDeed'.verb \in AlwaysRuns
              \/ \E i \in DOMAIN binds :
                    /\ binds[i].locked
                    /\ ActionDeed(binds[i].action, worldCommands) = lastDeed']_bindingVars
  BY OnlyFlaggedStep DEF FlaggedOrFree
<1> QED BY <1>1, <1>2, <1>3, ChordsAlwaysOfThisWorld, PTL DEF BindingsSpec, BindingsHold, OnlyFlaggedRuns

-----------------------------------------------------------------------------
(* Tiling: the paths of a tree.                                            *)

Turn == {1, 2}
Path == Seq(Turn)
To(p, i) == p \o <<i>>

\* What a path is below, and what is left of it from there.
LEMMA PathsBelow ==
    \A q, s \in Path :
        /\ SubSeq(q \o s, Len(q) + 1, Len(q \o s)) = s /\ SubSeq(q \o s, 1, Len(q)) = q
        /\ IsPrefix(q, q \o s)
<1> SUFFICES ASSUME NEW q \in Path, NEW s \in Path
             PROVE  /\ SubSeq(q \o s, Len(q) + 1, Len(q \o s)) = s /\ SubSeq(q \o s, 1, Len(q)) = q
                    /\ IsPrefix(q, q \o s)
  OBVIOUS
<1> DEFINE t == q \o s
           a == SubSeq(t, Len(q) + 1, Len(t))
           b == SubSeq(t, 1, Len(q))
<1>1. /\ t \in Seq(Turn) /\ Len(t) = Len(q) + Len(s) /\ Len(q) \in Nat /\ Len(s) \in Nat
      /\ q \in Seq(Turn) /\ s \in Seq(Turn)
  BY DEF Path
<1>2. /\ \A k \in 1..Len(q) : t[k] = q[k]
      /\ \A k \in 1..Len(s) : t[Len(q) + k] = s[k]
  BY <1>1
<1> HIDE DEF t
<1>3. /\ a \in Seq(Turn) /\ Len(a) = Len(s) /\ \A k \in 1..Len(s) : a[k] = t[Len(q) + k]
  BY <1>1
<1>4. a = s
  BY <1>1, <1>2, <1>3, SeqEqual
<1>5. /\ b \in Seq(Turn) /\ Len(b) = Len(q) /\ \A k \in 1..Len(q) : b[k] = t[k]
  BY <1>1
<1>6. b = q
  BY <1>1, <1>2, <1>5, SeqEqual
<1>7. SubSeq(q, 1, Len(q)) = q
  BY <1>1, SubSeqFull
<1> QED BY <1>1, <1>4, <1>6, <1>7 DEF IsPrefix, t

\* Paths one after the other.
LEMMA PathsType == <<>> \in Path /\ Len(<<>>) = 0 /\ \A p \in Path : Len(p) \in Nat /\ (p # <<>> => Len(p) > 0)
  BY EmptySeq DEF Path

LEMMA PathsJoin == \A p, q \in Path : p \o q \in Path /\ Len(p \o q) = Len(p) + Len(q)
  BY DEF Path

LEMMA PathsAssociate == \A p, q, r \in Path : (p \o q) \o r = p \o (q \o r)
<1> SUFFICES ASSUME NEW p \in Path, NEW q \in Path, NEW r \in Path
             PROVE  (p \o q) \o r = p \o (q \o r)
  OBVIOUS
<1> QED BY ConcatAssociative DEF Path

LEMMA PathsNone == \A p \in Path : p \o <<>> = p /\ <<>> \o p = p
  BY ConcatEmptySeq DEF Path

LEMMA PathsCancel ==
    \A p, q, r \in Path : p \o q = p \o r => q = r
<1> SUFFICES ASSUME NEW p \in Path, NEW q \in Path, NEW r \in Path, p \o q = p \o r PROVE q = r
  OBVIOUS
<1>1. /\ SubSeq(p \o q, Len(p) + 1, Len(p \o q)) = q
      /\ SubSeq(p \o r, Len(p) + 1, Len(p \o r)) = r
  BY PathsBelow
<1> QED BY <1>1

\* One more step.
LEMMA StepType ==
    \A p \in Path, i \in Turn :
        To(p, i) \in Path /\ To(p, i) # <<>> /\ Len(To(p, i)) = Len(p) + 1 /\ <<i>> \in Path
<1>1. \A p \in Path, i \in Turn :
        /\ <<i>> \in Path /\ To(p, i) \in Path
        /\ Len(To(p, i)) = Len(p) + 1 /\ Len(p) \in Nat
  BY DEF Path, To
<1>2. \A p \in Path, i \in Turn : To(p, i) # <<>>
  <2> SUFFICES ASSUME NEW p \in Path, NEW i \in Turn, To(p, i) = <<>> PROVE FALSE
    OBVIOUS
  <2>1. Len(To(p, i)) = Len(p) + 1 /\ Len(p) \in Nat
    BY <1>1
  <2>2. Len(To(p, i)) = 0
    BY PathsType
  <2> QED BY <2>1, <2>2
<1> QED BY <1>1, <1>2

LEMMA StepEnds == \A p \in Path, i \in Turn : Front(To(p, i)) = p /\ Last(To(p, i)) = i
<1> SUFFICES ASSUME NEW p \in Path, NEW i \in Turn
             PROVE  Front(To(p, i)) = p /\ Last(To(p, i)) = i
  OBVIOUS
<1>1. /\ <<i>> \in Path /\ p \o <<i>> \in Path /\ Len(p \o <<i>>) = Len(p) + 1 /\ Len(p) \in Nat
  BY StepType, PathsType DEF To
<1>2. Last(p \o <<i>>) = i
  BY <1>1 DEF Last, Path
<1>3. SubSeq(p \o <<i>>, 1, Len(p)) = p /\ Len(p \o <<i>>) - 1 = Len(p)
  BY <1>1, PathsBelow
<1> QED BY <1>2, <1>3 DEF Front, To

LEMMA StepsCancel ==
    \A a, b \in Path, k, l \in Turn : To(a, k) = To(b, l) => a = b /\ k = l
<1> SUFFICES ASSUME NEW a \in Path, NEW b \in Path, NEW k \in Turn, NEW l \in Turn,
                    To(a, k) = To(b, l)
             PROVE  a = b /\ k = l
  OBVIOUS
<1> QED BY StepEnds, Zenon

LEMMA StepsJoin == \A q, p \in Path, i \in Turn : q \o To(p, i) = To(q \o p, i)
<1> SUFFICES ASSUME NEW q \in Path, NEW p \in Path, NEW i \in Turn
             PROVE  q \o To(p, i) = To(q \o p, i)
  OBVIOUS
<1>1. <<i>> \in Path
  BY StepType
<1>2. (q \o p) \o <<i>> = q \o (p \o <<i>>)
  BY <1>1, PathsAssociate
<1> QED BY <1>2 DEF To

\* A path that leads somewhere has a last step and a first one.
LEMMA PathsSplit ==
    \A p \in Path : p # <<>> => \E u \in Path, i \in Turn : p = To(u, i)
<1> SUFFICES ASSUME NEW p \in Path, p # <<>> PROVE \E u \in Path, i \in Turn : p = To(u, i)
  OBVIOUS
<1>1. PICK u \in Path, i \in Turn : p = Append(u, i)
  BY SequenceEmptyOrAppend DEF Path
<1>2. p = To(u, i)
  BY <1>1, AppendIsConcat DEF Path, To
<1> QED BY <1>2

LEMMA PrefixIs == \A q, t \in Path : IsPrefix(q, t) <=> \E s \in Path : t = q \o s
<1> SUFFICES ASSUME NEW q \in Path, NEW t \in Path, IsPrefix(q, t) PROVE \E s \in Path : t = q \o s
  BY PathsBelow
<1> DEFINE s == SubSeq(t, Len(q) + 1, Len(t))
<1>1. /\ q \in Seq(Turn) /\ t \in Seq(Turn) /\ Len(q) \in Nat /\ Len(t) \in Nat
      /\ Len(q) <= Len(t)
  BY DEF Path, IsPrefix
<1>2. SubSeq(t, 1, Len(q)) = q
  BY <1>1, SubSeqFull DEF IsPrefix
<1>3. s \in Path
  BY <1>1 DEF Path
<1>4. q \o s = SubSeq(t, 1, Len(t))
  BY <1>1, <1>2, ConcatAdjacentSubSeq
<1>5. q \o s = t
  BY <1>1, <1>4, SubSeqFull
<1> QED BY <1>3, <1>5

\* A step further down is below, or it is the first step there.
Under(u, i, q, s) ==
    \/ s = <<>> /\ q = To(u, i)
    \/ \E s1 \in Path : s = To(s1, i) /\ u = q \o s1

LEMMA BelowOrAt ==
    ASSUME NEW u \in Path, NEW q \in Path, NEW s \in Path, NEW i \in Turn, To(u, i) = q \o s
    PROVE  Under(u, i, q, s)
<1>1. CASE s = <<>>
  BY <1>1, PathsNone DEF Under
<1>2. CASE s # <<>>
  <2>1. PICK s1 \in Path, j \in Turn : s = To(s1, j)
    BY <1>2, PathsSplit
  <2>2. q \o s = To(q \o s1, j) /\ q \o s1 \in Path
    BY <2>1, PathsJoin, StepsJoin
  <2>3. u = q \o s1 /\ i = j
    <3>1. PICK w \in Path : w = q \o s1 /\ To(u, i) = To(w, j)
      BY <2>2
    <3>2. j \in Turn /\ w \in Path /\ To(u, i) = To(w, j)
      BY <2>1, <3>1
    <3>3. u = w /\ i = j
      BY <3>2, StepsCancel
    <3> QED BY <3>1, <3>3
  <2> QED BY <2>1, <2>3 DEF Under
<1> QED BY <1>1, <1>2

\* What is below a node is on one of its sides.
LEMMA PathsBegin ==
    ASSUME NEW r \in Path, NEW s \in Path, s # <<>>
    PROVE  \E k \in Turn, v \in Path : r \o s = To(r, k) \o v
<1>1. /\ s \in Seq(Turn) /\ Len(s) \in Nat /\ Len(s) > 0
  BY PathsType DEF Path
<1> DEFINE k == s[1]
           v == SubSeq(s, 2, Len(s))
<1>2. k \in Turn /\ v \in Path
  BY <1>1 DEF Path
<1>3. s = <<k>> \o v
  <2>1. SubSeq(s, 1, Len(s)) = <<s[1]>> \o SubSeq(s, 1 + 1, Len(s))
    <3>1. 1 \in 1..Len(s) /\ Len(s) \in 1..Len(s)
      BY <1>1
    <3> QED BY <1>1, <3>1, SubSeqRecursiveFirst
  <2>2. SubSeq(s, 1, Len(s)) = s
    BY <1>1, SubSeqFull
  <2> QED BY <2>1, <2>2
<1> HIDE DEF k, v
<1>4. r \o s = (r \o <<k>>) \o v
  <2>1. <<k>> \in Path
    BY <1>2, StepType
  <2> QED BY <1>2, <1>3, <2>1, PathsAssociate
<1> QED BY <1>2, <1>4 DEF To

\* Two paths take another turn somewhere.
Parted(p, q) ==
    \E u, s, t \in Path, i, j \in Turn : i # j /\ p = To(u, i) \o s /\ q = To(u, j) \o t

\* Two paths part, or one leads on from the other.
LEMMA PathsPart ==
    ASSUME NEW p \in Path, NEW q \in Path
    PROVE  \/ \E s \in Path : p = q \o s \/ q = p \o s
           \/ Parted(p, q)
<1>1. /\ p \in Seq(Turn) /\ q \in Seq(Turn) /\ Len(p) \in Nat /\ Len(q) \in Nat
      /\ DOMAIN p = 1..Len(p) /\ DOMAIN q = 1..Len(q)
  BY DEF Path
<1> DEFINE T == {n \in Nat : n \in 1..Len(p) /\ n \in 1..Len(q) /\ p[n] # q[n]}
<1>2. CASE T = {}
  <2>1. CASE Len(p) <= Len(q)
    <3>1. /\ SubSeq(q, 1, Len(p)) \in Seq(Turn) /\ Len(SubSeq(q, 1, Len(p))) = Len(p)
          /\ \A k \in 1..Len(p) : SubSeq(q, 1, Len(p))[k] = q[k]
      BY <1>1, <2>1
    <3>2. \A k \in 1..Len(p) : q[k] = p[k]
      BY <1>1, <1>2, <2>1
    <3>3. SubSeq(q, 1, Len(p)) = p
      BY <1>1, <3>1, <3>2, SeqEqual
    <3>4. IsPrefix(p, q)
      BY <1>1, <2>1, <3>3, SubSeqFull DEF IsPrefix
    <3> QED BY <3>4, PrefixIs
  <2>2. CASE Len(q) <= Len(p)
    <3>1. /\ SubSeq(p, 1, Len(q)) \in Seq(Turn) /\ Len(SubSeq(p, 1, Len(q))) = Len(q)
          /\ \A k \in 1..Len(q) : SubSeq(p, 1, Len(q))[k] = p[k]
      BY <1>1, <2>2
    <3>2. \A k \in 1..Len(q) : p[k] = q[k]
      BY <1>1, <1>2, <2>2
    <3>3. SubSeq(p, 1, Len(q)) = q
      BY <1>1, <3>1, <3>2, SeqEqual
    <3>4. IsPrefix(q, p)
      BY <1>1, <2>2, <3>3, SubSeqFull DEF IsPrefix
    <3> QED BY <3>4, PrefixIs
  <2>3. Len(p) <= Len(q) \/ Len(q) <= Len(p)
    BY <1>1
  <2> QED BY <2>1, <2>2, <2>3
<1>3. CASE T # {}
  <2>1. PICK n \in T : \A m \in T : ~(m < n)
    BY <1>3, SmallestOf
  <2> DEFINE u == SubSeq(p, 1, n - 1)
             s == SubSeq(p, n + 1, Len(p))
             t == SubSeq(q, n + 1, Len(q))
  <2>2. /\ n \in Nat /\ n \in 1..Len(p) /\ n \in 1..Len(q) /\ p[n] # q[n]
        /\ \A k \in 1..(n - 1) : p[k] = q[k]
    BY <1>1, <2>1
  <2>3. u \in Path /\ s \in Path /\ t \in Path
    BY <1>1, <2>2 DEF Path
  <2>4. SubSeq(q, 1, n - 1) = u
    <3>1. /\ SubSeq(q, 1, n - 1) \in Seq(Turn) /\ Len(SubSeq(q, 1, n - 1)) = n - 1
          /\ \A k \in 1..(n - 1) : SubSeq(q, 1, n - 1)[k] = q[k]
      BY <1>1, <2>2
    <3>2. u \in Seq(Turn) /\ Len(u) = n - 1 /\ \A k \in 1..(n - 1) : u[k] = p[k]
      BY <1>1, <2>2
    <3> HIDE DEF u
    <3> QED BY <2>2, <3>1, <3>2, SeqEqual
  <2>5. p = To(u, p[n]) \o s
    <3>1. SubSeq(p, 1, n) = To(u, p[n])
      BY <1>1, <2>2, SubSeqRecursiveSecond DEF To
    <3>2. SubSeq(p, 1, n) \o s = SubSeq(p, 1, Len(p))
      <4>1. 1 \in 1..(Len(p) + 1) /\ n \in (1 - 1)..Len(p) /\ Len(p) \in n..Len(p)
        BY <1>1, <2>2
      <4> QED BY <1>1, <4>1, ConcatAdjacentSubSeq
    <3> QED BY <1>1, <3>1, <3>2, SubSeqFull
  <2>6. q = To(u, q[n]) \o t
    <3>1. SubSeq(q, 1, n) = To(u, q[n])
      BY <1>1, <2>2, <2>4, SubSeqRecursiveSecond DEF To
    <3>2. SubSeq(q, 1, n) \o t = SubSeq(q, 1, Len(q))
      <4>1. 1 \in 1..(Len(q) + 1) /\ n \in (1 - 1)..Len(q) /\ Len(q) \in n..Len(q)
        BY <1>1, <2>2
      <4> QED BY <1>1, <4>1, ConcatAdjacentSubSeq
    <3> QED BY <1>1, <3>1, <3>2, SubSeqFull
  <2>7. p[n] \in Turn /\ q[n] \in Turn
    BY <1>1, <2>2
  <2> HIDE DEF u, s, t
  <2> QED BY <2>2, <2>3, <2>5, <2>6, <2>7 DEF Parted
<1> QED BY <1>2, <1>3

-----------------------------------------------------------------------------
(* Tiling: the tree.                                                       *)

\* The leaves L and the splits D of a binary tree.
Tree(L, D) ==
    /\ L \in SUBSET Path /\ D \in SUBSET Path /\ L \cap D = {}
    /\ L \cup D # {} => <<>> \in L \cup D
    /\ \A d \in D, i \in Turn : To(d, i) \in L \cup D
    /\ \A t \in L \cup D : t # <<>> => \E d \in D, i \in Turn : t = To(d, i)
    /\ \E n \in Nat : \A t \in L \cup D : Len(t) <= n

\* What has something below it is split.
LEMMA AboveIsSplit ==
    ASSUME NEW L, NEW D, Tree(L, D), NEW q \in Path, NEW s \in Path, s # <<>>, q \o s \in L \cup D
    PROVE  q \in D
<1> DEFINE T == L \cup D
           m == Len(s)
           G == {n \in 0..m : \A v \in Path : Len(v) = n /\ v # <<>> /\ q \o v \in T => q \in D}
<1>1. m \in Nat
  BY PathsType
<1>2. 0 \in G
  BY <1>1, PathsType
<1>3. ASSUME NEW n \in 0..m, n # m, n \in G PROVE n + 1 \in G
  <2>1. n \in Nat /\ n + 1 \in 0..m
    BY <1>1, <1>3
  <2>2. ASSUME NEW v \in Path, Len(v) = n + 1, v # <<>>, q \o v \in T PROVE q \in D
    <3>1. PICK w \in Path, j \in Turn : v = To(w, j)
      BY <2>2, PathsSplit
    <3>2. w \in Path /\ j \in Turn /\ Len(v) = Len(w) + 1 /\ Len(w) \in Nat /\ q \o w \in Path
      BY <3>1, StepType, PathsType, PathsJoin
    <3>3. Len(w) = n
      BY <2>1, <2>2, <3>2
    <3>4. q \o v = To(q \o w, j)
      BY <3>1, <3>2, StepsJoin
    <3>5. q \o v # <<>>
      BY <3>2, <3>4, StepType
    <3>6. PICK d \in D, k \in Turn : q \o v = To(d, k)
      BY <2>2, <3>5 DEF Tree
    <3>7. d \in Path /\ k \in Turn /\ d \in D
      BY <3>6 DEF Tree
    <3>8. d = q \o w
      BY <3>2, <3>4, <3>6, <3>7, StepsCancel
    <3>9. CASE w = <<>>
      BY <3>7, <3>8, <3>9, PathsNone
    <3>10. CASE w # <<>>
      BY <1>3, <3>2, <3>3, <3>7, <3>8, <3>10
    <3> QED BY <3>9, <3>10
  <2> QED BY <2>1, <2>2
<1> HIDE DEF G
<1>4. 0..m \subseteq G
  BY <1>1, <1>2, <1>3, UpTo
<1>5. m \in G
  BY <1>1, <1>4
<1> QED BY <1>5 DEF G

\* Nothing is below a leaf but the leaf.
LEMMA LeafIsAlone ==
    ASSUME NEW L, NEW D, Tree(L, D), NEW q \in L, NEW s \in Path, q \o s \in L \cup D
    PROVE  s = <<>>
<1>1. q \in Path /\ q \notin D
  BY DEF Tree
<1> QED BY <1>1, AboveIsSplit

\* Two leaves part somewhere.
LEMMA LeavesPart ==
    ASSUME NEW L, NEW D, Tree(L, D), NEW p \in L, NEW q \in L, p # q
    PROVE  Parted(p, q)
<1>1. p \in Path /\ q \in Path
  BY DEF Tree
<1>2. ASSUME NEW s \in Path, p = q \o s PROVE FALSE
  <2>1. s = <<>>
    BY <1>2, LeafIsAlone
  <2> QED BY <1>1, <1>2, <2>1, PathsNone
<1>3. ASSUME NEW s \in Path, q = p \o s PROVE FALSE
  <2>1. s = <<>>
    BY <1>3, LeafIsAlone
  <2> QED BY <1>1, <1>3, <2>1, PathsNone
<1>4. \/ \E s \in Path : p = q \o s \/ q = p \o s
      \/ Parted(p, q)
  BY <1>1, PathsPart
<1> QED BY <1>2, <1>3, <1>4

\* Where they part.
LEMMA PartedAt ==
    ASSUME NEW u \in Path, NEW s \in Path, NEW i \in Turn
    PROVE  LET p == To(u, i) \o s IN
           /\ Len(u) + 1 \in DOMAIN p /\ p[Len(u) + 1] = i
           /\ \A k \in 1..Len(u) : p[k] = u[k]
BY DEF To, Path

Ones(n) == [i \in 1..n |-> 1]

LEMMA OnesGrow ==
    ASSUME NEW n \in Nat
    PROVE  Ones(n) \in Path /\ Len(Ones(n)) = n /\ Ones(n + 1) = To(Ones(n), 1)
<1>1. Ones(n) \in Seq(Turn) /\ Len(Ones(n)) = n
  BY DEF Ones, Turn
<1>2. Ones(n + 1) \in Seq(Turn) /\ Len(Ones(n + 1)) = n + 1
  BY DEF Ones, Turn
<1>3. 1 \in Turn
  BY DEF Turn
<1> DEFINE t == To(Ones(n), 1)
<1>4. t \in Seq(Turn) /\ Len(t) = n + 1
  BY <1>1, <1>3, StepType DEF Path
<1>5. \A k \in 1..(n + 1) : Ones(n + 1)[k] = 1
  BY DEF Ones
<1>6. \A k \in 1..(n + 1) : t[k] = 1
  <2>1. \A k \in 1..n : Ones(n)[k] = 1
    BY DEF Ones
  <2>2. <<1>> \in Seq(Turn) /\ Len(<<1>>) = 1 /\ <<1>>[1] = 1
    BY <1>3
  <2> HIDE DEF Ones
  <2>3. \A k \in 1..(n + 1) : t[k] = IF k <= n THEN Ones(n)[k] ELSE <<1>>[k - n]
    BY <1>1, <2>2 DEF To
  <2> QED BY <2>1, <2>2, <2>3
<1> HIDE DEF t
<1>7. Ones(n + 1) = t
  BY <1>2, <1>4, <1>5, <1>6, SeqEqual
<1> QED BY <1>1, <1>7 DEF t, Path

\* The tree has a leaf on the left of all others.
LEMMA LeftmostLeaf ==
    ASSUME NEW L, NEW D, Tree(L, D), L \cup D # {}
    PROVE  \E p \in L : \A q \in L :
              \/ q = p
              \/ \E i \in DOMAIN p \cap DOMAIN q : p[i] < q[i] /\ \A j \in 1..(i - 1) : p[j] = q[j]
<1>1. PICK n \in Nat : \A t \in L \cup D : Len(t) <= n
  BY DEF Tree
<1> DEFINE m == n + 1
           G == {k \in 0..m : Ones(k) \in D}
<1>2. \E k \in Nat : Ones(k) \in L
  <2> SUFFICES ASSUME \A k \in Nat : Ones(k) \notin L PROVE FALSE
    OBVIOUS
  <2>1. m \in Nat
    BY <1>1
  <2>2. 0 \in G
    <3>1. Ones(0) = <<>>
      <4>1. Ones(0) \in Path /\ Len(Ones(0)) = 0
        BY OnesGrow
      <4> QED BY <4>1, PathsType
    <3>2. <<>> \in L \cup D
      BY DEF Tree
    <3> QED BY <2>1, <3>1, <3>2
  <2>3. ASSUME NEW k \in 0..m, k # m, k \in G PROVE k + 1 \in G
    <3>1. k \in Nat /\ k + 1 \in 0..m /\ k + 1 \in Nat
      BY <2>1, <2>3
    <3>2. Ones(k + 1) = To(Ones(k), 1) /\ 1 \in Turn /\ Ones(k) \in D
      BY <2>3, <3>1, OnesGrow DEF Turn
    <3>3. Ones(k + 1) \in L \cup D
      BY <3>2 DEF Tree
    <3> QED BY <3>1, <3>3
  <2> HIDE DEF G
  <2>4. m \in G
    <3>1. 0..m \subseteq G
      BY <2>1, <2>2, <2>3, UpTo
    <3> QED BY <2>1, <3>1
  <2>5. Ones(m) \in D /\ Len(Ones(m)) = m
    BY <2>1, <2>4, OnesGrow DEF G
  <2> QED BY <1>1, <2>1, <2>5
<1>3. PICK k \in Nat : Ones(k) \in L
  BY <1>2
<1> DEFINE p == Ones(k)
<1>4. p \in L /\ p \in Path /\ Len(p) = k /\ \A i \in DOMAIN p : p[i] = 1
  BY <1>3, OnesGrow DEF Ones
<1> HIDE DEF p
<1>5. ASSUME NEW q \in L, q # p
      PROVE  \E i \in DOMAIN p \cap DOMAIN q : p[i] < q[i] /\ \A j \in 1..(i - 1) : p[j] = q[j]
  <2>0. Parted(p, q)
    BY <1>4, <1>5, LeavesPart
  <2>a. PICK u \in Path, s \in Path, t \in Path, i \in Turn, j \in Turn :
           i # j /\ p = To(u, i) \o s /\ q = To(u, j) \o t
    BY <2>0 DEF Parted
  <2>1. /\ u \in Path /\ s \in Path /\ t \in Path /\ i \in Turn /\ j \in Turn
        /\ i # j /\ p = To(u, i) \o s /\ q = To(u, j) \o t
    BY <2>a
  <2>2. /\ Len(u) + 1 \in DOMAIN p /\ p[Len(u) + 1] = i
        /\ \A k1 \in 1..Len(u) : p[k1] = u[k1]
    BY <2>1, PartedAt
  <2>3. /\ Len(u) + 1 \in DOMAIN q /\ q[Len(u) + 1] = j
        /\ \A k1 \in 1..Len(u) : q[k1] = u[k1]
    BY <2>1, PartedAt
  <2>4. i = 1 /\ j = 2
    BY <1>4, <2>1, <2>2 DEF Turn
  <2>5. Len(u) \in Nat /\ Len(u) + 1 - 1 = Len(u)
    BY <2>1, PathsType
  <2>6. /\ Len(u) + 1 \in DOMAIN p \cap DOMAIN q /\ p[Len(u) + 1] < q[Len(u) + 1]
        /\ \A k1 \in 1..((Len(u) + 1) - 1) : p[k1] = q[k1]
    BY <2>2, <2>3, <2>4, <2>5
  <2> QED BY <2>6
<1> QED BY <1>4, <1>5

\* What hung from q in f hangs from r in m.
Hangs(m, f, q, r) ==
    /\ \A t : t \in DOMAIN m <=> \E s \in Path : t = r \o s /\ q \o s \in DOMAIN f
    /\ \A s \in Path : q \o s \in DOMAIN f => m[r \o s] = f[q \o s]

LEMMA MovedIs ==
    ASSUME NEW f, DOMAIN f \in SUBSET Path, NEW q \in Path, NEW r \in Path
    PROVE  Hangs(Moved(f, q, r), f, q, r)
<1> DEFINE below == {path \in DOMAIN f : IsPrefix(q, path)}
           rest(path) == SubSeq(path, Len(q) + 1, Len(path))
           M == {r \o rest(path) : path \in below}
<1>1. Moved(f, q, r) = [to \in M |-> f[q \o SubSeq(to, Len(r) + 1, Len(to))]]
  BY Zenon DEF Moved
<1>2. DOMAIN Moved(f, q, r) = M
  BY <1>1
<1>3. ASSUME NEW s \in Path, q \o s \in DOMAIN f
      PROVE  /\ r \o s \in M
             /\ Moved(f, q, r)[r \o s] = f[q \o s]
  <2>1. q \o s \in below /\ rest(q \o s) = s
    BY <1>3, PathsBelow
  <2>2. r \o s \in M
    BY <2>1
  <2>3. SubSeq(r \o s, Len(r) + 1, Len(r \o s)) = s
    BY PathsBelow
  <2> HIDE DEF M
  <2>4. Moved(f, q, r)[r \o s] = f[q \o SubSeq(r \o s, Len(r) + 1, Len(r \o s))]
    BY <1>1, <2>2
  <2> QED BY <2>2, <2>3, <2>4
<1>4. ASSUME NEW t \in M PROVE \E s \in Path : t = r \o s /\ q \o s \in DOMAIN f
  <2>1. PICK path \in below : t = r \o rest(path)
    BY <1>4
  <2>2. path \in DOMAIN f /\ path \in Path /\ IsPrefix(q, path)
    BY <2>1
  <2>3. PICK s \in Path : path = q \o s
    BY <2>2, PrefixIs
  <2>4. rest(path) = s
    BY <2>3, PathsBelow
  <2> QED BY <2>1, <2>2, <2>3, <2>4
<1> HIDE DEF M
<1>5. \A t : t \in M <=> \E s \in Path : t = r \o s /\ q \o s \in DOMAIN f
  <2> SUFFICES ASSUME NEW t PROVE t \in M <=> \E s \in Path : t = r \o s /\ q \o s \in DOMAIN f
    OBVIOUS
  <2>1. (\E s \in Path : t = r \o s /\ q \o s \in DOMAIN f) => t \in M
    BY <1>3
  <2> QED BY <1>4, <2>1
<1>6. \A s \in Path : q \o s \in DOMAIN f => Moved(f, q, r)[r \o s] = f[q \o s]
  BY <1>3
<1> QED BY <1>2, <1>5, <1>6 DEF Hangs

LEMMA ElsewhereIs ==
    ASSUME NEW f, NEW q
    PROVE  /\ DOMAIN Elsewhere(f, q) = {t \in DOMAIN f : ~IsPrefix(q, t)}
           /\ \A t \in DOMAIN f : ~IsPrefix(q, t) => Elsewhere(f, q)[t] = f[t]
BY DEF Elsewhere, Restrict

LEMMA JoinedIs ==
    ASSUME NEW f, NEW g
    PROVE  /\ DOMAIN Joined(f, g) = DOMAIN f \cup DOMAIN g
           /\ \A t \in DOMAIN g : Joined(f, g)[t] = g[t]
           /\ \A t \in DOMAIN f : t \notin DOMAIN g => Joined(f, g)[t] = f[t]
BY DEF Joined

\* A leaf q that is split: its window moves to the first side, v is on the second.
SplitInto(l, d, f, g, q, v, e) ==
    /\ To(q, 1) \notin DOMAIN f \cup DOMAIN g /\ To(q, 2) \notin DOMAIN f \cup DOMAIN g
    /\ DOMAIN l = (DOMAIN f \ {q}) \cup {To(q, 1), To(q, 2)}
    /\ l[To(q, 1)] = f[q] /\ l[To(q, 2)] = v
    /\ \A t \in DOMAIN f : t # q => l[t] = f[t]
    /\ DOMAIN d = DOMAIN g \cup {q} /\ d[q] = e
    /\ \A t \in DOMAIN g : d[t] = g[t]

LEMMA SplitLeaf ==
    ASSUME NEW f, NEW g, Tree(DOMAIN f, DOMAIN g), NEW q \in DOMAIN f, NEW v, NEW e,
           NEW l, l = Joined(Joined(Elsewhere(f, q), Moved(f, q, To(q, 1))), At(To(q, 2), v)),
           NEW d, d = Joined(Joined(Elsewhere(g, q), Moved(g, q, To(q, 1))), At(q, e))
    PROVE  SplitInto(l, d, f, g, q, v, e)
<1> DEFINE L == DOMAIN f
           D == DOMAIN g
           one == To(q, 1)
           two == To(q, 2)
<1>1. /\ L \in SUBSET Path /\ D \in SUBSET Path /\ q \in Path /\ 1 \in Turn /\ 2 \in Turn
      /\ q \notin D
  BY DEF Tree, Turn
<1>2. /\ one \in Path /\ two \in Path /\ one # two /\ one # q /\ two # q
  <2>1. one \in Path /\ two \in Path /\ Len(one) = Len(q) + 1 /\ Len(two) = Len(q) + 1
        /\ Len(q) \in Nat
    BY <1>1, StepType, PathsType
  <2>2. one # two
    BY <1>1, StepsCancel
  <2> QED BY <2>1, <2>2
<1>5. \A s \in Path : q \o s \in L \cup D => s = <<>>
  BY LeafIsAlone
<1>3. ASSUME NEW i \in Turn PROVE To(q, i) \notin L \cup D
  <2>1. <<i>> \in Path /\ To(q, i) = q \o <<i>>
    BY <1>1, StepType DEF To
  <2>2. <<i>> # <<>>
    BY Len(<<i>>) = 1, PathsType
  <2> QED BY <1>5, <2>1, <2>2
<1>4. \A t \in L \cup D : IsPrefix(q, t) <=> t = q
  <2> SUFFICES ASSUME NEW t \in L \cup D PROVE IsPrefix(q, t) <=> t = q
    OBVIOUS
  <2>1. t \in Path
    BY <1>1
  <2>2. IsPrefix(q, q)
    BY <1>1, PathsNone, PathsType, PathsBelow
  <2>3. ASSUME IsPrefix(q, t) PROVE t = q
    <3>1. PICK s \in Path : t = q \o s
      BY <1>1, <2>1, <2>3, PrefixIs
    <3>2. s = <<>>
      BY <3>1, LeafIsAlone
    <3> QED BY <1>1, <3>1, <3>2, PathsNone
  <2> QED BY <2>2, <2>3
<1>6. q \o <<>> = q /\ one \o <<>> = one /\ <<>> \in Path
  BY <1>1, <1>2, PathsNone, PathsType
<1>7. /\ \A t : t \in DOMAIN Moved(f, q, one) <=> t = one
      /\ Moved(f, q, one)[one] = f[q]
  <2>1. PICK m : m = Moved(f, q, one)
    OBVIOUS
  <2>2. Hangs(m, f, q, one)
    BY <1>1, <1>2, <2>1, MovedIs
  <2> HIDE DEF one
  <2>3. m[one \o <<>>] = f[q \o <<>>]
    BY <1>6, <2>2 DEF Hangs
  <2>4. \A t : t \in DOMAIN m <=> t = one
    BY <1>5, <1>6, <2>2 DEF Hangs
  <2> QED BY <1>6, <2>1, <2>3, <2>4
<1>8. \A t : t \notin DOMAIN Moved(g, q, one)
  <2>1. PICK m : m = Moved(g, q, one)
    OBVIOUS
  <2>2. Hangs(m, g, q, one)
    BY <1>1, <1>2, <2>1, MovedIs
  <2> HIDE DEF one
  <2>3. \A s \in Path : q \o s \notin D
    BY <1>1, <1>5, <1>6
  <2> QED BY <2>1, <2>2, <2>3 DEF Hangs
<1>9. /\ DOMAIN Elsewhere(f, q) = L \ {q} /\ \A t \in L : t # q => Elsewhere(f, q)[t] = f[t]
  <2>1. /\ DOMAIN Elsewhere(f, q) = {t \in L : ~IsPrefix(q, t)}
        /\ \A t \in L : ~IsPrefix(q, t) => Elsewhere(f, q)[t] = f[t]
    BY ElsewhereIs
  <2>2. {t \in L : ~IsPrefix(q, t)} = L \ {q}
    BY <1>4
  <2> QED BY <1>4, <2>1, <2>2
<1>10. /\ DOMAIN Elsewhere(g, q) = D /\ \A t \in D : Elsewhere(g, q)[t] = g[t]
  BY <1>1, <1>4, ElsewhereIs
<1>11. /\ DOMAIN At(two, v) = {two} /\ At(two, v)[two] = v
       /\ DOMAIN At(q, e) = {q} /\ At(q, e)[q] = e
  BY DEF At
<1>12. one \notin L \cup D /\ two \notin L \cup D
  BY <1>1, <1>3
<1> DEFINE a == Elsewhere(f, q)
           b == Moved(f, q, one)
           c == At(two, v)
           ab == Joined(a, b)
<1> HIDE DEF one, two
<1>13. /\ DOMAIN l = (L \ {q}) \cup {one, two} /\ l[one] = f[q] /\ l[two] = v
       /\ \A t \in L : t # q => l[t] = f[t]
  <2>1. l = Joined(ab, c)
    BY DEF one, two
  <2>2. DOMAIN a = L \ {q} /\ DOMAIN b = {one} /\ DOMAIN c = {two}
    BY <1>7, <1>9, <1>11
  <2>3. /\ b[one] = f[q] /\ c[two] = v /\ \A t \in L : t # q => a[t] = f[t]
    BY <1>7, <1>9, <1>11
  <2> HIDE DEF a, b, c
  <2>4. /\ DOMAIN ab = DOMAIN a \cup DOMAIN b /\ \A t \in DOMAIN b : ab[t] = b[t]
        /\ \A t \in DOMAIN a : t \notin DOMAIN b => ab[t] = a[t]
    BY JoinedIs
  <2> HIDE DEF ab
  <2>a. /\ DOMAIN Joined(ab, c) = DOMAIN ab \cup DOMAIN c
        /\ \A t \in DOMAIN c : Joined(ab, c)[t] = c[t]
        /\ \A t \in DOMAIN ab : t \notin DOMAIN c => Joined(ab, c)[t] = ab[t]
    BY JoinedIs
  <2>5. /\ DOMAIN l = DOMAIN ab \cup DOMAIN c /\ \A t \in DOMAIN c : l[t] = c[t]
        /\ \A t \in DOMAIN ab : t \notin DOMAIN c => l[t] = ab[t]
    BY <2>1, <2>a
  <2>6. DOMAIN l = (L \ {q}) \cup {one, two}
    BY <2>2, <2>4, <2>5
  <2>7. l[one] = f[q] /\ l[two] = v
    BY <1>2, <2>2, <2>3, <2>4, <2>5
  <2>8. \A t \in L : t # q => l[t] = f[t]
    BY <1>12, <2>2, <2>3, <2>4, <2>5
  <2> QED BY <2>6, <2>7, <2>8
<1> DEFINE a1 == Elsewhere(g, q)
           b1 == Moved(g, q, one)
           c1 == At(q, e)
           ab1 == Joined(a1, b1)
<1>14. /\ DOMAIN d = D \cup {q} /\ d[q] = e
       /\ \A t \in D : d[t] = g[t]
  <2>1. d = Joined(ab1, c1)
    BY DEF one, two
  <2>2. DOMAIN a1 = D /\ DOMAIN b1 = {} /\ DOMAIN c1 = {q}
    BY <1>8, <1>10, <1>11
  <2>3. /\ c1[q] = e /\ \A t \in D : a1[t] = g[t]
    BY <1>10, <1>11
  <2> HIDE DEF a1, b1, c1
  <2>4. /\ DOMAIN ab1 = DOMAIN a1 \cup DOMAIN b1
        /\ \A t \in DOMAIN a1 : t \notin DOMAIN b1 => ab1[t] = a1[t]
    BY JoinedIs
  <2> HIDE DEF ab1
  <2>a. /\ DOMAIN Joined(ab1, c1) = DOMAIN ab1 \cup DOMAIN c1
        /\ \A t \in DOMAIN c1 : Joined(ab1, c1)[t] = c1[t]
        /\ \A t \in DOMAIN ab1 : t \notin DOMAIN c1 => Joined(ab1, c1)[t] = ab1[t]
    BY JoinedIs
  <2>5. /\ DOMAIN d = DOMAIN ab1 \cup DOMAIN c1 /\ \A t \in DOMAIN c1 : d[t] = c1[t]
        /\ \A t \in DOMAIN ab1 : t \notin DOMAIN c1 => d[t] = ab1[t]
    BY <2>1, <2>a
  <2> QED BY <1>1, <2>2, <2>3, <2>4, <2>5
<1> QED BY <1>12, <1>13, <1>14 DEF SplitInto, one, two

\* The tree with that leaf split.
LEMMA SplitTree ==
    ASSUME NEW L, NEW D, Tree(L, D), NEW q \in L,
           NEW M, M = (L \ {q}) \cup {To(q, 1), To(q, 2)}, NEW E, E = D \cup {q},
           To(q, 1) \notin L \cup D, To(q, 2) \notin L \cup D
    PROVE  Tree(M, E)
<1> DEFINE one == To(q, 1)
           two == To(q, 2)
<1>1. /\ L \in SUBSET Path /\ D \in SUBSET Path /\ q \in Path /\ 1 \in Turn /\ 2 \in Turn
      /\ q \notin D /\ L \cap D = {} /\ <<>> \in L \cup D
  BY DEF Tree, Turn
<1>2. one \in Path /\ two \in Path /\ Len(one) = Len(q) + 1 /\ Len(two) = Len(q) + 1
      /\ Len(q) \in Nat
  BY <1>1, StepType, PathsType
<1>3. M \in SUBSET Path /\ E \in SUBSET Path /\ M \cup E = (L \cup D) \cup {one, two}
  BY <1>1, <1>2
<1>4. M \cap E = {}
  BY <1>1, <1>2
<1>5. \A k \in E, i \in Turn : To(k, i) \in M \cup E
  <2>1. \A i \in Turn : To(q, i) \in {one, two}
    BY DEF Turn
  <2>2. \A k \in D, i \in Turn : To(k, i) \in L \cup D
    BY DEF Tree
  <2> HIDE DEF one, two
  <2> QED BY <1>3, <2>1, <2>2
<1>6. \A t \in M \cup E : t # <<>> => \E k \in E, i \in Turn : t = To(k, i)
  <2>1. \A t \in L \cup D : t # <<>> => \E k \in D, i \in Turn : t = To(k, i)
    BY DEF Tree
  <2>2. q \in E /\ D \subseteq E
    OBVIOUS
  <2>3. (\E k \in E, i \in Turn : one = To(k, i)) /\ (\E k \in E, i \in Turn : two = To(k, i))
    BY <1>1, <2>2
  <2> HIDE DEF one, two
  <2> QED BY <1>3, <2>1, <2>2, <2>3
<1>7. \E n \in Nat : \A t \in M \cup E : Len(t) <= n
  <2>1. PICK n \in Nat : \A t \in L \cup D : Len(t) <= n
    BY DEF Tree
  <2> HIDE DEF one, two
  <2>2. \A t \in L \cup D : Len(t) \in Nat
    BY <1>1, PathsType
  <2>3. \A t \in M \cup E : Len(t) <= n + 1
    BY <1>2, <1>3, <2>1, <2>2
  <2>4. n + 1 \in Nat
    BY <2>1
  <2> QED BY <2>3, <2>4
<1> QED BY <1>1, <1>3, <1>4, <1>5, <1>6, <1>7 DEF Tree

\* A path below another is not shorter, and what is below stays below.
LEMMA PrefixSteps ==
    /\ \A q, t \in Path : IsPrefix(q, t) => Len(q) <= Len(t)
    /\ \A q, t \in Path, k \in Turn : IsPrefix(q, t) => IsPrefix(q, To(t, k))
<1>1. \A q, t \in Path : IsPrefix(q, t) => Len(q) <= Len(t)
  BY DEF IsPrefix
<1>2. ASSUME NEW q \in Path, NEW t \in Path, NEW k \in Turn, IsPrefix(q, t)
      PROVE  IsPrefix(q, To(t, k))
  <2>1. PICK s : s \in Path /\ t = q \o s
    BY <1>2, PrefixIs
  <2>2. To(t, k) = q \o To(s, k) /\ To(s, k) \in Path
    BY <2>1, StepsJoin, StepType
  <2> QED BY <2>2, PathsBelow
<1> QED BY <1>1, <1>2

\* The paths M that are left of L when node q takes the place of its parent r.
PulledUp(M, L, r, q) ==
    \A t : t \in M <=> \/ t \in L /\ ~IsPrefix(r, t)
                      \/ \E s \in Path : t = r \o s /\ q \o s \in L

\* What is left in m of f then.
Lifted(m, f, r, q) ==
    /\ PulledUp(DOMAIN m, DOMAIN f, r, q)
    /\ \A t \in DOMAIN f : ~IsPrefix(r, t) => m[t] = f[t]
    /\ \A s \in Path : q \o s \in DOMAIN f => m[r \o s] = f[q \o s]

LEMMA LiftedIs ==
    ASSUME NEW f, DOMAIN f \in SUBSET Path, NEW q \in Path, NEW r \in Path,
           NEW m, m = Joined(Elsewhere(f, r), Moved(f, q, r))
    PROVE  Lifted(m, f, r, q)
<1>1. PICK a : a = Elsewhere(f, r)
  OBVIOUS
<1>2. PICK b : b = Moved(f, q, r)
  OBVIOUS
<1>3. /\ DOMAIN a = {t \in DOMAIN f : ~IsPrefix(r, t)}
      /\ \A t \in DOMAIN f : ~IsPrefix(r, t) => a[t] = f[t]
  BY <1>1, ElsewhereIs
<1>4. Hangs(b, f, q, r)
  BY <1>2, MovedIs
<1>5. /\ DOMAIN Joined(a, b) = DOMAIN a \cup DOMAIN b
      /\ \A t \in DOMAIN b : Joined(a, b)[t] = b[t]
      /\ \A t \in DOMAIN a : t \notin DOMAIN b => Joined(a, b)[t] = a[t]
  BY JoinedIs
<1>6. m = Joined(a, b)
  BY <1>1, <1>2
<1>7. \A s \in Path : IsPrefix(r, r \o s)
  BY PathsBelow
<1>8. \A t : t \in DOMAIN m <=> \/ t \in DOMAIN f /\ ~IsPrefix(r, t)
                                \/ \E s \in Path : t = r \o s /\ q \o s \in DOMAIN f
  BY <1>3, <1>4, <1>5, <1>6 DEF Hangs
<1>9. ASSUME NEW t \in DOMAIN f, ~IsPrefix(r, t) PROVE m[t] = f[t]
  <2>1. t \in DOMAIN a /\ a[t] = f[t]
    BY <1>3, <1>9
  <2>2. t \notin DOMAIN b
    BY <1>4, <1>7, <1>9 DEF Hangs
  <2> QED BY <1>5, <1>6, <2>1, <2>2
<1>10. ASSUME NEW s \in Path, q \o s \in DOMAIN f PROVE m[r \o s] = f[q \o s]
  <2>1. r \o s \in DOMAIN b /\ b[r \o s] = f[q \o s]
    BY <1>4, <1>10 DEF Hangs
  <2> QED BY <1>5, <1>6, <2>1
<1> QED BY <1>8, <1>9, <1>10 DEF Lifted, PulledUp

\* A leaf that goes, and what is known of where it hung.
Goes(L, D, r, i, j) ==
    r \in Path /\ i \in Turn /\ j \in Turn /\ i # j /\ To(r, i) \in L

LEMMA ParentIsSplit ==
    ASSUME NEW L, NEW D, Tree(L, D), NEW r, NEW i, NEW j, Goes(L, D, r, i, j)
    PROVE  r \in D /\ r \notin L /\ To(r, j) \in L \cup D /\ To(r, j) \in Path
<1>1. r \in Path /\ i \in Turn /\ j \in Turn /\ To(r, i) \in L \cup D
  BY DEF Goes
<1>2. To(r, i) # <<>>
  BY <1>1, StepType
<1>3. PICK d, k : d \in D /\ k \in Turn /\ To(r, i) = To(d, k)
  BY <1>1, <1>2 DEF Tree
<1>4. d \in Path
  BY <1>3 DEF Tree
<1>5. r = d
  BY <1>1, <1>3, <1>4, StepsCancel
<1> QED BY <1>1, <1>3, <1>5, StepType DEF Tree

\* The tree without that leaf.
LEMMA CollapseTree ==
    ASSUME NEW L, NEW D, Tree(L, D), NEW r \in D, NEW q \in L \cup D, Len(q) = Len(r) + 1,
           NEW M, NEW E, PulledUp(M, L, r, q), PulledUp(E, D, r, q)
    PROVE  Tree(M, E)
<1> DEFINE T == L \cup D
           N == M \cup E
<1>1. /\ L \in SUBSET Path /\ D \in SUBSET Path /\ L \cap D = {} /\ <<>> \in T
      /\ r \in Path /\ q \in Path
  BY DEF Tree
<1>2. PulledUp(N, T, r, q)
  BY DEF PulledUp
<1>3. \A s \in Path : r \o s \in Path /\ IsPrefix(r, r \o s) /\ q \o s \in Path
  BY <1>1, PathsBelow, PathsJoin
<1>4. r \o <<>> = r /\ q \o <<>> = q /\ <<>> \in Path
  BY <1>1, PathsNone, PathsType
<1>5. r \in N
  BY <1>2, <1>4 DEF PulledUp
<1>6. M \in SUBSET Path /\ E \in SUBSET Path
  <2>1. ASSUME NEW t \in M PROVE t \in Path
    <3>1. t \in L \/ \E s \in Path : t = r \o s
      BY <2>1 DEF PulledUp
    <3>2. CASE t \in L
      BY <1>1, <3>2
    <3>3. CASE \E s \in Path : t = r \o s
      BY <1>3, <3>3
    <3> QED BY <3>1, <3>2, <3>3
  <2>2. ASSUME NEW t \in E PROVE t \in Path
    <3>1. t \in D \/ \E s \in Path : t = r \o s
      BY <2>2 DEF PulledUp
    <3>2. CASE t \in D
      BY <1>1, <3>2
    <3>3. CASE \E s \in Path : t = r \o s
      BY <1>3, <3>3
    <3> QED BY <3>1, <3>2, <3>3
  <2> QED BY <2>1, <2>2
<1>12. \A v \in Path, k \in Turn :
          q \o To(v, k) = To(q \o v, k) /\ r \o To(v, k) = To(r \o v, k) /\ To(v, k) \in Path
  <2>0. q \in Path /\ r \in Path
    BY <1>1
  <2>1. \A v \in Path, k \in Turn : q \o To(v, k) = To(q \o v, k)
    BY <2>0, StepsJoin
  <2>2. \A v \in Path, k \in Turn : r \o To(v, k) = To(r \o v, k)
    BY <2>0, StepsJoin
  <2> QED BY <2>1, <2>2, StepType
<1>7. ASSUME NEW t \in M, t \in E PROVE FALSE
  <2>1. CASE ~IsPrefix(r, t)
    <3>1. ~\E s \in Path : t = r \o s
      BY <1>3, <2>1
    <3> QED BY <1>1, <1>7, <2>1, <3>1 DEF PulledUp
  <2>2. CASE IsPrefix(r, t)
    <3>1. PICK s : s \in Path /\ t = r \o s /\ q \o s \in L
      BY <1>7, <2>2 DEF PulledUp
    <3>2. PICK v : v \in Path /\ t = r \o v /\ q \o v \in D
      BY <1>7, <2>2 DEF PulledUp
    <3>3. s = v
      BY <1>1, <3>1, <3>2, PathsCancel
    <3> QED BY <1>1, <3>1, <3>2, <3>3
  <2> QED BY <2>1, <2>2
<1>8. <<>> \in N
  <2>1. CASE r = <<>>
    BY <1>5, <2>1
  <2>2. CASE r # <<>>
    <3>1. ~IsPrefix(r, <<>>)
      BY <1>1, <1>4, <2>2, PathsType, PrefixSteps
    <3> QED BY <1>1, <1>2, <3>1 DEF PulledUp
  <2> QED BY <2>1, <2>2
<1>9. ASSUME NEW e \in E, NEW k \in Turn PROVE To(e, k) \in N
  <2>1. CASE e \in D /\ ~IsPrefix(r, e)
    <3>1. To(e, k) \in T /\ e \in Path
      BY <1>1, <2>1 DEF Tree
    <3>2. CASE ~IsPrefix(r, To(e, k))
      BY <1>2, <3>1, <3>2 DEF PulledUp
    <3>3. CASE IsPrefix(r, To(e, k))
      <4>1. To(e, k) \in Path
        BY <3>1, StepType
      <4>2. PICK s : s \in Path /\ To(e, k) = r \o s
        BY <1>1, <3>3, <4>1, PrefixIs
      <4>4. e \in Path /\ r \in Path /\ s \in Path /\ k \in Turn /\ To(e, k) = r \o s
        BY <1>1, <3>1, <4>2
      <4>3. Under(e, k, r, s)
        BY <4>4, BelowOrAt
      <4> QED BY <1>3, <1>5, <2>1, <4>3 DEF Under
    <3> QED BY <3>2, <3>3
  <2>2. CASE \E s \in Path : e = r \o s /\ q \o s \in D
    <3>1. PICK s : s \in Path /\ e = r \o s /\ q \o s \in D
      BY <2>2
    <3>2. To(q \o s, k) \in T
      BY <3>1 DEF Tree
    <3>3. To(q \o s, k) = q \o To(s, k) /\ To(e, k) = r \o To(s, k) /\ To(s, k) \in Path
      BY <1>12, <3>1
    <3> QED BY <1>2, <3>2, <3>3 DEF PulledUp
  <2> QED BY <1>9, <2>1, <2>2 DEF PulledUp
<1>10. ASSUME NEW t \in N, t # <<>> PROVE \E e \in E, k \in Turn : t = To(e, k)
  <2>1. CASE t \in T /\ ~IsPrefix(r, t)
    <3>1. PICK d, k : d \in D /\ k \in Turn /\ t = To(d, k)
      BY <1>10, <2>1 DEF Tree
    <3>2. ~IsPrefix(r, d)
      BY <1>1, <2>1, <3>1, PrefixSteps
    <3>3. d \in E
      BY <3>1, <3>2 DEF PulledUp
    <3> QED BY <3>1, <3>3
  <2>2. CASE \E s \in Path : t = r \o s /\ q \o s \in T
    <3>1. PICK s : s \in Path /\ t = r \o s /\ q \o s \in T
      BY <2>2
    <3>2. CASE s = <<>>
      <4>1. t = r /\ r \in T
        BY <1>1, <1>4, <3>1, <3>2
      <4>2. PICK d, k : d \in D /\ k \in Turn /\ r = To(d, k)
        BY <1>10, <4>1 DEF Tree
      <4>3. d \in Path /\ Len(r) = Len(d) + 1 /\ Len(d) \in Nat
        BY <1>1, <4>2, StepType, PathsType
      <4>4. ~(Len(r) <= Len(d))
        BY <4>3
      <4>5. ~IsPrefix(r, d)
        BY <1>1, <4>3, <4>4, PrefixSteps
      <4>6. d \in E
        BY <4>2, <4>5 DEF PulledUp
      <4> QED BY <4>1, <4>2, <4>6
    <3>3. CASE s # <<>>
      <4>1. PICK v, k : v \in Path /\ k \in Turn /\ s = To(v, k)
        BY <3>1, <3>3, PathsSplit
      <4>2. q \o s = To(q \o v, k) /\ t = To(r \o v, k) /\ q \o v \in Path
        BY <1>3, <1>12, <3>1, <4>1
      <4>3. q \o s # <<>>
        BY <4>1, <4>2, StepType
      <4>4. PICK d, l : d \in D /\ l \in Turn /\ q \o s = To(d, l)
        BY <3>1, <4>3 DEF Tree
      <4>5. d \in Path
        BY <1>1, <4>4
      <4>6. d = q \o v
        <5>1. To(d, l) = To(q \o v, k) /\ d \in Path /\ q \o v \in Path /\ k \in Turn /\ l \in Turn
          BY <4>1, <4>2, <4>4, <4>5
        <5> QED BY <5>1, StepsCancel
      <4>7. r \o v \in E
        <5>1. q \o v \in D
          BY <4>4, <4>6
        <5> QED BY <4>1, <5>1 DEF PulledUp
      <4> QED BY <4>1, <4>2, <4>7
    <3> QED BY <3>2, <3>3
  <2> QED BY <1>2, <1>10, <2>1, <2>2 DEF PulledUp
<1>11. \E n \in Nat : \A t \in N : Len(t) <= n
  <2>1. PICK n : n \in Nat /\ \A t \in T : Len(t) <= n
    BY DEF Tree
  <2>2. ASSUME NEW t \in N PROVE Len(t) <= n
    <3>1. CASE t \in T
      BY <2>1, <3>1
    <3>2. CASE t \notin T
      <4>1. PICK s : s \in Path /\ t = r \o s /\ q \o s \in T
        BY <1>2, <2>2, <3>2 DEF PulledUp
      <4>2. Len(t) = Len(r) + Len(s) /\ Len(q \o s) = Len(q) + Len(s)
        BY <1>1, <4>1, PathsJoin
      <4>3. Len(r) \in Nat /\ Len(s) \in Nat /\ Len(q) \in Nat /\ Len(q \o s) <= n
        BY <1>1, <2>1, <4>1, PathsType
      <4> HIDE DEF T, N
      <4> QED BY <2>1, <4>2, <4>3
    <3> QED BY <3>1, <3>2
  <2> QED BY <2>1, <2>2
<1> QED BY <1>6, <1>7, <1>8, <1>9, <1>10, <1>11 DEF Tree

\* Its windows are the windows there were, without the one that went.
LEMMA CollapseRange ==
    ASSUME NEW f, NEW D, Tree(DOMAIN f, D), NEW r, NEW i, NEW j, Goes(DOMAIN f, D, r, i, j),
           NEW m, Lifted(m, f, r, To(r, j)), \A s, t \in DOMAIN f : f[s] = f[t] => s = t
    PROVE  /\ \A s, t \in DOMAIN m : m[s] = m[t] => s = t
           /\ Range(m) = Range(f) \ {f[To(r, i)]}
<1> DEFINE L == DOMAIN f
<1>0. PICK q : q = To(r, j)
  OBVIOUS
<1>1. /\ L \in SUBSET Path /\ r \in Path /\ r \notin L /\ q \in Path /\ i \in Turn /\ j \in Turn
      /\ i # j /\ To(r, i) \in L
  BY <1>0, ParentIsSplit DEF Tree, Goes
<1>2. /\ \A t : t \in DOMAIN m <=> \/ t \in L /\ ~IsPrefix(r, t)
                                   \/ \E s \in Path : t = r \o s /\ q \o s \in L
      /\ \A t \in L : ~IsPrefix(r, t) => m[t] = f[t]
      /\ \A s \in Path : q \o s \in L => m[r \o s] = f[q \o s]
  BY <1>0 DEF Lifted, PulledUp
<1>3. \A s \in Path : q \o s \in Path /\ q \o s = To(r, j) \o s
  BY <1>0, <1>1, PathsJoin
<1>4. \A s \in Path : IsPrefix(r, q \o s)
  <2> SUFFICES ASSUME NEW s \in Path PROVE IsPrefix(r, q \o s)
    OBVIOUS
  <2>1. q = r \o <<j>> /\ <<j>> \in Path
    BY <1>0, <1>1, StepType DEF To
  <2>2. q \o s = r \o (<<j>> \o s) /\ <<j>> \o s \in Path
    BY <1>1, <2>1, PathsAssociate, PathsJoin
  <2> QED BY <1>1, <2>2, PathsBelow
<1>5. \A t \in DOMAIN m : \/ t \in L /\ ~IsPrefix(r, t) /\ m[t] = f[t]
                          \/ \E s \in Path : t = r \o s /\ q \o s \in L /\ m[t] = f[q \o s]
  <2> SUFFICES ASSUME NEW t \in DOMAIN m, ~(t \in L /\ ~IsPrefix(r, t))
               PROVE  \E s \in Path : t = r \o s /\ q \o s \in L /\ m[t] = f[q \o s]
    BY <1>2
  <2>1. PICK s : s \in Path /\ t = r \o s /\ q \o s \in L
    BY <1>2
  <2>2. m[r \o s] = f[q \o s]
    BY <1>2, <2>1
  <2> QED BY <2>1, <2>2
<1>6. ASSUME NEW s \in DOMAIN m, NEW t \in DOMAIN m, m[s] = m[t] PROVE s = t
  <2>1. CASE s \in L /\ ~IsPrefix(r, s) /\ m[s] = f[s]
    <3>1. CASE t \in L /\ ~IsPrefix(r, t) /\ m[t] = f[t]
      BY <1>6, <2>1, <3>1
    <3>2. CASE \E v \in Path : t = r \o v /\ q \o v \in L /\ m[t] = f[q \o v]
      <4>1. PICK v : v \in Path /\ t = r \o v /\ q \o v \in L /\ m[t] = f[q \o v]
        BY <3>2
      <4>2. s = q \o v
        BY <1>6, <2>1, <4>1
      <4> QED BY <1>4, <2>1, <4>1, <4>2
    <3> QED BY <1>5, <3>1, <3>2
  <2>2. CASE \E w \in Path : s = r \o w /\ q \o w \in L /\ m[s] = f[q \o w]
    <3>0. PICK w : w \in Path /\ s = r \o w /\ q \o w \in L /\ m[s] = f[q \o w]
      BY <2>2
    <3>1. CASE t \in L /\ ~IsPrefix(r, t) /\ m[t] = f[t]
      <4>1. t = q \o w
        BY <1>6, <3>0, <3>1
      <4> QED BY <1>4, <3>0, <3>1, <4>1
    <3>2. CASE \E v \in Path : t = r \o v /\ q \o v \in L /\ m[t] = f[q \o v]
      <4>1. PICK v : v \in Path /\ t = r \o v /\ q \o v \in L /\ m[t] = f[q \o v]
        BY <3>2
      <4>2. q \o w = q \o v
        BY <1>6, <3>0, <4>1
      <4>3. w = v
        BY <1>1, <3>0, <4>1, <4>2, PathsCancel
      <4> QED BY <3>0, <4>1, <4>3
    <3> QED BY <1>5, <3>1, <3>2
  <2> QED BY <1>5, <2>1, <2>2
<1>7. \A s \in Path : q \o s # To(r, i)
  <2> SUFFICES ASSUME NEW s \in Path, q \o s = To(r, i) PROVE FALSE
    OBVIOUS
  <2>1. Len(q) = Len(r) + 1 /\ Len(To(r, i)) = Len(r) + 1 /\ Len(q \o s) = Len(q) + Len(s)
    BY <1>0, <1>1, StepType, PathsJoin
  <2>2. Len(q) \in Nat /\ Len(s) \in Nat /\ Len(r) \in Nat
    BY <1>1, PathsType
  <2>3. Len(s) = 0
    BY <2>1, <2>2
  <2>4. s = <<>>
    BY <2>3, PathsType
  <2>5. q = To(r, i)
    BY <1>1, <2>4, PathsNone
  <2> QED BY <1>0, <1>1, <2>5, StepsCancel
<1>8. IsPrefix(r, To(r, i))
  BY <1>1, StepType, PathsBelow DEF To
<1>9. ASSUME NEW t \in DOMAIN m PROVE m[t] \in Range(f) \ {f[To(r, i)]}
  <2>1. CASE t \in L /\ ~IsPrefix(r, t) /\ m[t] = f[t]
    BY <1>1, <1>8, <2>1 DEF Range
  <2>2. CASE \E s \in Path : t = r \o s /\ q \o s \in L /\ m[t] = f[q \o s]
    BY <1>1, <1>7, <2>2 DEF Range
  <2> QED BY <1>5, <2>1, <2>2
<1>10. ASSUME NEW t \in L, t # To(r, i) PROVE \E s \in DOMAIN m : m[s] = f[t]
  <2>1. CASE ~IsPrefix(r, t)
    BY <1>2, <2>1
  <2>2. CASE IsPrefix(r, t)
    <3>1. t \in Path /\ t # r
      BY <1>1, <1>10
    <3>2. PICK s : s \in Path /\ t = r \o s
      BY <1>1, <2>2, <3>1, PrefixIs
    <3>3. s # <<>>
      BY <1>1, <3>1, <3>2, PathsNone
    <3> USE <3>1
    <3>4. \E k \in Turn, v \in Path : r \o s = To(r, k) \o v
      BY <1>1, <3>2, <3>3, PathsBegin
    <3>5. PICK k, v : k \in Turn /\ v \in Path /\ t = To(r, k) \o v
      BY <3>2, <3>4
    <3>6. CASE k = i
      <4>1. v = <<>>
        BY <1>1, <1>10, <3>5, <3>6, LeafIsAlone
      <4>2. To(r, i) \in Path
        BY <1>1
      <4> QED BY <1>10, <3>5, <3>6, <4>1, <4>2, PathsNone
    <3>7. CASE k # i
      <4>1. k = j
        BY <1>1, <3>5, <3>7 DEF Turn
      <4>2. t = q \o v
        BY <1>0, <3>5, <4>1
      <4>3. r \o v \in DOMAIN m /\ m[r \o v] = f[t]
        BY <1>2, <3>5, <4>2
      <4> QED BY <4>3
    <3> QED BY <3>6, <3>7
  <2> QED BY <2>1, <2>2
<1>11. Range(m) = Range(f) \ {f[To(r, i)]}
  BY <1>9, <1>10 DEF Range
<1> QED BY <1>6, <1>11

-----------------------------------------------------------------------------
(* Tiling: the parcels.                                                    *)

Area == [x : Int, y : Int, w : Nat, h : Nat]
Cut == [across : BOOLEAN, percent : 0..100]

Inside(a, b) ==
    /\ b.x <= a.x /\ a.x + a.w <= b.x + b.w
    /\ b.y <= a.y /\ a.y + a.h <= b.y + b.h
Apart(a, b) == a.x + a.w <= b.x \/ a.y + a.h <= b.y

LEMMA InsideThrough ==
    \A a, b, c \in Area : Inside(a, b) /\ Inside(b, c) => Inside(a, c)
<1> SUFFICES ASSUME NEW a \in Area, NEW b \in Area, NEW c \in Area, Inside(a, b), Inside(b, c)
             PROVE  Inside(a, c)
  OBVIOUS
<1>1. /\ a.x \in Int /\ a.y \in Int /\ a.w \in Int /\ a.h \in Int
      /\ b.x \in Int /\ b.y \in Int /\ b.w \in Int /\ b.h \in Int
      /\ c.x \in Int /\ c.y \in Int /\ c.w \in Int /\ c.h \in Int
  BY DEF Area
<1>2. /\ b.x <= a.x /\ a.x + a.w <= b.x + b.w /\ b.y <= a.y /\ a.y + a.h <= b.y + b.h
      /\ c.x <= b.x /\ b.x + b.w <= c.x + c.w /\ c.y <= b.y /\ b.y + b.h <= c.y + c.h
  BY DEF Inside
<1> QED BY <1>1, <1>2 DEF Inside

LEMMA SomePercent == \A a \in Nat, p \in 0..100 : (a * p) \div 100 \in 0..a
<1> SUFFICES ASSUME NEW a \in Nat, NEW p \in 0..100 PROVE (a * p) \div 100 \in 0..a
  OBVIOUS
<1>1. PICK q \in Nat : p + q = 100
  <2>1. 100 - p \in Nat /\ p + (100 - p) = 100
    OBVIOUS
  <2> QED BY <2>1
<1>2. a * p \in Nat /\ a * q \in Nat
  BY <1>1
<1>3. a * (p + q) = a * p + a * q
  BY <1>1
<1>4. a * 100 = a * p + a * q
  BY <1>1, <1>3
<1>5. PICK m \in Nat, n \in Nat : m = a * p /\ n = a * q /\ a * 100 = m + n
  BY <1>2, <1>4
<1>6. m <= a * 100
  BY <1>5
<1>7. m \div 100 \in 0..a
  BY <1>5, <1>6
<1> QED BY <1>5, <1>7

\* A divider cuts a rectangle in two, one beside the other.
LEMMA PartsFit ==
    ASSUME NEW r \in Area, NEW s \in Cut
    PROVE  /\ \A i \in Turn : Part(r, s, i) \in Area /\ Inside(Part(r, s, i), r)
           /\ Apart(Part(r, s, 1), Part(r, s, 2))
<1> DEFINE along == IF s.across THEN r.w ELSE r.h
           first == (along * s.percent) \div 100
<1>1. /\ r.x \in Int /\ r.y \in Int /\ r.w \in Nat /\ r.h \in Nat
      /\ s.across \in BOOLEAN /\ s.percent \in 0..100
      /\ r = [x |-> r.x, y |-> r.y, w |-> r.w, h |-> r.h]
  BY DEF Area, Cut
<1>2. along \in Nat
  BY <1>1
<1>3. first \in 0..along
  BY <1>1, <1>2, SomePercent
<1>4. PICK n \in Nat : n = first /\ n <= along
  BY <1>2, <1>3
<1>5. CASE s.across
  <2>1. along = r.w
    BY <1>5
  <2>2. Part(r, s, 1) = [r EXCEPT !.w = n]
    BY <1>4, <1>5 DEF Part
  <2>3. Part(r, s, 2) = [r EXCEPT !.x = @ + n, !.w = @ - n]
    BY <1>4, <1>5 DEF Part
  <2> HIDE DEF along, first
  <2>4. Part(r, s, 1) = [x |-> r.x, y |-> r.y, w |-> n, h |-> r.h]
    BY <1>1, <2>2
  <2>5. Part(r, s, 2) = [x |-> r.x + n, y |-> r.y, w |-> r.w - n, h |-> r.h]
    BY <1>1, <2>3
  <2>6. r.x + n \in Int /\ r.w - n \in Nat
    BY <1>1, <1>4, <2>1
  <2>7. Part(r, s, 1) \in Area /\ Part(r, s, 2) \in Area
    BY <1>1, <2>4, <2>5, <2>6 DEF Area
  <2>8. Inside(Part(r, s, 1), r) /\ Inside(Part(r, s, 2), r) /\ Apart(Part(r, s, 1), Part(r, s, 2))
    BY <1>1, <1>4, <2>1, <2>4, <2>5 DEF Inside, Apart
  <2> QED BY <2>7, <2>8 DEF Turn
<1>6. CASE ~s.across
  <2>1. along = r.h
    BY <1>6
  <2>2. Part(r, s, 1) = [r EXCEPT !.h = n]
    BY <1>4, <1>6 DEF Part
  <2>3. Part(r, s, 2) = [r EXCEPT !.y = @ + n, !.h = @ - n]
    BY <1>4, <1>6 DEF Part
  <2> HIDE DEF along, first
  <2>4. Part(r, s, 1) = [x |-> r.x, y |-> r.y, w |-> r.w, h |-> n]
    BY <1>1, <2>2
  <2>5. Part(r, s, 2) = [x |-> r.x, y |-> r.y + n, w |-> r.w, h |-> r.h - n]
    BY <1>1, <2>3
  <2>6. r.y + n \in Int /\ r.h - n \in Nat
    BY <1>1, <1>4, <2>1
  <2>7. Part(r, s, 1) \in Area /\ Part(r, s, 2) \in Area
    BY <1>1, <2>4, <2>5, <2>6 DEF Area
  <2>8. Inside(Part(r, s, 1), r) /\ Inside(Part(r, s, 2), r) /\ Apart(Part(r, s, 1), Part(r, s, 2))
    BY <1>1, <1>4, <2>1, <2>4, <2>5 DEF Inside, Apart
  <2> QED BY <2>7, <2>8 DEF Turn
<1> QED BY <1>5, <1>6

\* k is the function inside Parcel.
Cutting(k, path) ==
    k = [n \in 0..Len(path) |->
            IF n = 0 THEN Bounds ELSE Part(k[n - 1], divider[SubSeq(path, 1, n - 1)], path[n])]
Cuts(k, path) ==
    k[0] = Bounds /\ \A n \in 1..Len(path) : k[n] = Part(k[n - 1], divider[SubSeq(path, 1, n - 1)], path[n])

\* Every node above the end of the path is split.
Rooted(path) == \A n \in 1..Len(path) : divider[SubSeq(path, 1, n - 1)] \in Cut

LEMMA CuttingExists ==
    ASSUME NEW path \in Path, Rooted(path)
    PROVE  \E k \in [0..Len(path) -> Area] : Cutting(k, path)
<1> DEFINE m == Len(path)
           at(n) == divider[SubSeq(path, 1, n - 1)]
           step == [x \in Area \X (1..m) |-> Part(x[1], at(x[2]), path[x[2]])]
<1>1. m \in Nat /\ Bounds \in Area /\ \A n \in 1..m : path[n] \in Turn /\ at(n) \in Cut
  <2>1. m \in Nat /\ \A n \in 1..m : path[n] \in Turn
    BY DEF Path
  <2>2. Bounds \in Area
    BY TilingAssumption DEF Area
  <2> QED BY <2>1, <2>2 DEF Rooted
<1> HIDE DEF m, at
<1>2. step \in [Area \X (1..m) -> Area]
  <2>1. \A x \in Area \X (1..m) : x[1] \in Area /\ x[2] \in 1..m
    OBVIOUS
  <2>2. \A x \in Area \X (1..m) : Part(x[1], at(x[2]), path[x[2]]) \in Area
    BY <1>1, <2>1, PartsFit
  <2> QED BY <2>2
<1>3. \A a \in Area, n \in 1..m : step[<<a, n>>] = Part(a, at(n), path[n])
  OBVIOUS
<1> HIDE DEF step
<1>4. PICK k \in [0..m -> Area] : Unrolls(k, Bounds, step, m)
  BY <1>1, <1>2, UnrollExists
<1>5. \A n \in 0..m : n # 0 => n \in 1..m /\ k[n - 1] \in Area
  BY <1>1, <1>4
<1>6. \A n \in 0..m : k[n] = IF n = 0 THEN Bounds ELSE Part(k[n - 1], at(n), path[n])
  BY <1>3, <1>4, <1>5 DEF Unrolls
<1>7. k = [n \in 0..m |-> k[n]]
  BY <1>4
<1>8. Cutting(k, path)
  BY <1>6, <1>7 DEF Cutting, m, at
<1> QED BY <1>4, <1>8 DEF m

LEMMA CutsAgree ==
    ASSUME NEW p \in Path, NEW q \in Path, Len(p) <= Len(q),
           \A n \in 1..Len(p) : q[n] = p[n] /\ SubSeq(q, 1, n - 1) = SubSeq(p, 1, n - 1),
           NEW k, Cuts(k, q), NEW h, Cuts(h, p)
    PROVE  \A n \in 0..Len(p) : k[n] = h[n]
<1> DEFINE G == {n \in 0..Len(p) : k[n] = h[n]}
<1>1. Len(p) \in Nat /\ Len(q) \in Nat
  BY PathsType
<1>2. 0 \in G
  BY <1>1 DEF Cuts
<1>3. ASSUME NEW n \in 0..Len(p), n # Len(p), n \in G PROVE n + 1 \in G
  <2>1. n + 1 \in 1..Len(p) /\ n + 1 \in 1..Len(q) /\ (n + 1) - 1 = n /\ n + 1 \in 0..Len(p)
    BY <1>1, <1>3
  <2>2. k[n + 1] = Part(k[n], divider[SubSeq(q, 1, n)], q[n + 1])
    BY <2>1 DEF Cuts
  <2>3. h[n + 1] = Part(h[n], divider[SubSeq(p, 1, n)], p[n + 1])
    BY <2>1 DEF Cuts
  <2>4. q[n + 1] = p[n + 1] /\ SubSeq(q, 1, n) = SubSeq(p, 1, n) /\ k[n] = h[n]
    BY <1>3, <2>1
  <2> QED BY <2>1, <2>2, <2>3, <2>4
<1> HIDE DEF G
<1>4. 0..Len(p) \subseteq G
  BY <1>1, <1>2, <1>3, UpTo
<1> QED BY <1>4 DEF G

LEMMA ParcelCuts ==
    ASSUME NEW path \in Path, Rooted(path)
    PROVE  \E k \in [0..Len(path) -> Area] : Cuts(k, path) /\ Parcel(path) = k[Len(path)]
<1> DEFINE k == CHOOSE k : Cutting(k, path)
<1>1. Cutting(k, path)
  BY CuttingExists
<1>2. PICK h \in [0..Len(path) -> Area] : Cutting(h, path)
  BY CuttingExists
<1>3. Parcel(path) = k[Len(path)]
  BY Zenon DEF Parcel, Cutting
<1> HIDE DEF k
<1>4. ASSUME NEW g, Cutting(g, path) PROVE Cuts(g, path)
  <2>1. \A n \in 0..Len(path) :
           g[n] = IF n = 0 THEN Bounds ELSE Part(g[n - 1], divider[SubSeq(path, 1, n - 1)], path[n])
    BY <1>4 DEF Cutting
  <2>2. Len(path) \in Nat
    BY PathsType
  <2>3. 0 \in 0..Len(path) /\ \A n \in 1..Len(path) : n \in 0..Len(path) /\ n # 0
    BY <2>2
  <2> QED BY <2>1, <2>3 DEF Cuts
<1>5. \A n \in 0..Len(path) : k[n] = h[n]
  <2>1. Cuts(k, path) /\ Cuts(h, path)
    BY <1>1, <1>2, <1>4
  <2>2. Len(path) \in Nat
    BY PathsType
  <2> QED BY <2>1, <2>2, CutsAgree
<1>6. k = [n \in 0..Len(path) |-> k[n]]
  BY <1>1 DEF Cutting
<1>7. k \in [0..Len(path) -> Area]
  BY <1>5, <1>6, <1>2
<1> QED BY <1>1, <1>3, <1>4, <1>7

\* The parcel of a side is cut from the parcel of the node.
LEMMA ParcelStep ==
    ASSUME NEW u \in Path, NEW i \in Turn, Rooted(To(u, i))
    PROVE  /\ Rooted(u) /\ divider[u] \in Cut
           /\ Parcel(u) \in Area /\ Parcel(To(u, i)) = Part(Parcel(u), divider[u], i)
<1> DEFINE q == To(u, i)
<1>1. /\ q \in Path /\ Len(q) = Len(u) + 1 /\ Len(u) \in Nat
      /\ u \in Seq(Turn) /\ q \in Seq(Turn)
  BY StepType, PathsType DEF Path
<1>2. \A n \in 1..Len(u) : q[n] = u[n]
  BY DEF To, Path
<1>3. q[Len(u) + 1] = i
  BY DEF To, Path
<1>4. SubSeq(q, 1, Len(u)) = u
  <2>1. <<i>> \in Path
    BY StepType
  <2> QED BY <2>1, PathsBelow DEF To
<1> HIDE DEF q
<1>5. \A n \in 1..Len(u) : SubSeq(q, 1, n - 1) = SubSeq(u, 1, n - 1)
  <2> SUFFICES ASSUME NEW n \in 1..Len(u) PROVE SubSeq(q, 1, n - 1) = SubSeq(u, 1, n - 1)
    OBVIOUS
  <2>1. /\ SubSeq(q, 1, n - 1) \in Seq(Turn) /\ Len(SubSeq(q, 1, n - 1)) = n - 1
        /\ \A k \in 1..(n - 1) : SubSeq(q, 1, n - 1)[k] = q[k]
    BY <1>1
  <2>2. /\ SubSeq(u, 1, n - 1) \in Seq(Turn) /\ Len(SubSeq(u, 1, n - 1)) = n - 1
        /\ \A k \in 1..(n - 1) : SubSeq(u, 1, n - 1)[k] = u[k]
    BY <1>1
  <2>3. \A k \in 1..(n - 1) : q[k] = u[k]
    BY <1>1, <1>2
  <2> QED BY <2>1, <2>2, <2>3, SeqEqual
<1>6. Rooted(u) /\ divider[u] \in Cut
  <2>1. \A n \in 1..Len(u) : n \in 1..Len(q)
    BY <1>1
  <2>2. Len(u) + 1 \in 1..Len(q) /\ (Len(u) + 1) - 1 = Len(u)
    BY <1>1
  <2>3. \A n \in 1..Len(q) : divider[SubSeq(q, 1, n - 1)] \in Cut
    BY DEF Rooted, q
  <2>4. divider[SubSeq(q, 1, Len(u))] \in Cut
    BY <2>2, <2>3
  <2> QED BY <1>4, <1>5, <2>1, <2>3, <2>4 DEF Rooted
<1>7. PICK k \in [0..Len(q) -> Area] : Cuts(k, q) /\ Parcel(q) = k[Len(q)]
  BY <1>1, ParcelCuts DEF q
<1>8. PICK h \in [0..Len(u) -> Area] : Cuts(h, u) /\ Parcel(u) = h[Len(u)]
  BY <1>6, ParcelCuts
<1>9. \A n \in 0..Len(u) : k[n] = h[n]
  <2>1. Len(u) <= Len(q)
    BY <1>1
  <2> QED BY <1>1, <1>2, <1>5, <1>7, <1>8, <2>1, CutsAgree
<1>10. k[Len(u)] = Parcel(u) /\ Parcel(u) \in Area
  BY <1>1, <1>8, <1>9
<1>11. k[Len(u) + 1] = Part(k[Len(u)], divider[SubSeq(q, 1, Len(u))], q[Len(u) + 1])
  <2>1. Len(u) + 1 \in 1..Len(q) /\ (Len(u) + 1) - 1 = Len(u)
    BY <1>1
  <2> QED BY <1>7, <2>1 DEF Cuts
<1>12. Parcel(q) = Part(Parcel(u), divider[u], i)
  BY <1>1, <1>3, <1>4, <1>7, <1>10, <1>11
<1> QED BY <1>6, <1>10, <1>12 DEF q

LEMMA RootParcel == Parcel(<<>>) = Bounds
<1>1. <<>> \in Path /\ Len(<<>>) = 0
  BY PathsType
<1>2. PICK p \in Path : p = <<>> /\ Len(p) = 0
  BY <1>1
<1>3. Rooted(p)
  BY <1>2 DEF Rooted
<1>4. PICK k \in [0..Len(p) -> Area] : Cuts(k, p) /\ Parcel(p) = k[Len(p)]
  BY <1>3, ParcelCuts
<1> QED BY <1>2, <1>4 DEF Cuts

LEMMA NodesAreRooted ==
    ASSUME NEW L, Tree(L, DOMAIN divider), \A d \in DOMAIN divider : divider[d] \in Cut,
           NEW t \in L \cup DOMAIN divider
    PROVE  Rooted(t)
<1>1. t \in Path /\ t \in Seq(Turn) /\ Len(t) \in Nat
  BY PathsType DEF Tree, Path
<1> SUFFICES ASSUME NEW n \in 1..Len(t) PROVE divider[SubSeq(t, 1, n - 1)] \in Cut
  BY DEF Rooted
<1> DEFINE q == SubSeq(t, 1, n - 1)
           s == SubSeq(t, n, Len(t))
<1>2. q \in Path /\ s \in Path
  BY <1>1 DEF Path
<1>3. q \o s = t
  <2>1. SubSeq(t, 1, n - 1) \o SubSeq(t, (n - 1) + 1, Len(t)) = SubSeq(t, 1, Len(t))
    <3>1. 1 \in 1..(Len(t) + 1) /\ n - 1 \in (1 - 1)..Len(t) /\ Len(t) \in (n - 1)..Len(t)
      BY <1>1
    <3> QED BY <1>1, <3>1, ConcatAdjacentSubSeq
  <2>2. (n - 1) + 1 = n /\ SubSeq(t, 1, Len(t)) = t
    BY <1>1, SubSeqFull
  <2> QED BY <2>1, <2>2
<1>4. s # <<>>
  <2>1. Len(s) = Len(t) - n + 1 /\ n \in Nat /\ n <= Len(t)
    BY <1>1
  <2> HIDE DEF s
  <2>2. Len(s) > 0
    BY <1>1, <2>1
  <2>3. Len(<<>>) = 0
    BY PathsType
  <2> QED BY <2>2, <2>3
<1> HIDE DEF q, s
<1>5. q \in DOMAIN divider
  <2>1. q \in Path /\ s \in Path /\ q \o s \in L \cup DOMAIN divider
    BY <1>2, <1>3
  <2> QED BY <1>4, <2>1, AboveIsSplit
<1> QED BY <1>5 DEF q

\* The parcel of a node has the parcels of all below it.
LEMMA ParcelsNest ==
    ASSUME NEW L, Tree(L, DOMAIN divider), \A d \in DOMAIN divider : divider[d] \in Cut,
           NEW u \in Path, NEW s \in Path, u \o s \in L \cup DOMAIN divider
    PROVE  /\ Parcel(u \o s) \in Area /\ Inside(Parcel(u \o s), Parcel(u))
<1> DEFINE T == L \cup DOMAIN divider
           m == Len(s)
           Fine(v) == Parcel(u \o v) \in Area /\ Inside(Parcel(u \o v), Parcel(u))
           G == {n \in 0..m : \A v \in Path : Len(v) = n /\ u \o v \in T => Fine(v)}
<1>1. m \in Nat
  BY PathsType
<1>2. \A v \in Path : u \o v \in Path /\ Len(v) \in Nat
  BY PathsJoin, PathsType
<1>3. \A t \in T : t \in Path /\ Rooted(t)
  BY NodesAreRooted DEF Tree
<1>4. 0 \in G
  <2>1. ASSUME NEW v \in Path, Len(v) = 0, u \o v \in T PROVE Fine(v)
    <3>0. v = <<>>
      BY <2>1, PathsType
    <3>1. u \o v = u
      BY <3>0, PathsNone
    <3>2. PICK k \in [0..Len(u) -> Area] : Cuts(k, u) /\ Parcel(u) = k[Len(u)]
      BY <1>3, <2>1, <3>1, ParcelCuts
    <3>3. Len(u) \in 0..Len(u)
      BY PathsType
    <3>4. Parcel(u) \in Area
      BY <3>2, <3>3
    <3>5. Inside(Parcel(u), Parcel(u))
      BY <3>4 DEF Area, Inside
    <3> QED BY <3>1, <3>4, <3>5
  <2> QED BY <1>1, <2>1
<1>5. ASSUME NEW n \in 0..m, n # m, n \in G PROVE n + 1 \in G
  <2>1. n \in Nat /\ n + 1 \in 0..m
    BY <1>1, <1>5
  <2>2. ASSUME NEW v \in Path, Len(v) = n + 1, u \o v \in T PROVE Fine(v)
    <3>1. v # <<>>
      BY <2>1, <2>2, PathsType
    <3>2. PICK w, j : w \in Path /\ j \in Turn /\ v = To(w, j)
      BY <3>1, PathsSplit
    <3>3. Len(v) = Len(w) + 1 /\ Len(w) \in Nat
      BY <3>2, StepType, PathsType
    <3>4. Len(w) = n
      BY <2>1, <2>2, <3>3
    <3>5. u \o v = To(u \o w, j) /\ u \o w \in Path
      BY <1>2, <3>2, StepsJoin
    <3>6. PICK e : e = u \o w /\ e \in Path /\ To(e, j) = u \o v /\ To(e, j) \in T
      BY <2>2, <3>5
    <3>7. e \in DOMAIN divider
      <4>1. <<j>> \in Path /\ To(e, j) = e \o <<j>>
        BY <3>2, <3>6, StepType DEF To
      <4>2. <<j>> # <<>>
        BY Len(<<j>>) = 1, PathsType
      <4>3. e \o <<j>> \in L \cup DOMAIN divider /\ e \in Path
        BY <3>6, <4>1
      <4> QED BY <4>1, <4>2, <4>3, AboveIsSplit
    <3>8. Fine(w)
      BY <1>5, <3>2, <3>4, <3>6, <3>7
    <3>9. /\ Parcel(e) \in Area /\ divider[e] \in Cut
          /\ Parcel(To(e, j)) = Part(Parcel(e), divider[e], j)
      BY <1>3, <3>2, <3>6, ParcelStep
    <3>10. Parcel(To(e, j)) \in Area /\ Inside(Parcel(To(e, j)), Parcel(e))
      BY <3>2, <3>9, PartsFit
    <3>11. PICK a, b, c : /\ a = Parcel(To(e, j)) /\ b = Parcel(e) /\ c = Parcel(u)
                          /\ a \in Area /\ b \in Area /\ Inside(a, b) /\ Inside(b, c)
      BY <3>6, <3>8, <3>9, <3>10
    <3>12. c \in Area
      <4>1. e \in T
        BY <3>7
      <4>2. CASE w = <<>>
        BY <3>6, <3>11, <4>2, PathsNone
      <4>3. CASE w # <<>>
        <5>1. u \in DOMAIN divider
          BY <3>2, <3>6, <4>1, <4>3, AboveIsSplit
        <5>2. PICK k \in [0..Len(u) -> Area] : Cuts(k, u) /\ Parcel(u) = k[Len(u)]
          BY <1>3, <5>1, ParcelCuts
        <5>3. Len(u) \in 0..Len(u)
          BY PathsType
        <5> QED BY <3>11, <5>2, <5>3
      <4> QED BY <4>2, <4>3
    <3>13. Inside(a, c)
      <4>1. a \in Area /\ b \in Area /\ c \in Area /\ Inside(a, b) /\ Inside(b, c)
        BY <3>11, <3>12
      <4> QED BY <4>1, InsideThrough
    <3> QED BY <3>6, <3>11, <3>13
  <2> QED BY <2>1, <2>2
<1> HIDE DEF G
<1>6. 0..m \subseteq G
  BY <1>1, <1>4, <1>5, UpTo
<1>7. m \in G
  BY <1>1, <1>6
<1> QED BY <1>7 DEF G

\* The parcels of two leaves lie apart.
LEMMA ParcelsApart ==
    ASSUME NEW L, Tree(L, DOMAIN divider), \A d \in DOMAIN divider : divider[d] \in Cut,
           NEW p \in L, NEW q \in L, p # q
    PROVE  /\ Parcel(p) \in Area /\ Parcel(q) \in Area
           /\ Apart(Parcel(p), Parcel(q)) \/ Apart(Parcel(q), Parcel(p))
<1> DEFINE T == L \cup DOMAIN divider
<1>1. PICK u, s, t, i, j : /\ u \in Path /\ s \in Path /\ t \in Path /\ i \in Turn /\ j \in Turn
                           /\ i # j /\ p = To(u, i) \o s /\ q = To(u, j) \o t
  <2>1. Parted(p, q)
    BY LeavesPart
  <2> QED BY <2>1 DEF Parted
<1>2. PICK a, b : a = To(u, i) /\ b = To(u, j) /\ a \in Path /\ b \in Path
  BY <1>1, StepType
<1>3. p = a \o s /\ q = b \o t /\ a \o s \in T /\ b \o t \in T
  BY <1>1, <1>2
<1>4. Parcel(p) \in Area /\ Inside(Parcel(p), Parcel(a))
  BY <1>1, <1>2, <1>3, ParcelsNest
<1>5. Parcel(q) \in Area /\ Inside(Parcel(q), Parcel(b))
  BY <1>1, <1>2, <1>3, ParcelsNest
<1>6. a \in T /\ b \in T
  <2>1. ASSUME NEW c \in Path, NEW v \in Path, c \o v \in T PROVE c \in T
    <3>1. CASE v = <<>>
      BY <2>1, <3>1, PathsNone
    <3>2. CASE v # <<>>
      BY <2>1, <3>2, AboveIsSplit
    <3> QED BY <3>1, <3>2
  <2> QED BY <1>1, <1>2, <1>3, <2>1
<1>7. Rooted(a) /\ Rooted(b)
  BY <1>6, NodesAreRooted
<1>8. /\ Parcel(u) \in Area /\ divider[u] \in Cut
      /\ Parcel(a) = Part(Parcel(u), divider[u], i)
  BY <1>1, <1>2, <1>7, ParcelStep
<1>9. Parcel(b) = Part(Parcel(u), divider[u], j)
  BY <1>1, <1>2, <1>7, ParcelStep
<1>10. Parcel(a) \in Area /\ Parcel(b) \in Area
  BY <1>1, <1>8, <1>9, PartsFit
<1>11. Apart(Part(Parcel(u), divider[u], 1), Part(Parcel(u), divider[u], 2))
  BY <1>8, PartsFit
<1>12. (i = 1 /\ j = 2) \/ (i = 2 /\ j = 1)
  BY <1>1 DEF Turn
<1>13. Apart(Parcel(a), Parcel(b)) \/ Apart(Parcel(b), Parcel(a))
  BY <1>8, <1>9, <1>11, <1>12
<1>14. PICK pp, qq, aa, bb : pp = Parcel(p) /\ qq = Parcel(q) /\ aa = Parcel(a) /\ bb = Parcel(b)
  OBVIOUS
<1>15. /\ pp.x \in Int /\ pp.y \in Int /\ pp.w \in Int /\ pp.h \in Int
       /\ qq.x \in Int /\ qq.y \in Int /\ qq.w \in Int /\ qq.h \in Int
       /\ aa.x \in Int /\ aa.y \in Int /\ aa.w \in Int /\ aa.h \in Int
       /\ bb.x \in Int /\ bb.y \in Int /\ bb.w \in Int /\ bb.h \in Int
  BY <1>4, <1>5, <1>10, <1>14 DEF Area
<1>16. Inside(pp, aa) /\ Inside(qq, bb) /\ (Apart(aa, bb) \/ Apart(bb, aa))
  BY <1>4, <1>5, <1>13, <1>14
<1>17. Apart(pp, qq) \/ Apart(qq, pp)
  BY <1>15, <1>16 DEF Inside, Apart
<1> QED BY <1>4, <1>5, <1>14, <1>17

-----------------------------------------------------------------------------
(* Tiling: the invariant.                                                  *)

Divider == [across : BOOLEAN, percent : MinPercent..(100 - MinPercent)]
IsFunction(f) == f = [t \in DOMAIN f |-> f[t]]
OneToOne(f) == \A s, t \in DOMAIN f : f[s] = f[t] => s = t

\* The tree is whole and holds every tile at one leaf.
Whole(f, g, held) ==
    /\ Tree(DOMAIN f, DOMAIN g) /\ IsFunction(f) /\ OneToOne(f) /\ Range(f) = held
    /\ \A d \in DOMAIN g : g[d] \in Divider

TilingInv ==
    /\ Whole(leaf, divider, tiles)
    /\ tiles \subseteq Pane /\ IsFiniteSet(tiles)
    /\ FocusIsALeaf /\ seatFocus \in Pane \cup {NoPane}

LEMMA EmptyTree ==
    /\ DOMAIN <<>> = {} /\ Whole(<<>>, <<>>, {})
    /\ \A f : IsFunction(f) /\ DOMAIN f = {} => f = <<>>
<1>1. DOMAIN <<>> = {}
  OBVIOUS
<1>2. Tree({}, {})
  BY DEF Tree
<1>3. IsFunction(<<>>) /\ OneToOne(<<>>) /\ Range(<<>>) = {}
  BY <1>1 DEF IsFunction, OneToOne, Range
<1>4. \A f : IsFunction(f) /\ DOMAIN f = {} => f = <<>>
  <2> SUFFICES ASSUME NEW f, IsFunction(f), DOMAIN f = {} PROVE f = <<>>
    OBVIOUS
  <2>1. f = [t \in {} |-> f[t]]
    BY DEF IsFunction
  <2>2. <<>> = [t \in {} |-> f[t]]
    OBVIOUS
  <2> QED BY <2>1, <2>2
<1> QED BY <1>1, <1>2, <1>3, <1>4 DEF Whole

\* A tree of one leaf.
LEMMA OneLeaf ==
    ASSUME NEW p PROVE Whole(At(<<>>, p), <<>>, {p})
<1>1. DOMAIN At(<<>>, p) = {<<>>} /\ At(<<>>, p)[<<>>] = p
  BY DEF At
<1>2. Tree({<<>>}, {})
  BY PathsType DEF Tree
<1>3. IsFunction(At(<<>>, p))
  BY <1>1 DEF IsFunction, At
<1>4. OneToOne(At(<<>>, p)) /\ Range(At(<<>>, p)) = {p}
  BY <1>1 DEF OneToOne, Range
<1>5. DOMAIN <<>> = {}
  OBVIOUS
<1> QED BY <1>1, <1>2, <1>3, <1>4, <1>5 DEF Whole

LEMMA PathIsThere ==
    ASSUME NEW p, InTree(p) PROVE PathOf(p) \in DOMAIN leaf /\ leaf[PathOf(p)] = p
<1>1. \E path \in DOMAIN leaf : leaf[path] = p
  BY DEF InTree, Range
<1> QED BY <1>1 DEF PathOf

LEMMA JoinedFunction == \A f, g : IsFunction(Joined(f, g))
  BY DEF IsFunction, Joined

\* The window in focus makes room for another.
LEMMA SplitWhole ==
    ASSUME NEW f, NEW g, NEW held, Whole(f, g, held), NEW q \in DOMAIN f, NEW p, p \notin held,
           NEW e \in Divider,
           NEW l, l = Joined(Joined(Elsewhere(f, q), Moved(f, q, To(q, 1))), At(To(q, 2), p)),
           NEW d, d = Joined(Joined(Elsewhere(g, q), Moved(g, q, To(q, 1))), At(q, e))
    PROVE  Whole(l, d, held \cup {p})
<1> DEFINE one == To(q, 1)
           two == To(q, 2)
<1>1. Tree(DOMAIN f, DOMAIN g)
  BY DEF Whole
<1>2. /\ To(q, 1) \notin DOMAIN f \cup DOMAIN g /\ To(q, 2) \notin DOMAIN f \cup DOMAIN g
      /\ DOMAIN l = (DOMAIN f \ {q}) \cup {To(q, 1), To(q, 2)}
      /\ l[To(q, 1)] = f[q] /\ l[To(q, 2)] = p
      /\ \A t \in DOMAIN f : t # q => l[t] = f[t]
      /\ DOMAIN d = DOMAIN g \cup {q} /\ d[q] = e
      /\ \A t \in DOMAIN g : d[t] = g[t]
  <2>1. SplitInto(l, d, f, g, q, p, e)
    BY <1>1, SplitLeaf
  <2> QED BY <2>1 DEF SplitInto
<1>3. Tree(DOMAIN l, DOMAIN d)
  BY <1>1, <1>2, SplitTree
<1>4. IsFunction(l)
  BY JoinedFunction
<1> HIDE DEF one, two
<1>5. /\ DOMAIN l = (DOMAIN f \ {q}) \cup {one, two} /\ l[one] = f[q] /\ l[two] = p
      /\ one \notin DOMAIN f
  BY <1>2 DEF one, two
<1>6. OneToOne(f) /\ Range(f) = held
  BY DEF Whole
<1>7. \A t \in DOMAIN f : f[t] # p
  BY <1>6 DEF Range
<1>8. OneToOne(l)
  BY <1>2, <1>5, <1>6, <1>7 DEF OneToOne
<1>9. Range(l) = held \cup {p}
  <2>1. ASSUME NEW t \in DOMAIN l PROVE l[t] \in held \cup {p}
    BY <1>2, <1>5, <1>6, <2>1 DEF Range
  <2>2. ASSUME NEW x \in held PROVE \E t \in DOMAIN l : l[t] = x
    <3>1. PICK t \in DOMAIN f : f[t] = x
      BY <1>6, <2>2 DEF Range
    <3> QED BY <1>2, <1>5, <3>1
  <2>3. two \in DOMAIN l /\ l[two] = p
    BY <1>5
  <2> QED BY <2>1, <2>2, <2>3 DEF Range
<1>10. \A t \in DOMAIN d : d[t] \in Divider
  BY <1>2 DEF Whole
<1> QED BY <1>3, <1>4, <1>8, <1>9, <1>10 DEF Whole

\* The sibling of a leaf that goes takes the place of both.
LEMMA CollapseWhole ==
    ASSUME NEW f, NEW g, NEW held, Whole(f, g, held), NEW path \in DOMAIN f, path # <<>>,
           NEW l, NEW d, NEW r, NEW q, r = Front(path), q = r \o <<3 - Last(path)>>,
           l = Joined(Elsewhere(f, r), Moved(f, q, r)),
           d = Joined(Elsewhere(g, r), Moved(g, q, r))
    PROVE  Whole(l, d, held \ {f[path]}) /\ DOMAIN l \cup DOMAIN d # {}
<1>1. /\ Tree(DOMAIN f, DOMAIN g) /\ OneToOne(f) /\ Range(f) = held
      /\ \A t \in DOMAIN g : g[t] \in Divider
      /\ DOMAIN f \in SUBSET Path /\ DOMAIN g \in SUBSET Path
  BY DEF Whole, Tree
<1>2. PICK u, i : u \in Path /\ i \in Turn /\ path = To(u, i)
  BY <1>1, PathsSplit
<1>3. r = u /\ Last(path) = i
  BY <1>2, StepEnds
<1>4. PICK j : j = 3 - i /\ j \in Turn /\ j # i
  BY <1>2 DEF Turn
<1>5. q = To(r, j) /\ path = To(r, i)
  BY <1>2, <1>3, <1>4 DEF To
<1>6. Goes(DOMAIN f, DOMAIN g, r, i, j)
  BY <1>2, <1>3, <1>4, <1>5 DEF Goes
<1>7. r \in DOMAIN g /\ q \in DOMAIN f \cup DOMAIN g /\ q \in Path /\ r \in Path
  <2>1. r \in DOMAIN g /\ To(r, j) \in DOMAIN f \cup DOMAIN g /\ To(r, j) \in Path
    BY <1>1, <1>6, ParentIsSplit
  <2> QED BY <1>2, <1>3, <1>5, <2>1
<1>8. Len(q) = Len(r) + 1
  BY <1>4, <1>5, <1>7, StepType
<1>9. Lifted(l, f, r, q) /\ Lifted(d, g, r, q)
  BY <1>1, <1>7, LiftedIs
<1>10. PulledUp(DOMAIN l, DOMAIN f, r, q) /\ PulledUp(DOMAIN d, DOMAIN g, r, q)
  BY <1>9 DEF Lifted
<1>11. Tree(DOMAIN l, DOMAIN d)
  BY <1>1, <1>7, <1>8, <1>10, CollapseTree
<1>12. OneToOne(l) /\ Range(l) = held \ {f[path]}
  <2>1. /\ \A s, t \in DOMAIN f : f[s] = f[t] => s = t
        /\ Lifted(l, f, r, To(r, j))
    BY <1>1, <1>5, <1>9 DEF OneToOne
  <2>2. /\ \A s, t \in DOMAIN l : l[s] = l[t] => s = t
        /\ Range(l) = Range(f) \ {f[To(r, i)]}
    BY <1>1, <1>6, <2>1, CollapseRange
  <2> QED BY <1>1, <1>5, <2>2 DEF OneToOne
<1>13. IsFunction(l)
  BY JoinedFunction
<1>14. ASSUME NEW t \in DOMAIN d PROVE d[t] \in Divider
  <2>1. CASE t \in DOMAIN g /\ ~IsPrefix(r, t)
    BY <1>1, <1>9, <2>1 DEF Lifted
  <2>2. CASE \E s \in Path : t = r \o s /\ q \o s \in DOMAIN g
    <3>1. PICK s : s \in Path /\ t = r \o s /\ q \o s \in DOMAIN g
      BY <2>2
    <3>2. d[t] = g[q \o s]
      BY <1>9, <3>1 DEF Lifted
    <3> QED BY <1>1, <3>1, <3>2
  <2> QED BY <1>10, <2>1, <2>2 DEF PulledUp
<1>15. r \in DOMAIN l \cup DOMAIN d
  <2>1. r \o <<>> = r /\ q \o <<>> = q /\ <<>> \in Path
    BY <1>7, PathsNone, PathsType
  <2> QED BY <1>7, <1>10, <2>1 DEF PulledUp
<1> QED BY <1>11, <1>12, <1>13, <1>14, <1>15 DEF Whole

\* A tree with a leaf at its root is that leaf.
LEMMA RootAlone ==
    ASSUME NEW f, NEW g, NEW held, Whole(f, g, held), <<>> \in DOMAIN f
    PROVE  held = {f[<<>>]}
<1>1. Tree(DOMAIN f, DOMAIN g) /\ DOMAIN f \in SUBSET Path /\ Range(f) = held
  BY DEF Whole, Tree
<1>2. ASSUME NEW t \in DOMAIN f PROVE t = <<>>
  <2>1. t \in Path /\ <<>> \o t = t
    BY <1>1, PathsNone
  <2>2. PICK root \in DOMAIN f : root \o t \in DOMAIN f
    BY <2>1
  <2> QED BY <1>1, <2>1, <2>2, LeafIsAlone
<1> QED BY <1>1, <1>2 DEF Range

\* The first pane of a tree that has one is one of them.
LEMMA FirstPaneIsOne ==
    ASSUME NEW f, NEW g, NEW held, Whole(f, g, held), held # {}
    PROVE  FirstPane(f) \in held
<1> DEFINE First(path) ==
              \A other \in DOMAIN f :
                 \/ other = path
                 \/ \E i \in DOMAIN path \cap DOMAIN other :
                       /\ path[i] < other[i]
                       /\ \A j \in 1..(i - 1) : path[j] = other[j]
<1>1. Tree(DOMAIN f, DOMAIN g) /\ Range(f) = held
  BY DEF Whole
<1>2. DOMAIN f \cup DOMAIN g # {}
  BY <1>1 DEF Range
<1>3. \E path \in DOMAIN f : First(path)
  BY <1>1, <1>2, LeftmostLeaf
<1> DEFINE c == CHOOSE path \in DOMAIN f : First(path)
<1>4. c \in DOMAIN f
  <2> HIDE DEF First
  <2> QED BY <1>3
<1>5. FirstPane(f) = f[c]
  BY DEF FirstPane
<1> HIDE DEF c
<1> QED BY <1>1, <1>4, <1>5 DEF Range
-----------------------------------------------------------------------------
(* Tiling: what the operations leave.                                      *)

\* Nothing is in a tree that holds nothing, and something in one that holds.
LEMMA HeldIsThere ==
    ASSUME NEW f, NEW g, NEW held, Whole(f, g, held)
    PROVE  held = {} <=> f = <<>>
<1>1. IsFunction(f) /\ Range(f) = held
  BY DEF Whole
<1>2. held = {} <=> DOMAIN f = {}
  BY <1>1 DEF Range
<1> QED BY <1>1, <1>2, EmptyTree

LEMMA GrowKeeps ==
    ASSUME TilingInv, NEW p \in Pane, p \notin tiles, Grow(p)
    PROVE  Whole(leaf', divider', tiles \cup {p})
<1>1. PICK f, g, held : f = leaf /\ g = divider /\ held = tiles
  OBVIOUS
<1>2. Whole(f, g, held) /\ (held = {} <=> f = <<>>)
  <2>1. Whole(f, g, held)
    BY <1>1 DEF TilingInv
  <2> QED BY <2>1, HeldIsThere
<1>3. CASE leaf = <<>>
  <2>1. leaf' = At(<<>>, p) /\ divider' = <<>>
    BY <1>3 DEF Grow
  <2>2. tiles \cup {p} = {p}
    BY <1>1, <1>2, <1>3
  <2> QED BY <2>1, <2>2, OneLeaf
<1>4. CASE leaf # <<>>
  <2>1. InTree(treeFocus)
    <3>1. Range(leaf) = tiles /\ tiles # {}
      BY <1>1, <1>2, <1>4 DEF TilingInv, Whole
    <3> QED BY <3>1 DEF TilingInv, FocusIsALeaf, InTree
  <2>2. PICK q \in DOMAIN f : q = PathOf(treeFocus)
    BY <1>1, <2>1, PathIsThere
  <2>3. PICK across \in BOOLEAN : across = (Depth(treeFocus) % 2 = 0)
    OBVIOUS
  <2>4. SplitNode(q, across, p)
    BY <1>4, <2>1, <2>2, <2>3 DEF Grow
  <2>5. PICK e : e = Split(across, 50) /\ e \in Divider
    <3>1. 50 \in MinPercent..(100 - MinPercent)
      BY TilingAssumption DEF TilingAssumption
    <3>2. Split(across, 50) \in Divider
      BY <3>1 DEF Split, Divider
    <3> QED BY <3>2
  <2>6. PICK l, d : /\ l = Joined(Joined(Elsewhere(f, q), Moved(f, q, To(q, 1))), At(To(q, 2), p))
                    /\ d = Joined(Joined(Elsewhere(g, q), Moved(g, q, To(q, 1))), At(q, e))
    OBVIOUS
  <2>7. leaf' = l /\ divider' = d
    BY <1>1, <2>4, <2>5, <2>6 DEF SplitNode, To
  <2>8. p \notin held
    BY <1>1
  <2>9. Whole(l, d, held \cup {p})
    BY <1>2, <2>5, <2>6, <2>8, SplitWhole
  <2> QED BY <1>1, <2>7, <2>9
<1> QED BY <1>3, <1>4

LEMMA LeaveKeeps ==
    ASSUME TilingInv, NEW p, Leave(p)
    PROVE  Whole(leaf', divider', tiles') /\ tiles' = tiles \ {p} /\ p \in tiles
<1>1. PICK f, g, held : f = leaf /\ g = divider /\ held = tiles
  OBVIOUS
<1>2. Whole(f, g, held) /\ Range(f) = held
  BY <1>1 DEF TilingInv, Whole
<1>3. p \in tiles /\ tiles' = tiles \ {p}
  BY DEF Leave, Holds
<1>4. PICK path \in DOMAIN f : path = PathOf(p) /\ f[path] = p
  <2>1. InTree(p)
    BY <1>1, <1>2, <1>3 DEF InTree
  <2> QED BY <1>1, <2>1, PathIsThere
<1>5. Collapse(path)
  BY <1>4 DEF Leave
<1>6. CASE path = <<>>
  <2>1. held = {p}
    BY <1>2, <1>4, <1>6, RootAlone
  <2>2. leaf' = <<>> /\ divider' = <<>> /\ tiles' = {}
    BY <1>1, <1>3, <1>5, <1>6, <2>1 DEF Collapse
  <2> QED BY <1>3, <2>2, EmptyTree
<1>7. CASE path # <<>>
  <2>1. PICK r, q : r = Front(path) /\ q = r \o <<3 - Last(path)>>
    OBVIOUS
  <2>2. PICK l, d : /\ l = Joined(Elsewhere(f, r), Moved(f, q, r))
                    /\ d = Joined(Elsewhere(g, r), Moved(g, q, r))
    OBVIOUS
  <2>3. leaf' = l /\ divider' = d
    BY <1>1, <1>5, <1>7, <2>1, <2>2 DEF Collapse
  <2>4. Whole(l, d, held \ {f[path]})
    BY <1>2, <1>4, <1>7, <2>1, <2>2, CollapseWhole
  <2> QED BY <1>1, <1>3, <1>4, <2>3, <2>4
<1> QED BY <1>6, <1>7

LEMMA RefocusKeeps ==
    ASSUME TilingInv, NEW p, Leave(p), Refocus(p) PROVE FocusIsALeaf'
<1>1. PICK f, g, held : f = leaf' /\ g = divider' /\ held = tiles'
  OBVIOUS
<1>2. Whole(f, g, held) /\ tiles' = tiles \ {p} /\ p \in tiles
  BY <1>1, LeaveKeeps
<1>3. held = {} <=> f = <<>>
  BY <1>2, HeldIsThere
<1>4. treeFocus \in tiles
  BY <1>2 DEF TilingInv, FocusIsALeaf
<1>5. CASE treeFocus # p
  BY <1>2, <1>4, <1>5 DEF Refocus, FocusIsALeaf
<1>6. CASE treeFocus = p /\ f = <<>>
  BY <1>1, <1>3, <1>6 DEF Refocus, FocusIsALeaf
<1>7. CASE treeFocus = p /\ f # <<>>
  <2>1. treeFocus' = FirstPane(f)
    BY <1>1, <1>7 DEF Refocus
  <2>2. FirstPane(f) \in held
    BY <1>2, <1>3, <1>7, FirstPaneIsOne
  <2> QED BY <1>1, <2>1, <2>2 DEF FocusIsALeaf
<1> QED BY <1>5, <1>6, <1>7

LEMMA ResizeKeeps ==
    ASSUME TilingInv, NEW dir, ResizeFocused(dir) PROVE Whole(leaf, divider', tiles)
<1>1. PICK f, g, held : f = leaf /\ g = divider /\ held = tiles
  OBVIOUS
<1>2. Whole(f, g, held)
  BY <1>1 DEF TilingInv
<1>3. PICK q, moved :
         /\ moved = divider[q].percent
                    + (IF dir \in {"right", "below"} THEN DeltaPercent ELSE -DeltaPercent)
         /\ divider' = [divider EXCEPT ![q].percent =
                  IF moved < MinPercent THEN MinPercent
                  ELSE IF moved > 100 - MinPercent THEN 100 - MinPercent ELSE moved]
  BY DEF ResizeFocused
<1>4. PICK d : d = divider'
  OBVIOUS
<1>5. DOMAIN d = DOMAIN g
  BY <1>1, <1>3, <1>4
<1>6. ASSUME NEW t \in DOMAIN g PROVE d[t] \in Divider
  <2>1. g[t] \in Divider
    BY <1>2 DEF Whole
  <2>2. CASE t # q
    <3>1. d[t] = g[t]
      BY <1>1, <1>3, <1>4, <2>2
    <3> QED BY <2>1, <3>1
  <2>3. CASE t = q
    <3>1. moved \in Int
      <4>1. divider[q].percent \in Int
        BY <1>1, <2>1, <2>3, TilingAssumption DEF Divider, TilingAssumption
      <4> QED BY <1>3, <4>1, TilingAssumption DEF TilingAssumption
    <3>2. PICK n : n = IF moved < MinPercent THEN MinPercent
                  ELSE IF moved > 100 - MinPercent THEN 100 - MinPercent ELSE moved
      OBVIOUS
    <3>3. n \in MinPercent..(100 - MinPercent)
      BY <3>1, <3>2, TilingAssumption DEF TilingAssumption
    <3>4. d[t] = [g[t] EXCEPT !.percent = n]
      BY <1>1, <1>3, <1>4, <2>3, <3>2
    <3> QED BY <2>1, <3>3, <3>4 DEF Divider
  <2> QED BY <2>2, <2>3
<1>7. Whole(f, d, held)
  BY <1>2, <1>5, <1>6 DEF Whole
<1> QED BY <1>1, <1>4, <1>7

LEMMA TilingInitHolds == TilingInit => TilingInv
<1> SUFFICES ASSUME TilingInit PROVE TilingInv
  OBVIOUS
<1>1. leaf = <<>> /\ divider = <<>> /\ tiles = {} /\ treeFocus = NoPane /\ seatFocus = NoPane
  BY DEF TilingInit
<1> QED BY <1>1, EmptyTree, FS_EmptySet DEF TilingInv, FocusIsALeaf

LEMMA TilingStepHolds == TilingInv /\ [TilingNext]_tilingVars => TilingInv'
<1> SUFFICES ASSUME TilingInv, [TilingNext]_tilingVars PROVE TilingInv'
  OBVIOUS
<1>1. /\ Whole(leaf, divider, tiles) /\ tiles \subseteq Pane /\ IsFiniteSet(tiles)
      /\ FocusIsALeaf /\ seatFocus \in Pane \cup {NoPane}
  BY DEF TilingInv
<1>2. ASSUME NEW p \in Pane, MapWindow(p) PROVE TilingInv'
  <2>1. /\ p \notin tiles /\ Grow(p) /\ tiles' = tiles \cup {p} /\ treeFocus' = p
        /\ seatFocus' \in {p, seatFocus}
    BY <1>2 DEF MapWindow, TreeMap, Holds
  <2>2. Whole(leaf', divider', tiles')
    BY <2>1, GrowKeeps
  <2>3. IsFiniteSet(tiles')
    BY <1>1, <2>1, FS_AddElement
  <2> QED BY <1>1, <2>1, <2>2, <2>3 DEF TilingInv, FocusIsALeaf
<1>3. ASSUME NEW p \in Pane, Leave(p)
      PROVE  /\ Whole(leaf', divider', tiles') /\ tiles' = tiles \ {p}
             /\ tiles' \subseteq Pane /\ IsFiniteSet(tiles')
  <2>1. Whole(leaf', divider', tiles') /\ tiles' = tiles \ {p}
    BY <1>3, LeaveKeeps
  <2> QED BY <1>1, <2>1, FS_RemoveElement
<1>4. ASSUME NEW p \in Pane, FloatWindow(p) PROVE TilingInv'
  <2>1. Leave(p) /\ Refocus(p) /\ seatFocus' = IF seatFocus = p THEN NoPane ELSE seatFocus
    BY <1>4 DEF FloatWindow
  <2>2. FocusIsALeaf'
    BY <2>1, RefocusKeeps
  <2> QED BY <1>1, <1>3, <2>1, <2>2 DEF TilingInv
<1>5. ASSUME NEW p \in Pane, CloseWindow(p) PROVE TilingInv'
  <2>1. Leave(p)
    BY <1>5 DEF CloseWindow
  <2>2. CASE \E x \in tiles' : treeFocus' = x /\ seatFocus' = x
    BY <1>1, <1>3, <2>1, <2>2 DEF TilingInv, FocusIsALeaf
  <2>3. CASE Refocus(p) /\ seatFocus' = IF seatFocus = p THEN NoPane ELSE seatFocus
    <3>1. FocusIsALeaf'
      BY <2>1, <2>3, RefocusKeeps
    <3> QED BY <1>1, <1>3, <2>1, <2>3, <3>1 DEF TilingInv
  <2> QED BY <1>5, <2>2, <2>3 DEF CloseWindow
<1>6. ASSUME NEW p, FocusWindow(p) PROVE TilingInv'
  BY <1>1, <1>6 DEF FocusWindow, Holds, TilingInv, FocusIsALeaf
<1>7. ASSUME NEW p \in Pane \cup {NoPane}, ClickWindow(p) PROVE TilingInv'
  BY <1>1, <1>7 DEF ClickWindow, TilingInv, FocusIsALeaf
<1>8. ASSUME NEW dir, FocusDirection(dir) PROVE TilingInv'
  <2>1. PICK p : FocusWindow(p)
    BY <1>8 DEF FocusDirection
  <2> QED BY <1>6, <2>1
<1>9. ASSUME NEW dir, ResizeFocused(dir) PROVE TilingInv'
  <2>1. UNCHANGED <<leaf, tiles, treeFocus, seatFocus>>
    BY <1>9 DEF ResizeFocused
  <2>2. Whole(leaf', divider', tiles')
    BY <1>9, <2>1, ResizeKeeps
  <2> QED BY <1>1, <2>1, <2>2 DEF TilingInv, FocusIsALeaf
<1>10. CASE UNCHANGED tilingVars
  BY <1>1, <1>10 DEF tilingVars, TilingInv, FocusIsALeaf
<1>11. CASE TilingNext
  BY <1>2, <1>4, <1>5, <1>6, <1>7, <1>8, <1>9, <1>11 DEF TilingNext
<1> QED BY <1>10, <1>11

\* The tree that is whole holds every tile at one leaf.
LEMMA WholeHoldsOnce == TilingInv => EveryTileOnce
<1> SUFFICES ASSUME TilingInv PROVE EveryTileOnce
  OBVIOUS
<1>1. /\ Tree(DOMAIN leaf, DOMAIN divider) /\ IsFunction(leaf) /\ OneToOne(leaf)
      /\ Range(leaf) = tiles /\ IsFiniteSet(tiles)
  BY DEF TilingInv, Whole
<1>2. Arranged = DOMAIN leaf
  BY <1>1 DEF Arranged, Range
<1>3. Cardinality(DOMAIN leaf) = Cardinality(tiles)
  <2>1. leaf \in [DOMAIN leaf -> tiles] /\ \A x \in tiles : \E t \in DOMAIN leaf : leaf[t] = x
    BY <1>1 DEF IsFunction, Range
  <2>2. PICK f, held, paths : f = leaf /\ held = tiles /\ paths = DOMAIN leaf
    OBVIOUS
  <2>3. f \in Injection(paths, held)
    BY <1>1, <2>1, <2>2 DEF OneToOne, Injection, IsInjective
  <2>4. f \in Surjection(paths, held)
    BY <2>1, <2>2 DEF Surjection
  <2>5. IsFiniteSet(held)
    BY <1>1, <2>2
  <2>6. Cardinality(paths) = Cardinality(held)
    BY <2>3, <2>4, <2>5, FS_Injection
  <2> QED BY <2>2, <2>6
<1>4. UNION {{path \o <<1>>, path \o <<2>>} : path \in DOMAIN divider}
          = (DOMAIN leaf \cup DOMAIN divider) \ {<<>>}
  <2>1. ASSUME NEW path \in DOMAIN divider, NEW i \in {1, 2}
        PROVE  path \o <<i>> \in (DOMAIN leaf \cup DOMAIN divider) \ {<<>>}
    <3>1. path \in Path /\ i \in Turn /\ To(path, i) \in DOMAIN leaf \cup DOMAIN divider
      BY <1>1, <2>1 DEF Tree, Turn
    <3>2. To(path, i) # <<>>
      BY <3>1, StepType
    <3> QED BY <3>1, <3>2 DEF To
  <2>2. ASSUME NEW t \in DOMAIN leaf \cup DOMAIN divider, t # <<>>
        PROVE  \E path \in DOMAIN divider, i \in {1, 2} : t = path \o <<i>>
    BY <1>1, <2>2 DEF Tree, To, Turn
  <2> DEFINE Sides == UNION {{path \o <<1>>, path \o <<2>>} : path \in DOMAIN divider}
             Below == (DOMAIN leaf \cup DOMAIN divider) \ {<<>>}
  <2>3. ASSUME NEW t \in Sides PROVE t \in Below
    <3>1. PICK path \in DOMAIN divider : t \in {path \o <<1>>, path \o <<2>>}
      OBVIOUS
    <3>2. path \o <<1>> \in Below /\ path \o <<2>> \in Below
      BY <2>1, <3>1
    <3> QED BY <3>1, <3>2
  <2>4. ASSUME NEW t \in Below PROVE t \in Sides
    <3>1. PICK path \in DOMAIN divider, i \in {1, 2} : t = path \o <<i>>
      BY <2>2
    <3>2. t \in {path \o <<1>>, path \o <<2>>}
      BY <3>1
    <3> QED BY <3>1, <3>2
  <2> QED BY <2>3, <2>4
<1> QED BY <1>1, <1>2, <1>3, <1>4 DEF EveryTileOnce

\* What a frame is cut from, and the gap it leaves on each side.
LEMMA RoomForTheGap ==
    ASSUME NEW w \in Nat, w > 2 * GAP
    PROVE  AtLeast1(w - 2 * GAP) = w - 2 * GAP
  BY TilingAssumption DEF AtLeast1, TilingAssumption

LEMMA WholeKeepsTheGap == TilingInv => FramesKeepTheirGap
<1> SUFFICES ASSUME TilingInv, NEW p \in Arranged, NEW q \in Arranged, p # q,
                    Parcel(p).w > 2 * GAP, Parcel(p).h > 2 * GAP,
                    Parcel(q).w > 2 * GAP, Parcel(q).h > 2 * GAP
             PROVE  \/ Frame(p).x + Frame(p).w + 2 * GAP <= Frame(q).x
                    \/ Frame(q).x + Frame(q).w + 2 * GAP <= Frame(p).x
                    \/ Frame(p).y + Frame(p).h + 2 * GAP <= Frame(q).y
                    \/ Frame(q).y + Frame(q).h + 2 * GAP <= Frame(p).y
  BY DEF FramesKeepTheirGap
<1>1. Tree(DOMAIN leaf, DOMAIN divider) /\ \A d \in DOMAIN divider : divider[d] \in Cut
  <2>1. Divider \subseteq Cut
    BY TilingAssumption DEF Divider, Cut, TilingAssumption
  <2> QED BY <2>1 DEF TilingInv, Whole
<1>2. p \in DOMAIN leaf /\ q \in DOMAIN leaf
  BY DEF Arranged
<1>3. PICK a, b : a = Parcel(p) /\ b = Parcel(q)
  OBVIOUS
<1>4. a \in Area /\ b \in Area /\ (Apart(a, b) \/ Apart(b, a))
  <2>1. PICK L : L = DOMAIN leaf
    OBVIOUS
  <2>2. p \in L /\ q \in L /\ Tree(L, DOMAIN divider)
    BY <1>1, <1>2, <2>1
  <2>3. /\ Parcel(p) \in Area /\ Parcel(q) \in Area
        /\ Apart(Parcel(p), Parcel(q)) \/ Apart(Parcel(q), Parcel(p))
    BY <1>1, <2>2, ParcelsApart
  <2> QED BY <1>3, <2>3
<1>5. /\ a.x \in Int /\ a.y \in Int /\ a.w \in Nat /\ a.h \in Nat
      /\ b.x \in Int /\ b.y \in Int /\ b.w \in Nat /\ b.h \in Nat
  BY <1>4 DEF Area
<1>6. /\ AtLeast1(a.w - 2 * GAP) = a.w - 2 * GAP /\ AtLeast1(a.h - 2 * GAP) = a.h - 2 * GAP
      /\ AtLeast1(b.w - 2 * GAP) = b.w - 2 * GAP /\ AtLeast1(b.h - 2 * GAP) = b.h - 2 * GAP
  BY <1>3, <1>5, RoomForTheGap
<1>7. /\ Frame(p) = Span(a.x + GAP, a.y + GAP, a.w - 2 * GAP, a.h - 2 * GAP)
      /\ Frame(q) = Span(b.x + GAP, b.y + GAP, b.w - 2 * GAP, b.h - 2 * GAP)
  BY <1>3, <1>6 DEF Frame
<1>8. GAP \in Nat
  BY TilingAssumption DEF TilingAssumption
<1> QED BY <1>4, <1>5, <1>7, <1>8 DEF Apart, Span

\* Tiling: no sequence of opening, closing, floating and resizing drops a
\* window from the tree or leaves a hole in it; the tree has a leaf in focus
\* while it has one; and the frames of two windows stay two gaps apart.
THEOREM TilingAlwaysHolds == TilingSpec => []TilingHolds
<1>1. TilingInv => TilingHolds
  BY WholeHoldsOnce, WholeKeepsTheGap DEF TilingHolds, TilingInv
<1> QED BY <1>1, TilingInitHolds, TilingStepHolds, PTL DEF TilingSpec
=============================================================================
