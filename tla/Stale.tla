-------------------------------- MODULE Stale --------------------------------
(***************************************************************************)
(* The stale scan: what the display shows compared with a full repaint,    *)
(* row by row, the runs merged into regions, each region named after the   *)
(* element it lies in, and beside it the verdict on the copy to the        *)
(* scanout.                                                                *)
(*                                                                         *)
(* Of two pictures only the set of pixels that differ in colour matters,   *)
(* and of two copies the rows that differ; pixels are pairs <<x, y>>.      *)
(***************************************************************************)
EXTENDS Integers, FiniteSets, Sequences, SequencesExt, Lists

CONSTANTS
    ScanWidth, ScanHeight,      \* the picture
    ElementLists        \* the rectangles a frame drew, front to back

\* A picture holds a pixel, and an element covers no less than nothing.
ASSUME StaleAssumption ==
    /\ ScanWidth \in Nat \ {0} /\ ScanHeight \in Nat \ {0}
    /\ \A list \in ElementLists :
          list \in Seq([x : Int, y : Int, w : Nat, h : Nat])

VARIABLES
    differing,      \* the pixels the two readbacks differ in
    baselineRows,   \* rows the readback of the natural-age render holds
    drawnElements,  \* what the frame drew, and the background last
    scanRow,        \* the next row of the scan
    regions,        \* StaleReport.regions
    compared,       \* StaleReport.compared_pixels
    flushCheck      \* the answer of check_flush, and what it was given

staleVars == <<differing, baselineRows, drawnElements, scanRow, regions, compared, flushCheck>>

ScanPixels == (0 .. ScanWidth - 1) \X (0 .. ScanHeight - 1)
Box(x, y, w, h) == [x |-> x, y |-> y, w |-> w, h |-> h]
Inside(p, r) == p[1] \in r.x .. r.x + r.w - 1 /\ p[2] \in r.y .. r.y + r.h - 1
Least(S) == CHOOSE n \in S : \A m \in S : n <= m
Greatest(S) == CHOOSE n \in S : \A m \in S : m <= n
Larger(m, n) == IF m > n THEN m ELSE n
Smaller(m, n) == IF m < n THEN m ELSE n
NoName == -1
Background == 0
Region(r, pixels) == [box |-> r, pixels |-> pixels, attribution |-> NoName]
NotChecked == [verdict |-> "none"]

\* The frame's elements, and "background" which is pushed after them.
Named(list) ==
    [i \in DOMAIN list |-> [name |-> i, box |-> list[i]]]
    \o <<[name |-> Background, box |-> Box(0, 0, ScanWidth, ScanHeight)]>>

-----------------------------------------------------------------------------
(* scan.                                                                   *)

\* The columns of a row that differ: its run goes from the first to the last.
RunOf(y) == {p[1] : p \in {q \in differing : q[2] = y}}

\* A row joins the last region when it follows it and their extents meet.
Joins(box, x0, x1, y) ==
    /\ box.y + box.h = y
    /\ x0 <= box.x + box.w /\ x1 >= box.x

\* Mutant: the row's pixels are not counted in.
GrownUncounted(region, x0, x1, n) ==
    LET left == Smaller(region.box.x, x0)
        right == Larger(region.box.x + region.box.w, x1 + 1)
    IN  Region(Box(left, region.box.y, right - left, region.box.h + 1), region.pixels)

Grown(region, x0, x1, n) ==
    LET left == Smaller(region.box.x, x0)
        right == Larger(region.box.x + region.box.w, x1 + 1)
    IN  Region(Box(left, region.box.y, right - left, region.box.h + 1), region.pixels + n)

\* A buffer that is too short is not compared at all.
ScanBlind ==
    /\ scanRow = 0 /\ baselineRows < ScanHeight
    /\ scanRow' = ScanHeight
    /\ UNCHANGED <<differing, baselineRows, drawnElements, regions, compared, flushCheck>>

ScanOneRow ==
    /\ scanRow < ScanHeight /\ baselineRows = ScanHeight
    /\ LET run == RunOf(scanRow)
           x0 == Least(run)
           x1 == Greatest(run)
           n == Cardinality({q \in differing : q[2] = scanRow})
       IN  regions' = IF run = {} THEN regions
                      ELSE IF regions # <<>> /\ Joins(Last(regions).box, x0, x1, scanRow)
                      THEN Append(Front(regions), Grown(Last(regions), x0, x1, n))
                      ELSE Append(regions, Region(Box(x0, scanRow, x1 - x0 + 1, 1), n))
    /\ scanRow' = scanRow + 1
    /\ compared' = ScanWidth * ScanHeight
    /\ UNCHANGED <<differing, baselineRows, drawnElements, flushCheck>>

-----------------------------------------------------------------------------
(* attribute.                                                              *)

Encloses(outer, r) ==
    /\ r.x >= outer.x /\ r.x + r.w <= outer.x + outer.w
    /\ r.y >= outer.y /\ r.y + r.h <= outer.y + outer.h
Area(r) == r.w * r.h

\* Mutant: the first element that contains the region is its name.
NameOfFirst(r) ==
    LET around == {i \in DOMAIN drawnElements : Encloses(drawnElements[i].box, r)}
    IN  IF around = {} THEN NoName ELSE drawnElements[Least(around)].name

\* The smallest element that contains the region, the front one of equals.
NameOf(r) ==
    LET around == {i \in DOMAIN drawnElements : Encloses(drawnElements[i].box, r)}
        wins(i) == \A j \in around :
            \/ Area(drawnElements[i].box) < Area(drawnElements[j].box)
            \/ Area(drawnElements[i].box) = Area(drawnElements[j].box) /\ i <= j
    IN  IF around = {} THEN NoName ELSE drawnElements[CHOOSE i \in around : wins(i)].name

Attribute ==
    /\ scanRow = ScanHeight
    /\ regions' = [i \in DOMAIN regions |-> [regions[i] EXCEPT !.attribution = NameOf(regions[i].box)]]
    /\ scanRow' = ScanHeight + 1
    /\ UNCHANGED <<differing, baselineRows, drawnElements, compared, flushCheck>>

-----------------------------------------------------------------------------
(* check_flush and the report.                                             *)

\* compare_flush: it stops at the first row that one of the buffers lacks.
CompareFlush(mappedRows, lostRows) ==
    LET rows == {y \in lostRows : y < mappedRows}
    IN  CASE mappedRows = 0 -> "blind"
          [] mappedRows > 0 /\ rows = {} -> "clean"
          [] OTHER -> "lost"

\* Mutant: a slot this frame did not write is compared all the same.
CheckFlushOfAnySlot(readback, flushed, mappedRows, lostRows) ==
    IF ~readback THEN "blind" ELSE CompareFlush(mappedRows, lostRows)

\* A renderer that does not map its scanout has no rows to compare.
CheckFlush(readback, flushed, mappedRows, lostRows) ==
    IF ~readback \/ flushed = 0 THEN "blind" ELSE CompareFlush(mappedRows, lostRows)

\* repainted_by_scan.
RepaintedByScan(mapped, flushed) == ~mapped \/ flushed >= ScanHeight

\* Rows stand for bytes, in what was flushed as in what was lost.
Report(readback, flushed, mappedRows, lostRows) ==
    /\ scanRow = ScanHeight + 1 /\ flushCheck = NotChecked
    /\ flushCheck' = [verdict |-> CheckFlush(readback, flushed, mappedRows, lostRows),
                      flushed |-> flushed, mappedRows |-> mappedRows, lostRows |-> lostRows,
                      repainted |-> RepaintedByScan(mappedRows > 0, flushed)]
    /\ UNCHANGED <<differing, baselineRows, drawnElements, scanRow, regions, compared>>

\* What the scan answers.
Outcome ==
    CASE compared = 0 -> "blind"
      [] compared > 0 /\ regions = <<>> -> "clean"
      [] OTHER -> "stale"

\* render_mask: what the two buffers differ in glows, what one lacks is black.
Mask == [p \in ScanPixels |-> IF p[2] >= baselineRows THEN "black"
                           ELSE IF p \in differing THEN "error" ELSE "dimmed"]

StaleInit ==
    /\ differing \in SUBSET ScanPixels
    /\ baselineRows \in {ScanHeight - 1, ScanHeight}
    /\ drawnElements \in {Named(list) : list \in ElementLists}
    /\ scanRow = 0
    /\ regions = <<>>
    /\ compared = 0
    /\ flushCheck = NotChecked

StaleNext ==
    \/ ScanBlind \/ ScanOneRow \/ Attribute
    \/ \E readback \in BOOLEAN, flushed, mappedRows \in 0..ScanHeight :
          \E lostRows \in {{}, {ScanHeight - 1}} : Report(readback, flushed, mappedRows, lostRows)

StaleSpec == StaleInit /\ [][StaleNext]_staleVars

-----------------------------------------------------------------------------
(* Properties.                                                             *)

StaleTypeOK ==
    /\ differing \subseteq ScanPixels
    /\ scanRow \in 0 .. ScanHeight + 1
    /\ compared \in {0, ScanWidth * ScanHeight}
    /\ flushCheck # NotChecked => flushCheck.verdict \in {"blind", "clean", "lost"}

Scanned == {p \in ScanPixels : p[2] < scanRow}
Counts == [i \in DOMAIN regions |-> regions[i].pixels]

\* The regions hold every differing pixel of the rows looked at, each in one
\* region, and count no other; no row belongs to two (stale.rs, scan).
RegionsAddUp ==
    compared > 0 =>
        /\ Total(Counts) = Cardinality(differing \cap Scanned)
        /\ \A p \in differing \cap Scanned :
              Cardinality({i \in DOMAIN regions : Inside(p, regions[i].box)}) = 1
        /\ \A i \in DOMAIN regions :
              regions[i].pixels = Cardinality({p \in differing : Inside(p, regions[i].box)})

\* The name of a region is that of an element it lies in, and no element it
\* lies in is smaller (stale.rs, attribute).
NamedAfterTheSmallest ==
    scanRow > ScanHeight =>
        \A i \in DOMAIN regions :
            LET named == {j \in DOMAIN drawnElements :
                            /\ drawnElements[j].name = regions[i].attribution
                            /\ Encloses(drawnElements[j].box, regions[i].box)}
            IN  /\ named # {}
                /\ \A j \in DOMAIN drawnElements :
                      Encloses(drawnElements[j].box, regions[i].box) =>
                          \E k \in named : Area(drawnElements[k].box) <= Area(drawnElements[j].box)

\* "Clean" is said of what was compared: nothing in the mask glows or is
\* missing, and no row of the slot that could be read was lost, in a slot the
\* frame wrote (stale.rs, StaleReport.compared_pixels and check_flush).
CleanWasCompared ==
    scanRow > ScanHeight =>
        /\ Outcome = "clean" => \A p \in ScanPixels : Mask[p] = "dimmed"
        /\ Outcome = "stale" => \E p \in ScanPixels : Mask[p] = "error"
        /\ flushCheck # NotChecked /\ flushCheck.verdict = "clean" =>
              /\ flushCheck.flushed > 0 /\ flushCheck.mappedRows > 0
              /\ \A y \in flushCheck.lostRows : y >= flushCheck.mappedRows

\* The scan says what it saw, all of it, and where.
ScanIsTrue == RegionsAddUp /\ NamedAfterTheSmallest /\ CleanWasCompared

\* stale.rs:179: "Merge vertically-adjacent rows whose extents overlap".
OnlyOverlapsMerge ==
    \A i \in DOMAIN regions :
        \A y \in regions[i].box.y + 1 .. regions[i].box.y + regions[i].box.h - 1 :
            LET above == UNION {RunOf(z) : z \in regions[i].box.y .. y - 1}
            IN  Least(RunOf(y)) <= Greatest(above) /\ Greatest(RunOf(y)) >= Least(above)

\* stale.rs: `Clean` is of the whole picture.
CleanIsWhole ==
    flushCheck # NotChecked /\ flushCheck.verdict = "clean" => flushCheck.lostRows = {}

\* stale.rs:50: "`None` is a finding rather than a gap: stale pixels belonging to
\* no element are the *background* not being repainted".
BackgroundIsUnnamed ==
    scanRow > ScanHeight => \A i \in DOMAIN regions : regions[i].attribution # Background
=============================================================================
