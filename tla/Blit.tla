-------------------------------- MODULE Blit --------------------------------
(***************************************************************************)
(* The software renderer's hands: how a client's buffer becomes a texture  *)
(* that knows whether it is opaque, and how nuri fills rectangles and      *)
(* blits textures into the output, transformed, scaled and blended.        *)
(*                                                                         *)
(* A pixel's value is the list of the layers that made it, the last one on *)
(* top: a layer copied over a pixel replaces the list.  The arithmetic of  *)
(* one channel is left out, and the three ways a layer joins what is under *)
(* it are kept apart:                                                      *)
(*   "copied"      dst = src                                               *)
(*   "over"        dst = src + dst * (1 - a), colour premultiplied         *)
(*   "multiplied"  dst = src * a + dst * (1 - a)                           *)
(***************************************************************************)
EXTENDS Integers, Sequences, FiniteSets, FiniteSetsExt

CONSTANTS
    TexSize, CanvasSize, \* <<width, height>> of the client's buffer and of the output
    Buffers,             \* what the client commits: [format, alpha (a function of the texel)]
    BufferDamages,       \* the damage a commit may name, each a set of rectangles
    Jobs,                \* what smithay asks one frame to draw (see NuriJob)
    NoTexture, NoJob     \* no value

Alphas == {"opaque", "half", "clear"}
Transforms == {"Normal", "Rotate90", "Rotate180", "Rotate270",
               "Flipped", "Flipped90", "Flipped180", "Flipped270"}
Texels == (0 .. TexSize[1] - 1) \X (0 .. TexSize[2] - 1)
Canvas == (0 .. CanvasSize[1] - 1) \X (0 .. CanvasSize[2] - 1)

VARIABLES
    cachedTexture, \* the surface's texture: [format, alpha, opaque], or none
    job,           \* the job the frame draws, or none yet
    damageDue,     \* the damage rectangles of the job still to be painted
    outputPixels,  \* the output: pixel -> its layers
    tally          \* BlitTally: how much each arm of the blit did

blitVars == <<cachedTexture, job, damageDue, outputPixels, tally>>

-----------------------------------------------------------------------------
(* Rectangles.                                                             *)

Rect(x, y, w, h) == [x |-> x, y |-> y, w |-> w, h |-> h]
Bounds(size) == Rect(0, 0, size[1], size[2])
Empty == Rect(0, 0, 0, 0)
Covers(r, p) == p[1] \in r.x .. r.x + r.w - 1 /\ p[2] \in r.y .. r.y + r.h - 1

\* The overlap; the source's None is the empty rectangle.
Intersect(r, s) ==
    LET x0 == Max({r.x, s.x})
        y0 == Max({r.y, s.y})
        x1 == Min({r.x + r.w, s.x + s.w})
        y1 == Min({r.y + r.h, s.y + s.h})
    IN  IF x1 <= x0 \/ y1 <= y0 THEN Empty ELSE Rect(x0, y0, x1 - x0, y1 - y0)

Moved(r, by) == Rect(r.x + by.x, r.y + by.y, r.w, r.h)

\* The source rectangle arrives in fractions of a texel (here: halves) and is cut to whole ones.
Cut(r) == Rect(r.x \div 2, r.y \div 2, r.w \div 2, r.h \div 2)
NuriJob(j) == IF j.op = "texture" THEN [j EXCEPT !.src = Cut(j.src)] ELSE j

Rects == [x : Int, y : Int, w : Int, h : Int]
Opacities == {"full", "part", "none"}
Textures == [format : {"Argb", "Xrgb"}, alpha : [Texels -> Alphas], opaque : BOOLEAN]
TextureJob == [op : {"texture"}, src : Rects, dst : Rects, transform : Transforms,
               alpha : Opacities, damage : Seq(Rects)]
SolidJob == [op : {"solid"}, dst : Rects, alpha : Opacities, damage : Seq(Rects)]
ClearJob == [op : {"clear"}, ground : BOOLEAN, damage : Seq(Rects)]
Job == TextureJob \cup SolidJob \cup ClearJob

ASSUME BlitAssumption ==
    /\ TexSize \in Nat \X Nat /\ CanvasSize \in Nat \X Nat
    /\ \A b \in Buffers : b.format \in {"Argb", "Xrgb"} /\ b.alpha \in [Texels -> Alphas]
    /\ Jobs \subseteq Job /\ NoJob \notin Job
    /\ NoTexture \notin Textures

-----------------------------------------------------------------------------
(* The import of a client's buffer.                                        *)

\* The padding byte of an X format is forced opaque as it is copied.
CopyNormalising(b) ==
    IF b.format = "Xrgb" THEN [t \in Texels |-> "opaque"] ELSE b.alpha
AllOpaque(alpha, where) == \A t \in where : alpha[t] = "opaque"

\* Only a cached texture of the same format takes the damage alone.
Reusable(b) == cachedTexture # NoTexture /\ cachedTexture.format = b.format

ImportFull(b) ==
    LET alpha == CopyNormalising(b)
    IN  cachedTexture' = [format |-> b.format, alpha |-> alpha, opaque |-> AllOpaque(alpha, Texels)]

\* A bug for the checker: the flag of the damaged rows is taken for the whole texture's.
ImportAssigning(b, damage) ==
    LET hit == {t \in Texels : \E d \in damage : Covers(d, t)}
        new == CopyNormalising(b)
    IN  cachedTexture' = [cachedTexture EXCEPT
                      !.alpha = [t \in Texels |-> IF t \in hit THEN new[t] ELSE @[t]],
                      !.opaque = AllOpaque(new, hit)]

\* The partial import read the damaged rows alone: it can only clear the flag.
ImportDamaged(b, damage) ==
    LET hit == {t \in Texels : \E d \in damage : Covers(d, t)}
        new == CopyNormalising(b)
    IN  cachedTexture' = [cachedTexture EXCEPT
                      !.alpha = [t \in Texels |-> IF t \in hit THEN new[t] ELSE @[t]],
                      !.opaque = @ /\ AllOpaque(new, hit)]

ImportShmBuffer(b, damage, hasSurface) ==
    /\ job = NoJob
    /\ IF hasSurface /\ Reusable(b) THEN ImportDamaged(b, damage) ELSE ImportFull(b)
    /\ UNCHANGED <<job, damageDue, outputPixels, tally>>

-----------------------------------------------------------------------------
(* One damaged rectangle of a blit.                                        *)

Layer(of, how) == [of |-> of, how |-> how]
Laid(under, of, how) == IF how = "copied" THEN <<Layer(of, how)>> ELSE Append(under, Layer(of, how))

\* A destination offset mapped back through the transform, in a w by h destination.
MapBack(t, u, v, w, h) ==
    CASE t = "Normal"     -> <<u, v>>
      [] t = "Rotate90"   -> <<v, w - 1 - u>>
      [] t = "Rotate180"  -> <<w - 1 - u, h - 1 - v>>
      [] t = "Rotate270"  -> <<h - 1 - v, u>>
      [] t = "Flipped"    -> <<w - 1 - u, v>>
      [] t = "Flipped90"  -> <<v, u>>
      [] t = "Flipped180" -> <<u, h - 1 - v>>
      [] t = "Flipped270" -> <<h - 1 - v, w - 1 - u>>

\* A bug for the checker: the extents of a turned picture are taken as they stand.
TransposesNothing(t) == FALSE
Transposes(t) == t \in {"Rotate90", "Rotate270", "Flipped90", "Flipped270"}

Scale(coord, dstExtent, srcExtent) ==
    IF dstExtent = srcExtent \/ dstExtent = 0 THEN coord ELSE (coord * srcExtent) \div dstExtent

\* The texel the general arm samples for a pixel of the destination.
Sample(j, p) ==
    LET s == MapBack(j.transform, p[1] - j.dst.x, p[2] - j.dst.y, j.dst.w, j.dst.h)
        extent == IF Transposes(j.transform) THEN <<j.dst.h, j.dst.w>> ELSE <<j.dst.w, j.dst.h>>
    IN  <<j.src.x + Scale(s[1], extent[1], j.src.w), j.src.y + Scale(s[2], extent[2], j.src.h)>>

\* The general arm: each pixel sampled for itself, and blended over by both alphas.
GeneralPixel(j, tex, p, under) ==
    LET at == Sample(j, p)
    IN  IF at \notin Texels \/ j.alpha = "none" \/ tex[at] = "clear" THEN under
        ELSE Laid(under, at, IF tex[at] = "opaque" /\ j.alpha = "full" THEN "copied" ELSE "over")

OneToOne(j) ==
    j.transform = "Normal" /\ j.src.w = j.dst.w /\ j.src.h = j.dst.h /\ j.alpha = "full"

\* The 1:1 arm resolves a row at once: the columns of the row it will paint.
RowOf(j, clip, y) ==
    LET sy == j.src.y + (y - j.dst.y)
        sx0 == j.src.x + (clip.x - j.dst.x)
    IN  IF sy \in 0 .. TexSize[2] - 1 /\ sx0 >= 0
        THEN clip.x .. clip.x + Min({clip.w, TexSize[1] - sx0}) - 1
        ELSE {}
Straight(j, x, y) == <<j.src.x + (x - j.dst.x), j.src.y + (y - j.dst.y)>>
RowIsOpaque(j, tex, hint, clip, y) ==
    hint \/ \A x \in RowOf(j, clip, y) : tex[Straight(j, x, y)] = "opaque"

FastPixel(j, tex, hint, clip, p, under) ==
    LET at == Straight(j, p[1], p[2])
    IN  IF p[1] \notin RowOf(j, clip, p[2]) THEN under
        ELSE IF RowIsOpaque(j, tex, hint, clip, p[2]) \/ tex[at] = "opaque"
             THEN Laid(under, at, "copied")
        ELSE IF tex[at] = "half" THEN Laid(under, at, "multiplied") ELSE under

Blitted(j, tex, hint, d) ==
    LET clip == Intersect(Intersect(d, j.dst), Bounds(CanvasSize))
    IN  [p \in Canvas |->
          IF ~Covers(clip, p) THEN outputPixels[p]
          ELSE IF OneToOne(j) THEN FastPixel(j, tex, hint, clip, p, outputPixels[p])
          ELSE GeneralPixel(j, tex, p, outputPixels[p])]

\* BlitTally, counted at each branch.
Counted(j, tex, hint, d) ==
    LET clip == Intersect(Intersect(d, j.dst), Bounds(CanvasSize))
        rows == {y \in clip.y .. clip.y + clip.h - 1 : RowOf(j, clip, y) # {}}
        copied == {y \in rows : RowIsOpaque(j, tex, hint, clip, y)}
    IN  IF OneToOne(j)
        THEN [tally EXCEPT !.copied = @ + Cardinality(copied),
                           !.blended = @ + Cardinality(rows \ copied)]
        ELSE [tally EXCEPT !.general = @ + clip.w * clip.h]

Filled(area, alpha) ==
    LET r == Intersect(area, Bounds(CanvasSize))
    IN  [p \in Canvas |->
          IF Covers(r, p) THEN Laid(outputPixels[p], "fill", IF alpha = "full" THEN "copied" ELSE "over")
          ELSE outputPixels[p]]

-----------------------------------------------------------------------------
(* The frame: what smithay asks for is turned into nuri's terms.  Damage   *)
(* arrives relative to the destination and nuri clips against the          *)
(* absolute one; a clear names the output itself.                          *)

\* A bug for the checker: the damage is used as it arrived.
DamageAsItCame(j, d) == d
Translated(j, d) == IF j.op = "clear" THEN d ELSE Moved(d, j.dst)

BeginDraw(j) ==
    /\ job = NoJob
    /\ j.op = "texture" => cachedTexture # NoTexture
    /\ job' = NuriJob(j)
    /\ damageDue' = j.damage
    /\ UNCHANGED <<cachedTexture, outputPixels, tally>>

\* render_texture_from_to, a rectangle of the damage at a time.
RenderTextureFrom(d) ==
    /\ job.op = "texture"
    /\ outputPixels' = Blitted(job, cachedTexture.alpha, cachedTexture.opaque, Translated(job, d))
    /\ tally' = Counted(job, cachedTexture.alpha, cachedTexture.opaque, Translated(job, d))

\* draw_solid.
DrawSolid(d) ==
    /\ job.op = "solid"
    /\ outputPixels' = Filled(Intersect(job.dst, Translated(job, d)), job.alpha)
    /\ UNCHANGED tally

\* clear: the wallpaper blitted whole and 1:1 where there is one, the colour otherwise.
Clear(d) ==
    /\ job.op = "clear"
    /\ IF job.ground
       THEN LET whole == Bounds(CanvasSize)
                clip == Intersect(d, whole)
            IN  /\ outputPixels' = [p \in Canvas |-> IF Covers(clip, p) THEN <<Layer("ground", "copied")>>
                                               ELSE outputPixels[p]]
                /\ tally' = [tally EXCEPT !.copied = @ + clip.h]
       ELSE outputPixels' = Filled(d, "full") /\ UNCHANGED tally

PaintDamage ==
    /\ job # NoJob /\ damageDue # <<>>
    /\ LET d == Head(damageDue) IN RenderTextureFrom(d) \/ DrawSolid(d) \/ Clear(d)
    /\ damageDue' = Tail(damageDue)
    /\ UNCHANGED <<cachedTexture, job>>

BlitInit ==
    /\ cachedTexture = NoTexture /\ job = NoJob /\ damageDue = <<>>
    /\ outputPixels = [p \in Canvas |-> <<>>]
    /\ tally = [copied |-> 0, blended |-> 0, general |-> 0]

BlitNext ==
    \/ \E b \in Buffers, damage \in BufferDamages, hasSurface \in BOOLEAN :
          ImportShmBuffer(b, damage, hasSurface)
    \/ \E j \in Jobs : BeginDraw(j)
    \/ PaintDamage

BlitSpec == BlitInit /\ [][BlitNext]_blitVars

-----------------------------------------------------------------------------
(* Properties.                                                             *)

BlitTypeOK ==
    /\ cachedTexture = NoTexture \/ cachedTexture \in Textures
    /\ DOMAIN outputPixels = Canvas
    /\ \A p \in Canvas : Len(outputPixels[p]) <= 1
    /\ tally \in [copied : Nat, blended : Nat, general : Nat]

\* A texture the importer calls opaque has no translucent texel, however its
\* surface's commits changed it part by part: a wrong flag composites a
\* translucent window as opaque (nuri_renderer.rs, import_shm_buffer).
OpaqueHintIsTrue == cachedTexture # NoTexture /\ cachedTexture.opaque => AllOpaque(cachedTexture.alpha, Texels)

FrameDone == job # NoJob /\ damageDue = <<>>
\* It has a texel, and none that is not one of the texture's.
WithinTexture(r) ==
    /\ r.w > 0 /\ r.h > 0
    /\ \A x \in r.x .. r.x + r.w - 1, y \in r.y .. r.y + r.h - 1 : <<x, y>> \in Texels

\* A frame paints the damage it was given, all of it and nothing else: a
\* window away from the origin, turned or scaled is not missing a strip, and
\* nothing outside the damage is touched (nuri/src/lib.rs, blit and fill;
\* nuri_renderer.rs, draw_solid).
DamageIsPaintedWhole ==
    FrameDone /\ (job.op = "texture" =>
                    /\ AllOpaque(cachedTexture.alpha, Texels) /\ job.alpha # "none"
                    /\ WithinTexture(job.src))
        => {p \in Canvas : outputPixels[p] # <<>>} =
             {p \in Canvas : \E i \in DOMAIN job.damage :
                 LET at == IF job.op = "clear" THEN p ELSE <<p[1] - job.dst.x, p[2] - job.dst.y>>
                 IN  /\ Covers(job.damage[i], at)
                     /\ job.op # "clear" => at[1] \in 0 .. job.dst.w - 1 /\ at[2] \in 0 .. job.dst.h - 1}

\* Where a texel of the source belongs: turned by quarter turns, then mirrored.
Turned(q, x, y, w, h) ==
    CASE q = 0 -> <<x, y>>
      [] q = 1 -> <<h - 1 - y, x>>
      [] q = 2 -> <<w - 1 - x, h - 1 - y>>
      [] q = 3 -> <<y, w - 1 - x>>
Quarters(t) ==
    CASE t \in {"Normal", "Flipped"} -> 0
      [] t \in {"Rotate90", "Flipped90"} -> 1
      [] t \in {"Rotate180", "Flipped180"} -> 2
      [] t \in {"Rotate270", "Flipped270"} -> 3
Place(j, at) ==
    LET p == Turned(Quarters(j.transform), at[1] - j.src.x, at[2] - j.src.y, j.src.w, j.src.h)
        x == IF j.transform \in {"Flipped", "Flipped90", "Flipped180", "Flipped270"}
             THEN j.dst.w - 1 - p[1] ELSE p[1]
    IN  <<j.dst.x + x, j.dst.y + p[2]>>
AtItsSize(j) ==
    <<j.dst.w, j.dst.h>> = IF Quarters(j.transform) % 2 = 1 THEN <<j.src.h, j.src.w>>
                           ELSE <<j.src.w, j.src.h>>

\* A texture drawn at its own size puts every texel where turning and
\* mirroring the picture puts it, for each of the eight transforms
\* (nuri/src/lib.rs, map_back and the 1:1 arm).
TexelsLandInPlace ==
    FrameDone /\ job.op = "texture" =>
        (AtItsSize(job) => \A at \in Texels :
            LET p == Place(job, at)
            IN  Covers(job.src, at) /\ p \in Canvas /\ outputPixels[p] # <<>> => outputPixels[p][1].of = at)

\* nuri/src/lib.rs:824: "THE FAST PATH MUST BE PIXEL-IDENTICAL TO THE GENERAL
\* ONE".  Wherever a blit took the 1:1 arm, the general arm would have left
\* the same layers.
FastIsGeneral ==
    FrameDone /\ job.op = "texture" /\ OneToOne(job) =>
        \A p \in Canvas : outputPixels[p] # <<>> =>
            outputPixels[p] = GeneralPixel(job, cachedTexture.alpha, p, <<>>)

\* A blit paints the damage it is given and nothing else, puts every texel
\* where the transform says, and trusts no opaque hint that is not true.
BlitPaintsTheDamage == OpaqueHintIsTrue /\ DamageIsPaintedWhole /\ TexelsLandInPlace
=============================================================================
