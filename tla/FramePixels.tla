---------------------------- MODULE FramePixels ----------------------------
(***************************************************************************)
(* How a client's pixels reach the glass: the damage a commit is left with *)
(* (truedamage.rs), the texture it updates, the damage tracker, the one    *)
(* heap shadow everything is composed in, the copy into a scan-out slot    *)
(* (nuri_renderer.rs), the slot ages (scanout.rs) and the flip.            *)
(*                                                                         *)
(* The screen is a stack of strips: the wallpaper is strip 0, the rows of  *)
(* one client's surface are the strips above it.                           *)
(***************************************************************************)
EXTENDS Naturals, Sequences, FiniteSets, FiniteSetsExt

CONSTANTS
    Rows,            \* how many rows the surface has
    Paint,           \* what a strip may show
    Authorities,     \* the values of damage.authority a run may set
    FlushPolicies,   \* the values of damage.flush, chosen once
    NoCopy, NoSlot

ASSUME PixelsAssumption ==
    /\ Rows \in Nat \ {0}
    /\ Authorities \subseteq {"off", "on", "verify"}
    /\ FlushPolicies \subseteq {"full", "baselined"}
    /\ Paint # {} /\ NoSlot \notin {0, 1} /\ NoCopy \notin [1 .. Rows -> Paint]

Row == 1 .. Rows
Strip == 0 .. Rows
Image == [Row -> Paint]
Pixels == [Strip -> Paint]

VARIABLES
    buffer,        \* the pixels of the client's current buffer
    authority,     \* OmoyaIntrospect::td_mode
    copy,          \* Shadow::data, truedamage's copy of the surface
    unpresented,   \* Shadow::unpresented
    unimported,    \* damage since the texture was last imported
    undrawn,       \* damage since the tracker last drew the element
    surfaceTexture,       \* SurfaceShmTexture
    wallpaperPaint, wallpaperDue,  \* Ground: the last image painted; pending
    ground,        \* NuriRenderer::ground
    past,          \* the tracker's own damage of the frames it drew, newest first
    shadowCopy,        \* NuriFramebuffer::shadow
    slot, fresh, back,        \* the slots; those with no history; SlotAges::back
    front,         \* the slot on the glass, if it is ours
    flush,         \* damage.flush
    shotsDue,      \* a capture is queued
    pixelsOwed,    \* the ledger has a cause
    missed,        \* history: rows that changed and that no damage told of
    behind         \* history: by slot, the strips a refused frame drew into the
                   \* other one, and that this one was not given since

clientVars == <<buffer, copy, unpresented, unimported, undrawn>>
groundVars == <<wallpaperPaint, wallpaperDue>>
slotVars == <<slot, fresh, back, front>>
pixelVars == <<clientVars, authority, surfaceTexture, groundVars, ground, past, shadowCopy,
               slotVars, flush, shotsDue, pixelsOwed, missed, behind>>

PixelsTypeOK ==
    /\ buffer \in Image /\ surfaceTexture \in Image
    /\ copy \in Image \cup {NoCopy}
    /\ authority \in Authorities /\ flush \in FlushPolicies
    /\ {unpresented, unimported, undrawn} \subseteq SUBSET Row
    /\ {wallpaperPaint, ground} \subseteq Paint
    /\ past \in Seq(SUBSET Strip) /\ Len(past) <= 2
    /\ shadowCopy \in Pixels /\ slot \in [{0, 1} -> Pixels]
    /\ fresh \subseteq {0, 1} /\ back \in {0, 1} /\ front \in {0, 1, NoSlot}
    /\ {wallpaperDue, shotsDue, pixelsOwed} \subseteq BOOLEAN
    /\ missed \subseteq Row /\ behind \in [{0, 1} -> SUBSET Strip]

---------------------------------------------------------------------------
(* A commit.                                                               *)

Computes(mode) == mode # "off"

ReplacesDeclaration(mode) == mode = "on"

\* refine_commit looks only at commits that declare half of the surface.
WorthComparing(declared) == 2 * Cardinality(declared) >= Rows

ChangedRows(old, new) == {r \in Row : old[r] # new[r]}

\* Shadows::refine on a surface it knows: the copy advances, the ledger grows.
Refined(next) == unpresented \cup ChangedRows(copy, next)

Damaged(damage) ==
    /\ unimported' = unimported \cup damage
    /\ undrawn' = undrawn \cup damage
    /\ missed' = (missed \cup ChangedRows(buffer, buffer')) \ unimported'

\* commit: a client shows next and declares at least what changed.
CommitBuffer(next, declared) ==
    /\ ChangedRows(buffer, next) \subseteq declared /\ declared # {}
    /\ buffer' = next
    /\ \/ /\ ~Computes(authority) \/ ~WorthComparing(declared)
          /\ Damaged(declared)
          /\ UNCHANGED <<copy, unpresented>>
       \/ /\ Computes(authority) /\ WorthComparing(declared) /\ copy = NoCopy
          /\ copy' = next /\ unpresented' = {}
          /\ Damaged(declared)
       \/ /\ Computes(authority) /\ WorthComparing(declared) /\ copy # NoCopy
          /\ copy' = next /\ unpresented' = Refined(next)
          /\ Damaged(IF ReplacesDeclaration(authority) THEN Refined(next)
                                                       ELSE declared)
    /\ pixelsOwed' = TRUE
    /\ UNCHANGED <<authority, surfaceTexture, groundVars, ground, past, shadowCopy, slotVars,
                   flush, shotsDue, behind>>

\* A buffer of another size, or the first of another surface: nothing to compare
\* with, a texture of its own, and an element the tracker draws whole.
CommitResized(next) ==
    /\ buffer' = next
    /\ copy' = IF Computes(authority) THEN next ELSE NoCopy
    /\ unpresented' = {}
    /\ Damaged(Row)
    /\ pixelsOwed' = TRUE
    /\ UNCHANGED <<authority, surfaceTexture, groundVars, ground, past, shadowCopy, slotVars,
                   flush, shotsDue, behind>>

\* OmoyaSet td_mode, or a world that sets damage.authority.
SetAuthority(mode) ==
    /\ mode \in Authorities /\ authority' = mode
    /\ UNCHANGED <<clientVars, surfaceTexture, groundVars, ground, past, shadowCopy, slotVars,
                   flush, shotsDue, pixelsOwed, missed, behind>>

\* Ground::refresh, on the one-second timer: another image, or none.
RefreshGround(paint) ==
    /\ paint # wallpaperPaint
    /\ wallpaperPaint' = paint /\ wallpaperDue' = TRUE /\ pixelsOwed' = TRUE
    /\ UNCHANGED <<clientVars, authority, surfaceTexture, ground, past, shadowCopy, slotVars,
                   flush, shotsDue, missed, behind>>

AskForShot ==
    /\ shotsDue' = TRUE /\ pixelsOwed' = TRUE
    /\ UNCHANGED <<clientVars, authority, surfaceTexture, groundVars, ground, past, shadowCopy,
                   slotVars, flush, missed, behind>>

\* Mutant: the slots keep their ages across a VT switch.
ResumeKeepsAges ==
    /\ front' = NoSlot /\ pixelsOwed' = TRUE
    /\ UNCHANGED <<clientVars, authority, surfaceTexture, groundVars, ground, past, shadowCopy,
                   slot, fresh, back, flush, shotsDue, missed, behind>>

\* The VT comes back: another program's frame is on the glass.
ResumeScanout ==
    /\ front' = NoSlot /\ fresh' = {0, 1} /\ pixelsOwed' = TRUE
    /\ UNCHANGED <<clientVars, authority, surfaceTexture, groundVars, ground, past, shadowCopy,
                   slot, back, flush, shotsDue, missed, behind>>

---------------------------------------------------------------------------
(* A frame.                                                                *)

\* import_shm_buffer: the rows the damage names are copied into the texture.
Imported == [r \in Row |-> IF r \in unimported THEN buffer[r] ELSE surfaceTexture[r]]

\* ground::adopt: the renderer takes the image and the tracker starts anew.
GroundPaint == IF wallpaperDue THEN wallpaperPaint ELSE ground
Past == IF wallpaperDue THEN <<>> ELSE past

Scene == [s \in Strip |-> IF s = 0 THEN GroundPaint ELSE Imported[s]]

\* The age the loop asks for: a capture repaints whole, as a slot without history.
BackAge == IF shotsDue \/ back \in fresh THEN 0 ELSE 2

\* The tracker: what it had not drawn, and what it drew since that age.
OwnDamage == IF Past = <<>> THEN Strip ELSE undrawn

DrawnDamage ==
    IF BackAge = 0 \/ Len(Past) < BackAge THEN Strip ELSE OwnDamage \cup Past[1]

Composed == [s \in Strip |-> IF s \in DrawnDamage THEN Scene[s] ELSE shadowCopy[s]]

BoundingRegion(damage) == Min(damage) .. Max(damage)

\* flush_damage: all of the shadow, or the box around the damage when the slot
\* has a generation and the policy trusts it.
FlushedRegion ==
    IF flush = "baselined" /\ BackAge # 0 THEN BoundingRegion(DrawnDamage) ELSE Strip

Flushed == [s \in Strip |-> IF s \in FlushedRegion THEN Composed[s] ELSE slot[back][s]]

\* The scene is gathered, which imports, before anything can fail.
Gathered ==
    /\ surfaceTexture' = Imported /\ unimported' = {}
    /\ ground' = GroundPaint /\ wallpaperDue' = FALSE
    /\ UNCHANGED <<buffer, copy, authority, wallpaperPaint, flush, missed>>

\* The back buffer cannot be exported, bound or drawn.
FrameNotBound ==
    /\ pixelsOwed
    /\ Gathered /\ past' = Past
    /\ UNCHANGED <<unpresented, undrawn, shadowCopy, slotVars, shotsDue, pixelsOwed, behind>>

FrameSkipped ==
    /\ pixelsOwed /\ DrawnDamage = {}
    /\ Gathered
    /\ pixelsOwed' = FALSE
    /\ UNCHANGED <<past, unpresented, undrawn, shadowCopy, slotVars, shotsDue, behind>>

Rendered ==
    /\ pixelsOwed /\ DrawnDamage # {}
    /\ Gathered
    /\ past' = SubSeq(<<OwnDamage>> \o Past, 1, Min({2, Len(Past) + 1}))
    /\ undrawn' = {}
    /\ shadowCopy' = Composed
    /\ slot' = [slot EXCEPT ![back] = Flushed]
    /\ shotsDue' = FALSE

\* SlotAges::swapped: the other slot is drawn into next.
NextSlot == 1 - back

FrameFlipped ==
    /\ Rendered
    /\ back' = NextSlot /\ front' = back /\ fresh' = fresh \ {back}
    /\ unpresented' = {}
    /\ pixelsOwed' = FALSE
    /\ behind' = [behind EXCEPT ![back] = @ \ FlushedRegion]

\* The frame is in a slot that does not reach the glass, and the tracker has
\* spent its damage.
FrameRefused ==
    /\ Rendered
    /\ behind' = [behind EXCEPT ![back] = @ \ FlushedRegion, ![1 - back] = @ \cup OwnDamage]
    /\ UNCHANGED <<back, front, fresh, unpresented, pixelsOwed>>

---------------------------------------------------------------------------
PixelsInit ==
    /\ buffer \in Image
    /\ authority \in Authorities /\ flush \in FlushPolicies
    /\ copy = IF Computes(authority) THEN buffer ELSE NoCopy
    /\ unpresented = {} /\ unimported = Row /\ undrawn = Row
    /\ surfaceTexture = [r \in Row |-> CHOOSE p \in Paint : TRUE]
    /\ wallpaperPaint = CHOOSE p \in Paint : TRUE
    /\ ground = wallpaperPaint /\ wallpaperDue = FALSE
    /\ past = <<>>
    /\ shadowCopy = [s \in Strip |-> wallpaperPaint]
    /\ slot = [n \in {0, 1} |-> shadowCopy]
    /\ fresh = {0, 1} /\ back = 0 /\ front = NoSlot
    /\ shotsDue = FALSE /\ pixelsOwed = TRUE
    /\ missed = {} /\ behind = [n \in {0, 1} |-> {}]

PixelsNext ==
    \/ \E next \in Image, declared \in SUBSET Row : CommitBuffer(next, declared)
    \/ \E next \in Image : CommitResized(next)
    \/ \E mode \in Authorities : SetAuthority(mode)
    \/ \E paint \in Paint : RefreshGround(paint)
    \/ AskForShot
    \/ ResumeScanout
    \/ FrameNotBound
    \/ FrameSkipped
    \/ FrameFlipped
    \/ FrameRefused

PixelsSpec == PixelsInit /\ [][PixelsNext]_pixelVars

\* What a strip of the glass should be.
AsCommitted(s) == IF s = 0 THEN wallpaperPaint ELSE buffer[s]

\* When the ledger owes nothing, the glass shows what the clients last committed
\* over the wallpaper last painted: no commit, narrowed damage, slot age,
\* refused flip, capture or VT switch leaves a strip behind, but for two kinds
\* that a later frame need not mend.  The rows a commit changed and no damage
\* told of, for it was compared with a copy that had missed a commit
\* (SmallCommitsAreShown); and the strips that a refused frame drew and that
\* the slot on the glass was not given since (RefusedFramesAreShown).  The loop
\* draws nothing more once the ledger is empty, so a strip left behind stays.
ShowsTheScene ==
    ~pixelsOwed =>
        /\ front # NoSlot
        /\ \A s \in Strip \ (missed \cup behind[front]) : slot[front][s] = AsCommitted(s)

\* The comparison "refuses to shrink at all whenever it cannot prove the
\* comparison is meaningful" (truedamage.rs:65): commits leave no row behind.
\* It fails: one that declares less than half of the surface is not compared
\* (truedamage.rs:958) and does not advance the copy, so that the next one that
\* is compared has the rows as equal that went there and back.
SmallCommitsAreShown ==
    ~pixelsOwed /\ behind[front] = {} =>
        \A s \in Strip : slot[front][s] = AsCommitted(s)

\* "A stale pixel is not reachable from here" (nuri_renderer.rs:503), the partial
\* flush: refused frames leave no strip behind.  It fails: the tracker spends
\* the damage of a frame that is refused, and the other slot never has it.
RefusedFramesAreShown ==
    ~pixelsOwed /\ missed = {} => \A s \in Strip : slot[front][s] = AsCommitted(s)
=============================================================================
