-------------------------- MODULE HandsGlassProofs ---------------------------
(***************************************************************************)
(* Proofs about what goes from the hands to the windows, from the windows  *)
(* to the glass, about the touchpad, the scan for stale pixels, the        *)
(* objects of the GPU renderer, the blit of the software one and the scene *)
(* of a frame, each for itself: they share no variable.                    *)
(*                                                                         *)
(* SeatInput, for any set of keys and any remap tables.  Both invariants   *)
(* are inductive as they stand: SealedPointer because every way into the   *)
(* lock drops grabs and focus in the step that locks, and SeatKeysAreDown  *)
(* because each event of a key moves what is held and what the seat        *)
(* believes together, or leaves a trace in orphaned.                       *)
(*                                                                         *)
(* FramePixels, for any number of rows, paints, commits and refused flips. *)
(* A slot is what the shadow was when it was flipped, and what changed     *)
(* since is in what the tracker is to draw: PixelsInv says so of the       *)
(* texture, the shadow, the slot on the glass and the slot drawn next, and *)
(* leaves out what the two histories name, the rows no damage told of      *)
(* (missed) and the strips refused frames drew (behind).                   *)
(*                                                                         *)
(* Touchpad, for any slots, spots and limits, and any number of events     *)
(* between two reports.  PadInv adds to the two safety properties that no  *)
(* contact a pad knows is a finger while the machine counts none (so what  *)
(* lands cannot have moved, and cannot scroll in the frame that begins its *)
(* tap), and that a tap under which something was done is spoiled.         *)
(*                                                                         *)
(* Stale, for any size of the picture, any pixels that differ and any      *)
(* elements that were drawn.  ScanOf says what the regions are after a     *)
(* number of rows: they follow one another from top to bottom, each holds  *)
(* all that differs in its rows and counts it, and together they hold all  *)
(* there was.  A row adds nothing, joins the last region or begins one.    *)
(*                                                                         *)
(* Kasane, for any textures and any calls the driver refuses.  The tables  *)
(* of calls are gone through once: what a refused call takes back was made *)
(* and goes child before parent, and what all calls make its Drop knows    *)
(* (AllFit).  Then KasaneInv: the list of what is dying can go in its      *)
(* order, whatever is no part of a thing that stands is in it, nothing     *)
(* stands without the device, and what a frame holds stands.               *)
(*                                                                         *)
(* Blit, for any texture, output, damage and jobs: so many rectangles of   *)
(* the damage are painted and nothing but them (PaintedUpTo), each in its  *)
(* pixels alone (Painted).  The general arm never leaves the source, since *)
(* what it scales is in the destination turned back (MapBackStays,         *)
(* ScaleStays), and the map back undoes turn and mirror (MapBackReturns).  *)
(*                                                                         *)
(* Scene, for any windows, looks, pictures and number of changes.  Of what *)
(* is promised no cache is stale: the words of the bar are compared with   *)
(* what they should be, the notes by a generation that only grows          *)
(* (NotesOfTheirGeneration), and the ground the next frame draws is that   *)
(* of the file the timer last looked at (GroundAsSeen).  So a presented    *)
(* frame has all that is promised (FrameShowsTheScene), and what changes   *)
(* without owing a frame is none of it (ShownAsItStands, EachQuietStep).   *)
(* What is not promised is listed at NothingOwedNothingStale.              *)
(*                                                                         *)
(* GlassInv joins what is proved of the five of MCGlass, and what it lacks *)
(* of their types, for the specification that runs one of them.            *)
(***************************************************************************)
EXTENDS SeatInput, Touchpad, MCGlass, ListProofs, FiniteSetTheorems, SequenceTheorems, TLAPS

\* What a pointer motion or a change of the lock puts under the pointer is no
\* window while the session is locked.
LEMMA UnderIsSealed ==
    ASSUME locked', ptrFocus' \in Under
    PROVE  ptrFocus' # "window"
  BY DEF Under

-----------------------------------------------------------------------------
LEMMA TypeInit == InputInit => InputTypeOK
  BY SeatInputAssumption DEF InputInit, InputTypeOK, Target

LEMMA KeyEventType == InputTypeOK /\ KeyEvent => InputTypeOK'
<1> SUFFICES ASSUME InputTypeOK, NEW k \in Key,
                    \/ KeyWakes(k) \/ ChordPressed(k) \/ KeyPressed(k)
                    \/ ReleaseSwallowed(k) \/ KeyReleased(k) \/ KeyElsewhere(k)
             PROVE  InputTypeOK'
  BY DEF KeyEvent
<1> USE DEF InputTypeOK, Target, keyVars, panelVars, sealVars, focusVars, NoteInput
<1>1. remap[k] \in Key
  BY SeatInputAssumption
<1>2. CASE KeyWakes(k)
  BY <1>2 DEF KeyWakes
<1>3. CASE ChordPressed(k)
  BY <1>1, <1>3 DEF ChordPressed, Shut, Under
<1>4. CASE KeyPressed(k)
  BY <1>1, <1>4 DEF KeyPressed
<1>5. CASE ReleaseSwallowed(k)
  BY <1>1, <1>5 DEF ReleaseSwallowed
<1>6. CASE KeyReleased(k)
  BY <1>6 DEF KeyReleased
<1>7. CASE KeyElsewhere(k)
  BY <1>7 DEF KeyElsewhere
<1> QED BY <1>2, <1>3, <1>4, <1>5, <1>6, <1>7

LEMMA PointerEventType == InputTypeOK /\ PointerEvent => InputTypeOK'
<1> SUFFICES ASSUME InputTypeOK, PointerEvent PROVE InputTypeOK'
  OBVIOUS
<1> USE DEF InputTypeOK, Target, keyVars, panelVars, sealVars, focusVars, NoteInput
<1>1. CASE ButtonWakes
  BY <1>1 DEF ButtonWakes
<1>2. CASE ButtonPressed
  BY <1>2 DEF ButtonPressed
<1>3. CASE ButtonReleased
  BY <1>3 DEF ButtonReleased
<1>4. CASE ButtonElsewhere
  BY <1>4 DEF ButtonElsewhere
<1>5. CASE PointerMotion
  BY <1>5 DEF PointerMotion, Under
<1> QED BY <1>1, <1>2, <1>3, <1>4, <1>5 DEF PointerEvent

\* The panel, the VT, sleep and the configuration.
SeatAround ==
    BlankPanel \/ LightPanel \/ PauseSession \/ ActivateSession \/ SleepEnded \/ AdoptRemaps

\* The lock.
LockAround == LockSession \/ HolderCommits \/ HolderGone \/ SessionOpened

LEMMA AroundType == InputTypeOK /\ (SeatAround \/ LockAround) => InputTypeOK'
<1> SUFFICES ASSUME InputTypeOK, SeatAround \/ LockAround PROVE InputTypeOK'
  OBVIOUS
<1> USE DEF InputTypeOK, Target, keyVars, panelVars, sealVars, focusVars, NoteInput
<1>1. CASE BlankPanel \/ LightPanel
  BY <1>1 DEF BlankPanel, LightPanel
<1>2. CASE PauseSession \/ ActivateSession
  BY <1>2 DEF PauseSession, ActivateSession
<1>3. CASE SleepEnded
  BY <1>3 DEF SleepEnded
<1>4. CASE AdoptRemaps
  BY <1>4 DEF AdoptRemaps
<1>5. CASE LockSession
  BY <1>5 DEF LockSession, Shut, Under
<1>6. CASE HolderCommits
  BY <1>6 DEF HolderCommits, Under
<1>7. CASE HolderGone
  BY <1>7 DEF HolderGone, Under
<1>8. CASE SessionOpened
  BY <1>8 DEF SessionOpened, Under
<1> QED BY <1>1, <1>2, <1>3, <1>4, <1>5, <1>6, <1>7, <1>8 DEF SeatAround, LockAround

\* The types hold in every reachable state.
THEOREM InputTyped == InputSpec => []InputTypeOK
<1>1. InputTypeOK /\ [InputNext]_inputVars => InputTypeOK'
  <2> SUFFICES ASSUME InputTypeOK, [InputNext]_inputVars PROVE InputTypeOK'
    OBVIOUS
  <2>1. CASE InputNext
    BY <2>1, KeyEventType, PointerEventType, AroundType DEF InputNext, SeatAround, LockAround
  <2>2. CASE UNCHANGED inputVars
    BY <2>2 DEF inputVars, keyVars, panelVars, sealVars, focusVars, InputTypeOK, Target
  <2> QED BY <2>1, <2>2
<1> QED BY <1>1, TypeInit, PTL DEF InputSpec

-----------------------------------------------------------------------------
\* Behind the lock nothing points at a window.
LEMMA SealedNext == SealedPointer /\ [InputNext]_inputVars => SealedPointer'
<1> SUFFICES ASSUME SealedPointer, [InputNext]_inputVars PROVE SealedPointer'
  OBVIOUS
<1> USE DEF SealedPointer, sealVars, focusVars
<1>1. CASE KeyEvent
  <2> PICK k \in Key : \/ KeyWakes(k) \/ ChordPressed(k) \/ KeyPressed(k)
                       \/ ReleaseSwallowed(k) \/ KeyReleased(k) \/ KeyElsewhere(k)
    BY <1>1 DEF KeyEvent
  <2>1. CASE ChordPressed(k)
    BY <2>1, UnderIsSealed DEF ChordPressed, Shut
  <2>2. CASE KeyWakes(k) \/ KeyPressed(k) \/ ReleaseSwallowed(k) \/ KeyReleased(k)
             \/ KeyElsewhere(k)
    BY <2>2 DEF KeyWakes, KeyPressed, ReleaseSwallowed, KeyReleased, KeyElsewhere
  <2> QED BY <2>1, <2>2
<1>2. CASE PointerEvent
  <2>1. CASE PointerMotion
    BY <2>1, UnderIsSealed DEF PointerMotion
  <2>2. CASE ButtonPressed
    BY <2>2 DEF ButtonPressed
  <2>3. CASE ButtonWakes \/ ButtonReleased \/ ButtonElsewhere
    BY <2>3 DEF ButtonWakes, ButtonReleased, ButtonElsewhere
  <2> QED BY <1>2, <2>1, <2>2, <2>3 DEF PointerEvent
<1>3. CASE SeatAround
  BY <1>3 DEF SeatAround, BlankPanel, LightPanel, PauseSession, ActivateSession, SleepEnded,
              AdoptRemaps
<1>4. CASE LockAround
  <2>1. CASE LockSession
    BY <2>1, UnderIsSealed DEF LockSession, Shut
  <2>2. CASE HolderCommits
    BY <2>2, UnderIsSealed DEF HolderCommits
  <2>3. CASE HolderGone
    BY <2>3, UnderIsSealed DEF HolderGone
  <2>4. CASE SessionOpened
    BY <2>4 DEF SessionOpened
  <2> QED BY <1>4, <2>1, <2>2, <2>3, <2>4 DEF LockAround
<1>5. CASE UNCHANGED inputVars
  BY <1>5 DEF inputVars
<1> QED BY <1>1, <1>2, <1>3, <1>4, <1>5 DEF InputNext, SeatAround, LockAround

\* Whatever was held, dragged or under the pointer when the session was locked,
\* by the chord or by the idle clock, neither the pointer nor the keyboard nor a
\* drag stays on a window.
THEOREM PointerIsSealed == InputSpec => []SealedPointer
<1>1. InputInit => SealedPointer
  BY DEF InputInit, SealedPointer
<1> QED BY <1>1, SealedNext, PTL DEF InputSpec

-----------------------------------------------------------------------------
LEMMA KeysDownNext == SeatKeysAreDown /\ [InputNext]_inputVars => SeatKeysAreDown'
<1> SUFFICES ASSUME SeatKeysAreDown, [InputNext]_inputVars, presence' # "away"
             PROVE  pressed' \subseteq {remap'[k] : k \in held'} \cup orphaned'
  BY DEF SeatKeysAreDown
<1>1. CASE KeyEvent
  <2> PICK k \in Key : \/ KeyWakes(k) \/ ChordPressed(k) \/ KeyPressed(k)
                       \/ ReleaseSwallowed(k) \/ KeyReleased(k) \/ KeyElsewhere(k)
    BY <1>1 DEF KeyEvent
  <2>1. CASE KeyWakes(k) \/ ChordPressed(k) \/ KeyPressed(k)
    BY <2>1 DEF KeyWakes, ChordPressed, KeyPressed, SeatKeysAreDown
  <2>2. CASE ReleaseSwallowed(k)
    BY <2>2 DEF ReleaseSwallowed, SeatKeysAreDown
  <2>3. CASE KeyReleased(k)
    BY <2>3 DEF KeyReleased, SeatKeysAreDown
  <2>4. CASE KeyElsewhere(k)
    BY <2>4 DEF KeyElsewhere
  <2> QED BY <2>1, <2>2, <2>3, <2>4
<1>2. CASE PointerEvent
  BY <1>2 DEF PointerEvent, ButtonWakes, ButtonPressed, ButtonReleased, ButtonElsewhere,
              PointerMotion, keyVars, SeatKeysAreDown
<1>3. CASE SeatAround
  <2>1. CASE ActivateSession \/ SleepEnded
    BY <2>1 DEF ActivateSession, SleepEnded
  <2>2. CASE AdoptRemaps
    BY <2>2 DEF AdoptRemaps
  <2>3. CASE BlankPanel \/ LightPanel
    BY <2>3 DEF BlankPanel, LightPanel, keyVars, SeatKeysAreDown
  <2>4. CASE PauseSession
    BY <2>4 DEF PauseSession
  <2> QED BY <1>3, <2>1, <2>2, <2>3, <2>4 DEF SeatAround
<1>4. CASE LockAround
  BY <1>4 DEF LockAround, LockSession, HolderCommits, HolderGone, SessionOpened, keyVars,
              SeatKeysAreDown
<1>5. CASE UNCHANGED inputVars
  BY <1>5 DEF inputVars, keyVars, SeatKeysAreDown
<1> QED BY <1>1, <1>2, <1>3, <1>4, <1>5 DEF InputNext, SeatAround, LockAround

\* At home the seat believes no key down that nobody holds, but for those of the
\* two known cases: not after a switch to another VT, a sleep or a lock with
\* keys down, nor under any remap table.
THEOREM KeysOfTheSeatAreDown == InputSpec => []SeatKeysAreDown
<1>1. InputInit => SeatKeysAreDown
  BY DEF InputInit, SeatKeysAreDown
<1> QED BY <1>1, KeysDownNext, PTL DEF InputSpec

-----------------------------------------------------------------------------
\* What a frame would draw now.
Wanted == [s \in Strip |-> IF s = 0 THEN wallpaperPaint ELSE Imported[s]]

PixelsShape ==
    /\ buffer \in Image /\ surfaceTexture \in Image
    /\ copy \in Image \cup {NoCopy}
    /\ authority \in Authorities /\ flush \in FlushPolicies
    /\ unpresented \subseteq Row /\ unimported \subseteq Row /\ undrawn \subseteq Row
    /\ wallpaperPaint \in Paint /\ ground \in Paint
    /\ past \in Seq(SUBSET Strip)
    /\ shadowCopy \in Pixels /\ slot \in [{0, 1} -> Pixels]
    /\ fresh \subseteq {0, 1} /\ back \in {0, 1} /\ front \in {0, 1, NoSlot}
    /\ missed \subseteq Row /\ behind \in [{0, 1} -> SUBSET Strip]

\* What was not damaged since it was imported, or painted, is what it was then,
\* but for the rows whose change no damage told.
SourcesAreCurrent ==
    /\ \A r \in Row : r \notin unimported /\ r \notin missed => surfaceTexture[r] = buffer[r]
    /\ ~wallpaperDue => ground = wallpaperPaint

\* The shadow is what would be drawn, but for what was damaged since it was drawn.
ShadowIsCurrent ==
    /\ unimported \subseteq undrawn
    /\ ~wallpaperDue /\ past # <<>> => \A s \in Strip : s \notin undrawn => shadowCopy[s] = Wanted[s]

\* The glass is the shadow, but for what refused frames drew since.
FrontIsShadow ==
    /\ front = NoSlot => fresh = {0, 1}
    /\ front # NoSlot => front = 1 - back
    /\ front # NoSlot => \A s \in Strip : s \notin behind[front] => slot[front][s] = shadowCopy[s]

\* Under "baselined" the slot that is drawn next is what the shadow was before
\* its last frame, but for what refused frames drew since.
BackIsBefore ==
    flush = "baselined" /\ back \notin fresh /\ past # <<>> =>
        \A s \in Strip : s \notin past[1] /\ s \notin behind[back] => slot[back][s] = shadowCopy[s]

PixelsInv ==
    PixelsShape /\ SourcesAreCurrent /\ ShadowIsCurrent /\ FrontIsShadow /\ BackIsBefore
    /\ ShowsTheScene

\* The box around a damage holds it.
LEMMA BoxHolds ==
    ASSUME NEW D, D \subseteq Strip, NEW s \in D
    PROVE  s \in BoundingRegion(D)
<1>0. Rows \in Nat /\ s \in 0..Rows /\ D \subseteq 0..Rows /\ D \subseteq Nat
  BY PixelsAssumption DEF Strip
<1>1. \E x \in D : \A y \in D : ~(y < x)
  BY <1>0, SmallestOf
<1>2. \E x \in D : \A y \in D : x <= y
  BY <1>0, <1>1
<1>3. Min(D) \in D /\ Min(D) <= s
  BY <1>2 DEF Min
<1> DEFINE U == {n \in Nat : \E d \in D : n = Rows - d}
<1>4. Rows - s \in U /\ U \subseteq Nat
  BY <1>0
<1>5. PICK u \in U : \A v \in U : ~(v < u)
  BY <1>4, SmallestOf
<1>6. PICK d \in D : u = Rows - d
  OBVIOUS
<1>7. \A y \in D : y <= d
  <2> SUFFICES ASSUME NEW y \in D PROVE y <= d
    OBVIOUS
  <2>1. Rows - y \in U
    BY <1>0
  <2>2. ~(Rows - y < Rows - d)
    BY <1>5, <1>6, <2>1
  <2> QED BY <1>0, <2>2
<1>8. \E x \in D : \A y \in D : x >= y
  BY <1>0, <1>7
<1>9. Max(D) \in D /\ Max(D) >= s
  BY <1>8 DEF Max
<1> QED BY <1>0, <1>3, <1>9 DEF BoundingRegion

\* A frame gathers what it would draw, which is what was committed but for the
\* rows whose change no damage told.
LEMMA SceneIsWanted ==
    ASSUME PixelsInv
    PROVE  /\ Imported \in Image /\ GroundPaint = wallpaperPaint /\ Scene = Wanted
           /\ Wanted \in Pixels
           /\ \A r \in Row : r \notin missed => Imported[r] = buffer[r]
           /\ \A s \in Strip : s \notin missed => Wanted[s] = AsCommitted(s)
<1>1. Imported \in Image
  BY DEF Imported, Image, PixelsInv, PixelsShape
<1>2. GroundPaint = wallpaperPaint
  BY DEF PixelsInv, SourcesAreCurrent, GroundPaint
<1>3. Scene = Wanted
  BY <1>2 DEF Scene, Wanted
<1>4. \A s \in Strip : s # 0 => s \in Row
  BY PixelsAssumption DEF Strip, Row
<1>5. Wanted \in Pixels
  BY <1>1, <1>4 DEF Wanted, Pixels, PixelsInv, PixelsShape, Image
<1>6. \A r \in Row : r \notin missed => Imported[r] = buffer[r]
  BY DEF Imported, PixelsInv, SourcesAreCurrent
<1>7. \A s \in Strip : s \notin missed => Wanted[s] = AsCommitted(s)
  BY <1>4, <1>6 DEF Wanted, AsCommitted
<1> QED BY <1>1, <1>2, <1>3, <1>5, <1>6, <1>7

LEMMA ComposedIsWanted ==
    ASSUME PixelsInv
    PROVE  /\ Composed = Wanted
           /\ Past = <<>> => DrawnDamage = Strip
           /\ Past # <<>> => Past = past /\ ~wallpaperDue
           /\ \A s \in Strip : s \notin DrawnDamage => shadowCopy[s] = Wanted[s]
           /\ \A s \in Strip : s \notin OwnDamage => shadowCopy[s] = Wanted[s]
           /\ DrawnDamage \subseteq Strip /\ OwnDamage \subseteq Strip
<1>1. Past = <<>> => DrawnDamage = Strip
  BY DEF DrawnDamage, OwnDamage, BackAge
<1>2. Past # <<>> => Past = past /\ ~wallpaperDue
  BY DEF Past
<1>3. undrawn \subseteq Strip
  BY PixelsAssumption DEF PixelsInv, PixelsShape, Strip, Row
<1>4. Past # <<>> => undrawn \subseteq DrawnDamage
  BY <1>3 DEF DrawnDamage, OwnDamage
<1>5. \A s \in Strip : s \notin DrawnDamage => shadowCopy[s] = Wanted[s]
  BY <1>1, <1>2, <1>4 DEF PixelsInv, ShadowIsCurrent
<1>6. DrawnDamage \subseteq Strip
  <2>1. CASE BackAge = 0 \/ Len(Past) < BackAge
    BY <2>1 DEF DrawnDamage
  <2>2. CASE ~(BackAge = 0 \/ Len(Past) < BackAge)
    <3>1. BackAge = 2 /\ Past \in Seq(SUBSET Strip) /\ Len(Past) \in Nat
      BY <2>2 DEF BackAge, Past, PixelsInv, PixelsShape
    <3>2. Past[1] \subseteq Strip
      BY <2>2, <3>1
    <3>3. OwnDamage \subseteq Strip
      BY <1>3 DEF OwnDamage
    <3> QED BY <2>2, <3>2, <3>3 DEF DrawnDamage
  <2> QED BY <2>1, <2>2
<1>7. Composed = Wanted
  <2>1. Wanted = [s \in Strip |-> Wanted[s]]
    BY DEF Wanted
  <2>2. Scene = Wanted
    BY SceneIsWanted
  <2> QED BY <1>5, <2>1, <2>2 DEF Composed
<1>8. OwnDamage \subseteq Strip
  BY <1>3 DEF OwnDamage
<1>9. \A s \in Strip : s \notin OwnDamage => shadowCopy[s] = Wanted[s]
  <2>1. CASE Past = <<>>
    BY <2>1 DEF OwnDamage
  <2>2. CASE Past # <<>>
    BY <1>2, <2>2 DEF OwnDamage, PixelsInv, ShadowIsCurrent
  <2> QED BY <2>1, <2>2
<1> QED BY <1>1, <1>2, <1>5, <1>6, <1>7, <1>8, <1>9

\* A client changes its buffer, and D is damaged: what else changed is missed.
LEMMA ChangeKeeps ==
    ASSUME PixelsInv, NEW next \in Image, NEW D, D \subseteq Row,
           buffer' = next, Damaged(D),
           copy' \in Image \cup {NoCopy},
           unpresented' \subseteq Row, pixelsOwed' = TRUE,
           UNCHANGED <<authority, surfaceTexture, groundVars, ground, past, shadowCopy, slotVars, flush,
                       behind>>
    PROVE  PixelsInv'
<1>1. /\ UNCHANGED <<authority, surfaceTexture, wallpaperPaint, wallpaperDue, ground, past, shadowCopy,
                     slot, fresh, back, front, flush, behind>>
  BY DEF groundVars, slotVars
<1>2. /\ unimported' = unimported \cup D /\ undrawn' = undrawn \cup D
      /\ missed' = (missed \cup ChangedRows(buffer, next)) \ unimported'
  BY DEF Damaged
<1>3. ChangedRows(buffer, next) \subseteq Row
      /\ \A r \in Row : r \notin ChangedRows(buffer, next) => next[r] = buffer[r]
  BY DEF ChangedRows
<1>4. PixelsShape'
  BY <1>1, <1>2, <1>3 DEF PixelsInv, PixelsShape
<1>5. SourcesAreCurrent'
  BY <1>1, <1>2, <1>3 DEF PixelsInv, SourcesAreCurrent
<1>6. \A s \in Strip : s \notin undrawn' => Wanted'[s] = Wanted[s]
  <2>1. \A s \in Strip : s # 0 => s \in Row
    BY PixelsAssumption DEF Strip, Row
  <2>2. \A r \in Row : r \notin undrawn' => Imported'[r] = Imported[r]
    BY <1>1, <1>2 DEF Imported, PixelsInv, ShadowIsCurrent
  <2> QED BY <1>1, <2>1, <2>2 DEF Wanted
<1>7. ShadowIsCurrent'
  BY <1>1, <1>2, <1>6 DEF PixelsInv, ShadowIsCurrent
<1>8. FrontIsShadow' /\ BackIsBefore'
  BY <1>1 DEF PixelsInv, FrontIsShadow, BackIsBefore
<1>9. ShowsTheScene'
  BY DEF ShowsTheScene
<1> QED BY <1>4, <1>5, <1>7, <1>8, <1>9 DEF PixelsInv

LEMMA CommitKeeps ==
    ASSUME PixelsInv, NEW next \in Image, NEW declared \in SUBSET Row, CommitBuffer(next, declared)
    PROVE  PixelsInv'
<1>1. /\ buffer' = next /\ pixelsOwed' = TRUE
      /\ UNCHANGED <<authority, surfaceTexture, groundVars, ground, past, shadowCopy, slotVars, flush,
                     behind>>
  BY DEF CommitBuffer
<1>2. Refined(next) \subseteq Row
  BY DEF Refined, ChangedRows, PixelsInv, PixelsShape
<1>3. CASE UNCHANGED <<copy, unpresented>> /\ Damaged(declared)
  <2>1. copy' \in Image \cup {NoCopy} /\ unpresented' \subseteq Row
    BY <1>3 DEF PixelsInv, PixelsShape
  <2> QED BY <1>1, <1>3, <2>1, ChangeKeeps
<1>4. CASE copy' = next /\ unpresented' = {} /\ Damaged(declared)
  BY <1>1, <1>4, ChangeKeeps
<1>5. CASE copy' = next /\ unpresented' = Refined(next) /\ \E D \in {declared, Refined(next)} : Damaged(D)
  BY <1>1, <1>2, <1>5, ChangeKeeps
<1>6. \/ UNCHANGED <<copy, unpresented>> /\ Damaged(declared)
      \/ copy' = next /\ unpresented' = {} /\ Damaged(declared)
      \/ copy' = next /\ unpresented' = Refined(next) /\ \E D \in {declared, Refined(next)} : Damaged(D)
  <2>1. CASE ReplacesDeclaration(authority)
    BY <2>1 DEF CommitBuffer
  <2>2. CASE ~ReplacesDeclaration(authority)
    BY <2>2 DEF CommitBuffer
  <2> QED BY <2>1, <2>2
<1> QED BY <1>3, <1>4, <1>5, <1>6

LEMMA ResizedKeeps ==
    ASSUME PixelsInv, NEW next \in Image, CommitResized(next)
    PROVE  PixelsInv'
<1>1. /\ buffer' = next /\ pixelsOwed' = TRUE /\ unpresented' = {} /\ Damaged(Row)
      /\ UNCHANGED <<authority, surfaceTexture, groundVars, ground, past, shadowCopy, slotVars, flush,
                     behind>>
  BY DEF CommitResized
<1>2. copy' \in Image \cup {NoCopy}
  BY DEF CommitResized
<1> QED BY <1>1, <1>2, ChangeKeeps

\* What is asked of the seat, and the return of the VT.
LEMMA AskedKeeps ==
    ASSUME PixelsInv,
           \/ \E mode \in Authorities : SetAuthority(mode)
           \/ \E paint \in Paint : RefreshGround(paint)
           \/ AskForShot \/ ResumeScanout
           \/ UNCHANGED pixelVars
    PROVE  PixelsInv'
<1> USE DEF clientVars, groundVars, slotVars
<1>1. CASE (\E mode \in Authorities : SetAuthority(mode)) \/ AskForShot \/ UNCHANGED pixelVars
  <2>1. /\ UNCHANGED <<clientVars, surfaceTexture, groundVars, ground, past, shadowCopy, slotVars, flush,
                       missed, behind>>
        /\ authority' \in Authorities /\ (pixelsOwed' = pixelsOwed \/ pixelsOwed' = TRUE)
    BY <1>1 DEF SetAuthority, AskForShot, pixelVars, PixelsInv, PixelsShape
  <2>2. Wanted' = Wanted
    BY <2>1 DEF Wanted, Imported
  <2>3. PixelsShape' /\ SourcesAreCurrent'
    BY <2>1 DEF PixelsInv, PixelsShape, SourcesAreCurrent
  <2>4. ShadowIsCurrent' /\ FrontIsShadow' /\ BackIsBefore'
    BY <2>1, <2>2 DEF PixelsInv, ShadowIsCurrent, FrontIsShadow, BackIsBefore
  <2>5. ShowsTheScene'
    BY <2>1 DEF PixelsInv, ShowsTheScene, AsCommitted
  <2> QED BY <2>3, <2>4, <2>5 DEF PixelsInv
<1>2. CASE \E paint \in Paint : RefreshGround(paint)
  <2>1. /\ wallpaperPaint' \in Paint /\ wallpaperDue' = TRUE /\ pixelsOwed' = TRUE
        /\ UNCHANGED <<clientVars, authority, surfaceTexture, ground, past, shadowCopy, slotVars, flush,
                       missed, behind>>
    BY <1>2 DEF RefreshGround
  <2> QED BY <2>1 DEF PixelsInv, PixelsShape, SourcesAreCurrent, ShadowIsCurrent, FrontIsShadow,
                      BackIsBefore, ShowsTheScene
<1>3. CASE ResumeScanout
  <2>1. /\ front' = NoSlot /\ fresh' = {0, 1} /\ pixelsOwed' = TRUE
        /\ UNCHANGED <<clientVars, authority, surfaceTexture, groundVars, ground, past, shadowCopy, slot,
                       back, flush, missed, behind>>
    BY <1>3 DEF ResumeScanout
  <2>2. Wanted' = Wanted
    BY <2>1 DEF Wanted, Imported
  <2>3. PixelsShape' /\ SourcesAreCurrent'
    BY <2>1 DEF PixelsInv, PixelsShape, SourcesAreCurrent
  <2>4. ShadowIsCurrent' /\ FrontIsShadow' /\ ShowsTheScene'
    BY <2>1, <2>2 DEF PixelsInv, ShadowIsCurrent, FrontIsShadow, ShowsTheScene
  <2>5. BackIsBefore'
    BY <2>1 DEF PixelsInv, PixelsShape, BackIsBefore
  <2> QED BY <2>3, <2>4, <2>5 DEF PixelsInv
<1> QED BY <1>1, <1>2, <1>3

\* What every frame does before anything can fail.
LEMMA GatheredIsCurrent ==
    ASSUME PixelsInv, Gathered
    PROVE  /\ SourcesAreCurrent' /\ Wanted' = Wanted /\ wallpaperDue' = FALSE
           /\ \A s \in Strip : AsCommitted(s)' = AsCommitted(s)
<1>1. /\ surfaceTexture' = Imported /\ unimported' = {} /\ ground' = wallpaperPaint
      /\ wallpaperDue' = FALSE
      /\ UNCHANGED <<buffer, wallpaperPaint, missed>>
  BY SceneIsWanted DEF Gathered
<1>2. Imported' = Imported
  <2>1. Imported = [r \in Row |-> Imported[r]]
    BY DEF Imported
  <2>2. Imported' = [r \in Row |-> surfaceTexture'[r]]
    BY <1>1 DEF Imported
  <2> QED BY <1>1, <2>1, <2>2
<1>3. Wanted' = Wanted
  BY <1>1, <1>2 DEF Wanted
<1>4. SourcesAreCurrent'
  BY <1>1, SceneIsWanted DEF SourcesAreCurrent
<1>5. \A s \in Strip : AsCommitted(s)' = AsCommitted(s)
  BY <1>1 DEF AsCommitted
<1> QED BY <1>1, <1>3, <1>4, <1>5

LEMMA NotBoundKeeps ==
    ASSUME PixelsInv, FrameNotBound
    PROVE  PixelsInv'
<1>1. /\ Gathered /\ past' = Past
      /\ UNCHANGED <<buffer, copy, authority, wallpaperPaint, flush, unpresented, undrawn, shadowCopy,
                     slot, fresh, back, front, pixelsOwed, missed, behind>>
      /\ surfaceTexture' \in Image /\ ground' = wallpaperPaint /\ unimported' = {} /\ pixelsOwed
  BY SceneIsWanted DEF FrameNotBound, slotVars, Gathered
<1>2. SourcesAreCurrent' /\ Wanted' = Wanted /\ wallpaperDue' = FALSE
  BY <1>1, GatheredIsCurrent
<1>3. past' = past \/ past' = <<>>
  BY <1>1 DEF Past
<1>4. past' # <<>> => past' = past /\ ~wallpaperDue
  BY <1>1 DEF Past
<1>5. past' \in Seq(SUBSET Strip)
  <2>1. <<>> \in Seq(SUBSET Strip)
    OBVIOUS
  <2> QED BY <1>3, <2>1 DEF PixelsInv, PixelsShape
<1>6. PixelsShape'
  BY <1>1, <1>5 DEF PixelsInv, PixelsShape
<1>7. ShadowIsCurrent'
  BY <1>1, <1>2, <1>4 DEF PixelsInv, ShadowIsCurrent
<1>8. FrontIsShadow' /\ BackIsBefore'
  BY <1>1, <1>4 DEF PixelsInv, FrontIsShadow, BackIsBefore
<1>9. ShowsTheScene'
  BY <1>1 DEF ShowsTheScene
<1> QED BY <1>2, <1>6, <1>7, <1>8, <1>9 DEF PixelsInv

\* A frame with nothing to draw: the shadow is what would be drawn, and so is the
\* glass, but for what it is behind by.
LEMMA SkippedKeeps ==
    ASSUME PixelsInv, FrameSkipped
    PROVE  PixelsInv'
<1>1. /\ Gathered /\ DrawnDamage = {}
      /\ UNCHANGED <<buffer, copy, authority, wallpaperPaint, flush, past, unpresented, undrawn, shadowCopy,
                     slot, fresh, back, front, missed, behind>>
      /\ surfaceTexture' \in Image /\ ground' = wallpaperPaint /\ unimported' = {}
  BY SceneIsWanted DEF FrameSkipped, slotVars, Gathered
<1>2. /\ SourcesAreCurrent' /\ Wanted' = Wanted /\ wallpaperDue' = FALSE
      /\ \A s \in Strip : AsCommitted(s)' = AsCommitted(s)
  BY <1>1, GatheredIsCurrent
<1>3. 0 \in Strip
  BY PixelsAssumption DEF Strip
<1>4. /\ Past # <<>> /\ Past = past /\ ~wallpaperDue
      /\ \A s \in Strip : shadowCopy[s] = Wanted[s]
  BY <1>1, <1>3, ComposedIsWanted
<1>5. BackAge # 0
  BY <1>1, <1>3 DEF DrawnDamage
<1>6. back \notin fresh
  BY <1>5 DEF BackAge
<1>7. front # NoSlot /\ front \in {0, 1}
  BY <1>6 DEF PixelsInv, PixelsShape, FrontIsShadow
<1>8. \A s \in Strip : s \notin behind[front] => slot[front][s] = Wanted[s]
  BY <1>4, <1>7 DEF PixelsInv, FrontIsShadow
<1>9. PixelsShape'
  BY <1>1 DEF PixelsInv, PixelsShape
<1>10. ShadowIsCurrent' /\ FrontIsShadow' /\ BackIsBefore'
  BY <1>1, <1>2, <1>4 DEF PixelsInv, ShadowIsCurrent, FrontIsShadow, BackIsBefore
<1>11. \A s \in Strip : s \notin missed /\ s \notin behind[front] => slot[front][s] = AsCommitted(s)
  BY <1>8, SceneIsWanted
<1>12. ShowsTheScene'
  BY <1>1, <1>2, <1>7, <1>11 DEF ShowsTheScene
<1> QED BY <1>2, <1>9, <1>10, <1>12 DEF PixelsInv


\* What is copied to the slot is what would be drawn: outside the box around the
\* damage the slot has it already, but for what it is behind by.
LEMMA FlushedIsWanted ==
    ASSUME PixelsInv
    PROVE  /\ Flushed \in Pixels
           /\ \A s \in Strip : s \notin behind[back] \ FlushedRegion => Flushed[s] = Wanted[s]
<1>1. Composed = Wanted /\ Wanted \in Pixels /\ slot[back] \in Pixels
  BY ComposedIsWanted, SceneIsWanted DEF PixelsInv, PixelsShape
<1>2. Flushed = [s \in Strip |-> IF s \in FlushedRegion THEN Wanted[s] ELSE slot[back][s]]
  BY <1>1 DEF Flushed
<1>3. Flushed \in Pixels
  BY <1>1, <1>2 DEF Pixels
<1>4. ASSUME NEW s \in Strip, s \notin behind[back], s \notin FlushedRegion
      PROVE  slot[back][s] = Wanted[s]
  <2>1. flush = "baselined" /\ BackAge # 0 /\ s \notin BoundingRegion(DrawnDamage)
    BY <1>4 DEF FlushedRegion
  <2>2. back \notin fresh
    BY <2>1 DEF BackAge
  <2>3. s \notin DrawnDamage
    BY <2>1, ComposedIsWanted, BoxHolds
  <2>4. Past # <<>> /\ Past = past
    BY <2>3, ComposedIsWanted
  <2>5. s \notin past[1]
    BY <2>3, <2>4 DEF DrawnDamage
  <2>6. slot[back][s] = shadowCopy[s]
    BY <1>4, <2>1, <2>2, <2>4, <2>5 DEF PixelsInv, BackIsBefore
  <2> QED BY <2>3, <2>6, ComposedIsWanted
<1>5. ASSUME NEW s \in Strip, s \notin behind[back] \ FlushedRegion
      PROVE  Flushed[s] = Wanted[s]
  <2>1. CASE s \in FlushedRegion
    BY <1>2, <2>1
  <2>2. CASE s \notin FlushedRegion
    BY <1>2, <1>4, <1>5, <2>2
  <2> QED BY <2>1, <2>2
<1> QED BY <1>3, <1>5

\* A frame that is drawn leaves what is wanted in the shadow and in the slot, and
\* the tracker knows what it changed.
LEMMA RenderedPaints ==
    ASSUME PixelsInv, Rendered
    PROVE  /\ SourcesAreCurrent' /\ Wanted' = Wanted /\ Wanted \in Pixels
           /\ \A s \in Strip : AsCommitted(s)' = AsCommitted(s)
           /\ shadowCopy' = Wanted
           /\ slot' \in [{0, 1} -> Pixels] /\ slot'[1 - back] = slot[1 - back]
           /\ \A s \in Strip : s \notin behind[back] \ FlushedRegion => slot'[back][s] = Wanted[s]
           /\ past' \in Seq(SUBSET Strip) /\ past' # <<>> /\ past'[1] = OwnDamage
           /\ \A s \in Strip : s \notin OwnDamage => shadowCopy[s] = Wanted[s]
           /\ undrawn' = {} /\ surfaceTexture' \in Image /\ unimported' = {} /\ ground' = wallpaperPaint
           /\ UNCHANGED <<buffer, copy, authority, wallpaperPaint, flush, missed>>
<1>1. Gathered /\ shadowCopy' = Composed /\ slot' = [slot EXCEPT ![back] = Flushed] /\ undrawn' = {}
  BY DEF Rendered
<1>2. /\ SourcesAreCurrent' /\ Wanted' = Wanted
      /\ \A s \in Strip : AsCommitted(s)' = AsCommitted(s)
  BY <1>1, GatheredIsCurrent
<1>3. shadowCopy' = Wanted /\ Wanted \in Pixels
  BY <1>1, ComposedIsWanted, SceneIsWanted
<1>4. slot' \in [{0, 1} -> Pixels] /\ slot'[back] = Flushed /\ slot'[1 - back] = slot[1 - back]
  <2>1. slot \in [{0, 1} -> Pixels] /\ back \in {0, 1} /\ 1 - back # back
    BY DEF PixelsInv, PixelsShape
  <2>2. Flushed \in Pixels
    BY FlushedIsWanted
  <2> QED BY <1>1, <2>1, <2>2
<1>5. \A s \in Strip : s \notin behind[back] \ FlushedRegion => slot'[back][s] = Wanted[s]
  BY <1>4, FlushedIsWanted
<1>6. Past \in Seq(SUBSET Strip)
  <2>1. <<>> \in Seq(SUBSET Strip)
    OBVIOUS
  <2> QED BY <2>1 DEF Past, PixelsInv, PixelsShape
<1> DEFINE drawn == <<OwnDamage>> \o Past
           kept == Min({2, Len(Past) + 1})
<1>7. drawn \in Seq(SUBSET Strip) /\ Len(drawn) = Len(Past) + 1 /\ drawn[1] = OwnDamage
  <2>1. OwnDamage \in SUBSET Strip
    BY ComposedIsWanted
  <2> QED BY <1>6, <2>1
<1>8. kept \in 1..Len(drawn)
  <2>1. Len(Past) \in Nat
    BY <1>6
  <2>2. \E x \in {2, Len(Past) + 1} : \A y \in {2, Len(Past) + 1} : x <= y
    BY <2>1
  <2>3. kept \in {2, Len(Past) + 1} /\ kept <= Len(Past) + 1
    BY <2>2 DEF Min
  <2> QED BY <1>7, <2>1, <2>3
<1>9. past' = SubSeq(drawn, 1, kept)
  BY DEF Rendered
<1> HIDE DEF drawn, kept
<1>10. /\ past' \in Seq(SUBSET Strip) /\ Len(past') = kept
       /\ past'[1] = drawn[1]
  BY <1>7, <1>8, <1>9
<1>11. past' # <<>> /\ past'[1] = OwnDamage
  BY <1>7, <1>8, <1>10
<1>12. /\ surfaceTexture' \in Image /\ unimported' = {} /\ ground' = wallpaperPaint
       /\ UNCHANGED <<buffer, copy, authority, wallpaperPaint, flush, missed>>
  BY <1>1, SceneIsWanted DEF Gathered
<1>13. \A s \in Strip : s \notin OwnDamage => shadowCopy[s] = Wanted[s]
  BY ComposedIsWanted
<1> QED BY <1>1, <1>2, <1>3, <1>4, <1>5, <1>10, <1>11, <1>12, <1>13

\* A frame that reaches the glass.
LEMMA FlippedKeeps ==
    ASSUME PixelsInv, FrameFlipped
    PROVE  PixelsInv'
<1>1. /\ Rendered /\ back' = 1 - back /\ front' = back /\ fresh' = fresh \ {back}
      /\ unpresented' = {}
      /\ behind' = [behind EXCEPT ![back] = @ \ FlushedRegion]
  BY DEF FrameFlipped, NextSlot
<1>2. /\ SourcesAreCurrent' /\ Wanted' = Wanted /\ Wanted \in Pixels
      /\ \A s \in Strip : AsCommitted(s)' = AsCommitted(s)
      /\ shadowCopy' = Wanted
      /\ slot' \in [{0, 1} -> Pixels] /\ slot'[1 - back] = slot[1 - back]
      /\ \A s \in Strip : s \notin behind[back] \ FlushedRegion => slot'[back][s] = Wanted[s]
      /\ past' \in Seq(SUBSET Strip) /\ past' # <<>> /\ past'[1] = OwnDamage
      /\ \A s \in Strip : s \notin OwnDamage => shadowCopy[s] = Wanted[s]
      /\ undrawn' = {} /\ surfaceTexture' \in Image /\ unimported' = {} /\ ground' = wallpaperPaint
      /\ UNCHANGED <<buffer, copy, authority, wallpaperPaint, flush, missed>>
  BY <1>1, RenderedPaints
<1>3. back \in {0, 1} /\ back' \in {0, 1} /\ back' # back /\ back = 1 - back'
  BY <1>1 DEF PixelsInv, PixelsShape
<1>4. /\ behind' \in [{0, 1} -> SUBSET Strip]
      /\ behind'[back] = behind[back] \ FlushedRegion /\ behind'[back'] = behind[back']
  BY <1>1, <1>3 DEF PixelsInv, PixelsShape
<1>5. /\ front' # NoSlot /\ front' = 1 - back'
      /\ \A s \in Strip : s \notin behind'[front'] => slot'[front'][s] = Wanted[s]
  BY <1>1, <1>2, <1>3, <1>4, PixelsAssumption
<1>6. PixelsShape'
  BY <1>1, <1>2, <1>3, <1>4 DEF PixelsInv, PixelsShape
<1>7. ShadowIsCurrent' /\ FrontIsShadow'
  BY <1>1, <1>2, <1>5 DEF ShadowIsCurrent, FrontIsShadow
<1>8. BackIsBefore'
  <2> SUFFICES ASSUME back' \notin fresh', NEW s \in Strip, s \notin past'[1], s \notin behind'[back']
               PROVE  slot'[back'][s] = shadowCopy'[s]
    BY DEF BackIsBefore
  <2>1. back' \notin fresh
    BY <1>1, <1>3
  <2>2. front # NoSlot /\ front = back'
    BY <1>1, <1>3, <2>1 DEF PixelsInv, FrontIsShadow
  <2>3. slot[front][s] = shadowCopy[s]
    BY <1>4, <2>2 DEF PixelsInv, FrontIsShadow
  <2> QED BY <1>1, <1>2, <2>2, <2>3
<1>9. ShowsTheScene'
  <2>1. \A s \in Strip : s \notin missed /\ s \notin behind'[front'] => slot'[front'][s] = AsCommitted(s)
    BY <1>5, SceneIsWanted
  <2> QED BY <1>2, <1>5, <2>1 DEF ShowsTheScene
<1> QED BY <1>2, <1>6, <1>7, <1>8, <1>9 DEF PixelsInv

\* A frame drawn and refused: the other slot is behind by what the tracker took
\* for drawn.
LEMMA RefusedKeeps ==
    ASSUME PixelsInv, FrameRefused
    PROVE  PixelsInv'
<1>1. /\ Rendered /\ pixelsOwed
      /\ behind' = [behind EXCEPT ![back] = @ \ FlushedRegion, ![1 - back] = @ \cup OwnDamage]
      /\ UNCHANGED <<back, front, fresh, unpresented, pixelsOwed>>
  BY DEF FrameRefused, Rendered
<1>2. /\ SourcesAreCurrent' /\ Wanted' = Wanted /\ Wanted \in Pixels
      /\ shadowCopy' = Wanted
      /\ slot' \in [{0, 1} -> Pixels] /\ slot'[1 - back] = slot[1 - back]
      /\ \A s \in Strip : s \notin behind[back] \ FlushedRegion => slot'[back][s] = Wanted[s]
      /\ past' \in Seq(SUBSET Strip) /\ past' # <<>> /\ past'[1] = OwnDamage
      /\ \A s \in Strip : s \notin OwnDamage => shadowCopy[s] = Wanted[s]
      /\ undrawn' = {} /\ surfaceTexture' \in Image /\ unimported' = {} /\ ground' = wallpaperPaint
      /\ UNCHANGED <<buffer, copy, authority, wallpaperPaint, flush, missed>>
  BY <1>1, RenderedPaints
<1>3. back \in {0, 1} /\ 1 - back \in {0, 1} /\ 1 - back # back
  BY DEF PixelsInv, PixelsShape
<1>4. /\ behind' \in [{0, 1} -> SUBSET Strip]
      /\ behind'[back] = behind[back] \ FlushedRegion
      /\ behind'[1 - back] = behind[1 - back] \cup OwnDamage
  <2>1. OwnDamage \subseteq Strip
    BY ComposedIsWanted
  <2> QED BY <1>1, <1>3, <2>1 DEF PixelsInv, PixelsShape
<1>5. PixelsShape'
  BY <1>1, <1>2, <1>4 DEF PixelsInv, PixelsShape
<1>6. ShadowIsCurrent'
  BY <1>2 DEF ShadowIsCurrent
<1>7. FrontIsShadow'
  <2>1. ASSUME front # NoSlot, NEW s \in Strip, s \notin behind'[front]
        PROVE  slot'[front][s] = Wanted[s]
    <3>1. front = 1 - back /\ s \notin behind[front] /\ s \notin OwnDamage
      BY <1>4, <2>1 DEF PixelsInv, FrontIsShadow
    <3>2. slot[front][s] = shadowCopy[s]
      BY <2>1, <3>1 DEF PixelsInv, FrontIsShadow
    <3> QED BY <1>2, <3>1, <3>2
  <2> QED BY <1>1, <1>2, <2>1 DEF PixelsInv, FrontIsShadow
<1>8. BackIsBefore'
  BY <1>1, <1>2, <1>4 DEF BackIsBefore
<1>9. ShowsTheScene'
  BY <1>1 DEF ShowsTheScene
<1> QED BY <1>2, <1>5, <1>6, <1>7, <1>8, <1>9 DEF PixelsInv

LEMMA PixelsStart == PixelsInit => PixelsInv
<1> SUFFICES ASSUME PixelsInit PROVE PixelsInv
  OBVIOUS
<1> DEFINE first == CHOOSE p \in Paint : TRUE
<1>1. first \in Paint
  BY PixelsAssumption
<1>2. wallpaperPaint = first /\ ground = first /\ surfaceTexture = [r \in Row |-> first]
  BY DEF PixelsInit
<1> HIDE DEF first
<1>3. /\ shadowCopy \in Pixels /\ slot \in [{0, 1} -> Pixels] /\ surfaceTexture \in Image
      /\ behind \in [{0, 1} -> SUBSET Strip]
  BY <1>1, <1>2 DEF PixelsInit, Pixels, Image
<1>4. past \in Seq(SUBSET Strip)
  BY DEF PixelsInit
<1>5. PixelsShape
  BY <1>1, <1>2, <1>3, <1>4 DEF PixelsInit, PixelsShape
<1>6. SourcesAreCurrent
  BY DEF PixelsInit, SourcesAreCurrent
<1> QED BY <1>5, <1>6 DEF PixelsInit, PixelsInv, ShadowIsCurrent, FrontIsShadow, BackIsBefore,
                          ShowsTheScene

LEMMA PixelsStep == PixelsInv /\ [PixelsNext]_pixelVars => PixelsInv'
<1> SUFFICES ASSUME PixelsInv, [PixelsNext]_pixelVars PROVE PixelsInv'
  OBVIOUS
<1>1. CASE \E next \in Image, declared \in SUBSET Row : CommitBuffer(next, declared)
  BY <1>1, CommitKeeps
<1>2. CASE \E next \in Image : CommitResized(next)
  BY <1>2, ResizedKeeps
<1>3. CASE \/ \E mode \in Authorities : SetAuthority(mode)
           \/ \E paint \in Paint : RefreshGround(paint)
           \/ AskForShot \/ ResumeScanout
           \/ UNCHANGED pixelVars
  BY <1>3, AskedKeeps
<1>4. CASE FrameNotBound
  BY <1>4, NotBoundKeeps
<1>5. CASE FrameSkipped
  BY <1>5, SkippedKeeps
<1>6. CASE FrameFlipped
  BY <1>6, FlippedKeeps
<1>7. CASE FrameRefused
  BY <1>7, RefusedKeeps
<1> QED BY <1>1, <1>2, <1>3, <1>4, <1>5, <1>6, <1>7 DEF PixelsNext

\* When the ledger owes nothing, the glass shows what the clients committed over
\* the wallpaper last painted, but for the rows whose change no damage told and
\* the strips that refused frames drew and the slot was not given since: for any
\* number of rows, paints and frames, any sizes of damage, any authority that is
\* switched at any time, either flush and any flips that are refused.
THEOREM GlassAlwaysShowsTheScene == PixelsSpec => []ShowsTheScene
<1>1. PixelsInv => ShowsTheScene
  BY DEF PixelsInv
<1> QED BY <1>1, PixelsStart, PixelsStep, PTL DEF PixelsSpec

-----------------------------------------------------------------------------
(* The touchpad                                                            *)

\* The strides of the fingers S, added up.
Strides(S) ==
    FoldSet(LAMBDA s, v : Plus(Delta(contact[s], contact[s].pos), v), <<0, 0>>, S)

\* Two fingers that stand still stride nowhere.
LEMMA StillStrides ==
    ASSUME NEW a, NEW b, a # b,
           \A s \in {a, b} : Delta(contact[s], contact[s].pos) = <<0, 0>>
    PROVE  Strides({a, b}) = <<0, 0>>
<1> DEFINE S == {a, b}
           one(s) == CHOOSE x \in s : TRUE
           D(s) == Delta(contact[s], contact[s].pos)
           Body(f) == [s \in SUBSET S |-> IF s = {} THEN <<0, 0>> ELSE Plus(D(one(s)), f[s \ {one(s)}])]
           still == [s \in SUBSET S |-> <<0, 0>>]
<1>1. Strides(S) = (CHOOSE f : f = Body(f))[S]
  BY DEF Strides, FoldSet, MapThenFoldSet
<1>2. \A s \in SUBSET S : s # {} => one(s) \in s
  OBVIOUS
<1>3. \A s \in SUBSET S : s # {} => D(one(s)) = <<0, 0>> /\ s \ {one(s)} \in SUBSET S
  BY <1>2
<1>4. Plus(<<0, 0>>, <<0, 0>>) = <<0, 0>>
  BY DEF Plus
<1> HIDE DEF one, D
<1>5. still = Body(still)
  <2>1. \A s \in SUBSET S : (IF s = {} THEN <<0, 0>> ELSE Plus(D(one(s)), still[s \ {one(s)}])) = <<0, 0>>
    BY <1>3, <1>4
  <2> QED BY <2>1
<1>6. PICK f : f = Body(f) /\ Strides(S) = f[S]
  <2> HIDE DEF Body, still, S
  <2> QED BY <1>1, <1>5
<1>7. f[{}] = <<0, 0>>
  BY <1>6
<1>8. \A x \in S : f[{x}] = <<0, 0>>
  <2> TAKE x \in S
  <2>1. one({x}) = x
    BY <1>2
  <2>2. f[{x}] = Plus(D(one({x})), f[{x} \ {one({x})}])
    BY <1>6
  <2> QED BY <1>3, <1>4, <1>7, <2>1, <2>2
<1>9. f[S] = <<0, 0>>
  <2>1. one(S) \in S
    BY <1>2
  <2>2. PICK y \in S : S \ {one(S)} = {y}
    BY <2>1
  <2>3. f[S] = Plus(D(one(S)), f[S \ {one(S)}])
    BY <1>6
  <2> QED BY <1>3, <1>4, <1>8, <2>2, <2>3
<1> QED BY <1>6, <1>9

\* Up to two things are said one after the other.
LEMMA TellsInOrder ==
    ASSUME NEW says, Len(says) \in 0..2, DOMAIN says = 1..Len(says), Tell(says)
    PROVE  \E d : /\ d[0] = buttons
                  /\ \A i \in 1..Len(says) :
                        d[i] = IF says[i][2] THEN d[i - 1] \cup {says[i][1]}
                               ELSE d[i - 1] \ {says[i][1]}
                  /\ buttons' = d[Len(says)]
                  /\ doubled' = (doubled \/ \E i \in 1..Len(says) :
                                    says[i][2] = (says[i][1] \in d[i - 1]))
<1> DEFINE n == Len(says)
           Next(i, b) == IF says[i][2] THEN b \cup {says[i][1]} ELSE b \ {says[i][1]}
           Body(f) == [i \in 0..n |-> IF i = 0 THEN buttons
                                      ELSE IF says[i][2] THEN f[i - 1] \cup {says[i][1]}
                                      ELSE f[i - 1] \ {says[i][1]}]
           told == CHOOSE f : f = Body(f)
           g == [i \in 0..n |-> IF i = 0 THEN buttons ELSE IF i = 1 THEN Next(1, buttons)
                                ELSE Next(2, Next(1, buttons))]
<1>1. buttons' = told[n]
  BY DEF Tell
<1>2. doubled' = (doubled \/ \E i \in DOMAIN says : says[i][2] = (says[i][1] \in told[i - 1]))
  BY DEF Tell
<1>3. g = Body(g)
  <2>1. \A i \in 0..n : g[i] = IF i = 0 THEN buttons ELSE Next(i, g[i - 1])
    <3> HIDE DEF Next
    <3> TAKE i \in 0..n
    <3>1. i = 0 \/ i = 1 \/ i = 2
      OBVIOUS
    <3> QED BY <3>1
  <2>2. g = [i \in 0..n |-> g[i]]
    OBVIOUS
  <2>3. \A i \in 0..n : g[i] = IF i = 0 THEN buttons
                               ELSE IF says[i][2] THEN g[i - 1] \cup {says[i][1]}
                               ELSE g[i - 1] \ {says[i][1]}
    <3> HIDE DEF g
    <3> QED BY <2>1
  <2> HIDE DEF g, Next
  <2> QED BY <2>2, <2>3
<1>4. told = Body(told)
  <2> HIDE DEF Body, g
  <2> QED BY <1>3
<1> HIDE DEF told
<1>5. told[0] = buttons /\ \A i \in 1..n : told[i] = Next(i, told[i - 1])
  <2>1. \A i \in 0..n : told[i] = Body(told)[i]
    <3> HIDE DEF Body
    <3> QED BY <1>4
  <2>2. 0 \in 0..n /\ \A i \in 1..n : i \in 0..n /\ i # 0
    OBVIOUS
  <2> QED BY <2>1, <2>2
<1> QED BY <1>1, <1>2, <1>5

LEMMA TellNothing ==
    ASSUME Tell(<<>>), doubled \in BOOLEAN
    PROVE  buttons' = buttons /\ doubled' = doubled
<1> DEFINE says == <<>>
<1>0. says \in Seq({}) /\ Len(says) = 0
  OBVIOUS
<1>1. Len(says) \in 0..2 /\ DOMAIN says = 1..Len(says) /\ Tell(says)
  <2>1. Tell(says)
    OBVIOUS
  <2> HIDE DEF says
  <2> QED BY <1>0, <2>1
<1> HIDE DEF says
<1>2. PICK d : /\ d[0] = buttons
               /\ \A i \in 1..Len(says) :
                     d[i] = IF says[i][2] THEN d[i - 1] \cup {says[i][1]}
                            ELSE d[i - 1] \ {says[i][1]}
               /\ buttons' = d[Len(says)]
               /\ doubled' = (doubled \/ \E i \in 1..Len(says) :
                                 says[i][2] = (says[i][1] \in d[i - 1]))
  BY <1>1, TellsInOrder, Zenon
<1>3. ~\E i \in 1..Len(says) : says[i][2] = (says[i][1] \in d[i - 1])
  BY <1>0
<1> QED BY <1>0, <1>2, <1>3

LEMMA TellOne ==
    ASSUME NEW c, NEW down \in BOOLEAN, Tell(<<<<c, down>>>>), down # (c \in buttons), doubled \in BOOLEAN
    PROVE  /\ buttons' = IF down THEN buttons \cup {c} ELSE buttons \ {c}
           /\ doubled' = doubled
<1> DEFINE says == <<<<c, down>>>>
<1>1. /\ Len(says) = 1 /\ Len(says) \in 0..2 /\ DOMAIN says = 1..Len(says) /\ Tell(says)
      /\ says[1] = <<c, down>>
  OBVIOUS
<1> HIDE DEF says
<1>2. PICK d : /\ d[0] = buttons
               /\ \A i \in 1..Len(says) :
                     d[i] = IF says[i][2] THEN d[i - 1] \cup {says[i][1]}
                            ELSE d[i - 1] \ {says[i][1]}
               /\ buttons' = d[Len(says)]
               /\ doubled' = (doubled \/ \E i \in 1..Len(says) :
                                 says[i][2] = (says[i][1] \in d[i - 1]))
  BY <1>1, TellsInOrder, Zenon
<1>3. d[1] = IF down THEN buttons \cup {c} ELSE buttons \ {c}
  BY <1>1, <1>2
<1>4. ~\E i \in 1..Len(says) : says[i][2] = (says[i][1] \in d[i - 1])
  <2>1. \A i \in 1..Len(says) : i = 1
    BY <1>1
  <2>2. says[1][2] = down /\ says[1][1] = c /\ d[1 - 1] = buttons
    BY <1>1, <1>2
  <2> QED BY <2>1, <2>2
<1>5. doubled' = doubled
  BY <1>2, <1>4
<1> QED BY <1>1, <1>2, <1>3, <1>5

LEMMA TellClick ==
    ASSUME NEW c, Tell(<<<<c, TRUE>>, <<c, FALSE>>>>), c \notin buttons, doubled \in BOOLEAN
    PROVE  buttons' = buttons /\ doubled' = doubled
<1> DEFINE says == <<<<c, TRUE>>, <<c, FALSE>>>>
<1>0. says \in Seq({<<c, TRUE>>, <<c, FALSE>>}) /\ Len(says) = 2
  OBVIOUS
<1>1. /\ Len(says) \in 0..2 /\ DOMAIN says = 1..Len(says) /\ Tell(says)
      /\ says[1] = <<c, TRUE>> /\ says[2] = <<c, FALSE>>
  <2>1. Tell(says) /\ says[1] = <<c, TRUE>> /\ says[2] = <<c, FALSE>>
    OBVIOUS
  <2> HIDE DEF says
  <2> QED BY <1>0, <2>1
<1> HIDE DEF says
<1>2. PICK d : /\ d[0] = buttons
               /\ \A i \in 1..Len(says) :
                     d[i] = IF says[i][2] THEN d[i - 1] \cup {says[i][1]}
                            ELSE d[i - 1] \ {says[i][1]}
               /\ buttons' = d[Len(says)]
               /\ doubled' = (doubled \/ \E i \in 1..Len(says) :
                                 says[i][2] = (says[i][1] \in d[i - 1]))
  BY <1>1, TellsInOrder, Zenon
<1>3. d[1] = buttons \cup {c} /\ d[2] = d[1] \ {c} /\ d[0] = buttons
  <2>1. 1 \in 1..Len(says) /\ 2 \in 1..Len(says) /\ 1 - 1 = 0 /\ 2 - 1 = 1
    BY <1>0
  <2>2. d[1] = IF says[1][2] THEN d[0] \cup {says[1][1]} ELSE d[0] \ {says[1][1]}
    BY <1>2, <2>1
  <2>3. d[2] = IF says[2][2] THEN d[1] \cup {says[2][1]} ELSE d[1] \ {says[2][1]}
    BY <1>2, <2>1
  <2> QED BY <1>1, <1>2, <2>2, <2>3
<1>4. ~\E i \in 1..Len(says) : says[i][2] = (says[i][1] \in d[i - 1])
  <2>1. \A i \in 1..Len(says) : i = 1 \/ i = 2
    BY <1>0
  <2>2. says[1][2] = TRUE /\ says[1][1] = c /\ d[1 - 1] = buttons
    BY <1>1, <1>3
  <2>3. says[2][2] = FALSE /\ says[2][1] = c /\ d[2 - 1] = buttons \cup {c}
    BY <1>1, <1>3
  <2> QED BY <2>1, <2>2, <2>3
<1>5. doubled' = doubled
  BY <1>2, <1>4
<1> QED BY <1>0, <1>2, <1>3, <1>5

Contact ==
    {NoContact} \cup
    [here : {TRUE}, settled : BOOLEAN, pos : Spot, last : Spot, start : Spot, far : BOOLEAN,
     age : Nat, rest : {"never", "after tap time", "at once"}, excluded : BOOLEAN]

PadShape ==
    /\ contact \in [Slot -> Contact] /\ previous \in Nat
    /\ clickpad \in BOOLEAN /\ doubled \in BOOLEAN /\ busy \in BOOLEAN
    /\ leftEdge \in {"none", "press", "release"} /\ pressedButton \in {"none", "left", "right"}
    /\ tap.spoiled \in BOOLEAN

\* What scrolls is in flow, and nothing does on a pad nobody touches: whatever
\* lies on it is not counted.
ScrollHeld ==
    /\ scrolled = flow.axes
    /\ flow.kind # "scrolling" => flow.axes = {}
    /\ previous = 0 =>
          /\ flow = Free /\ twoFinger = <<0, 0>>
          /\ \A s \in Slot : contact[s].here /\ contact[s].settled => contact[s].excluded

\* A tap under which something else was done is spoiled.
TapAlone ==
    /\ busy \/ pressedButton # "none" => tap = NoTap \/ tap.spoiled
    /\ clicked # "no" => ~busy

\* The seat has of a clickpad the button it is pushed as, and no other.
PressHeld ==
    clickpad => /\ others = <<>> /\ ~doubled
                /\ buttons = IF pressedButton = "none" THEN {} ELSE {pressedButton}

PadInv == PadShape /\ ScrollHeld /\ TapAlone /\ PressHeld

LEMMA RawKeeps ==
    ASSUME PadInv,
           \/ Press \/ TouchOff
           \/ \E s \in Slot : Land(s) \/ Lift(s) \/ Move(s) \/ ToolChange(s)
           \/ UNCHANGED touchpadVars
    PROVE  PadInv' /\ UNCHANGED clicked
<1> USE DEF machineVars, toldVars
<1>1. UNCHANGED <<clickpad, machineVars, toldVars>>
  BY DEF Press, TouchOff, Land, Lift, Move, ToolChange, touchpadVars
<1>2. /\ leftEdge' \in {"none", "press", "release"}
      /\ others' = others \/ ~clickpad
  BY DEF Press, TouchOff, Land, Lift, Move, ToolChange, touchpadVars, rawVars, PadInv, PadShape
<1>3. /\ contact' \in [Slot -> Contact]
      /\ \A s \in Slot : contact'[s].here /\ contact'[s].settled =>
            contact[s].here /\ contact[s].settled /\ contact'[s].excluded = contact[s].excluded
  <2>0. contact \in [Slot -> Contact]
    BY DEF PadInv, PadShape
  <2>1. CASE UNCHANGED contact
    BY <2>0, <2>1
  <2>2. ASSUME NEW s \in Slot, Land(s)
        PROVE  <1>3!1 /\ <1>3!2
    <3>1. PICK p \in Spot : contact' =
             [contact EXCEPT ![s] = [here |-> TRUE, settled |-> FALSE, pos |-> p, last |-> p,
                start |-> p, far |-> FALSE, age |-> 0, rest |-> "never", excluded |-> FALSE]]
      BY <2>2 DEF Land
    <3>2. \A q \in Slot : contact'[q] = IF q = s THEN contact'[s] ELSE contact[q]
      BY <2>0, <3>1
    <3>3. ~contact'[s].settled /\ contact'[s] \in Contact
      BY <2>0, <3>1 DEF Contact
    <3>4. contact' \in [Slot -> Contact]
      BY <2>0, <3>1, <3>3
    <3> QED BY <3>2, <3>3, <3>4
  <2>3. ASSUME NEW s \in Slot, Lift(s)
        PROVE  <1>3!1 /\ <1>3!2
    <3>1. contact' = [contact EXCEPT ![s] = NoContact]
      BY <2>3 DEF Lift
    <3>2. contact' \in [Slot -> Contact]
      BY <2>0, <3>1 DEF Contact
    <3>3. \A q \in Slot : contact'[q] = IF q = s THEN NoContact ELSE contact[q]
      BY <2>0, <3>1
    <3> QED BY <3>2, <3>3 DEF NoContact
  <2>4. ASSUME NEW s \in Slot, Move(s)
        PROVE  <1>3!1 /\ <1>3!2
    <3>1. PICK p \in Spot : contact' = [contact EXCEPT ![s].pos = p]
      BY <2>4 DEF Move
    <3>2. contact[s].here /\ contact[s] \in Contact
      BY <2>0, <2>4 DEF Move
    <3>3. /\ [contact[s] EXCEPT !.pos = p] \in Contact
          /\ [contact[s] EXCEPT !.pos = p].settled = contact[s].settled
          /\ [contact[s] EXCEPT !.pos = p].excluded = contact[s].excluded
      BY <3>2 DEF Contact, NoContact
    <3>4. contact' \in [Slot -> Contact]
      BY <2>0, <3>1, <3>3
    <3>5. \A q \in Slot : contact'[q] = IF q = s THEN [contact[s] EXCEPT !.pos = p] ELSE contact[q]
      BY <2>0, <3>1
    <3> QED BY <3>2, <3>3, <3>4, <3>5
  <2> QED BY <2>1, <2>2, <2>3, <2>4 DEF Press, TouchOff, ToolChange, touchpadVars, rawVars
<1>4. PadShape'
  BY <1>1, <1>2, <1>3 DEF PadInv, PadShape
<1>5. ScrollHeld'
  BY <1>1, <1>3 DEF PadInv, ScrollHeld
<1>6. TapAlone' /\ PressHeld'
  BY <1>1, <1>2 DEF PadInv, TapAlone, PressHeld
<1> QED BY <1>1, <1>4, <1>5, <1>6 DEF PadInv

LEMMA ResetKeeps ==
    ASSUME PadInv, ResetPad
    PROVE  PadInv' /\ clicked' = "no"
<1>1. /\ scrolled' = {} /\ pressedButton' = "none" /\ flow' = Free /\ tap' = NoTap
      /\ twoFinger' = <<0, 0>> /\ previous' = 0 /\ contact' = [s \in Slot |-> NoContact]
      /\ leftEdge' = "none" /\ others' = <<>> /\ busy' = FALSE /\ clicked' = "no" /\ clickpad' = clickpad
      /\ Tell(IF pressedButton = "none" THEN <<>> ELSE <<<<pressedButton, FALSE>>>>)
  BY DEF ResetPad, ResetStops, PadInv, ScrollHeld
<1>2. clickpad => buttons' = {} /\ ~doubled'
  <2> SUFFICES ASSUME clickpad PROVE buttons' = {} /\ ~doubled'
    OBVIOUS
  <2>0. doubled = FALSE /\ buttons = IF pressedButton = "none" THEN {} ELSE {pressedButton}
    BY DEF PadInv, PressHeld, PadShape
  <2>1. CASE pressedButton = "none"
    BY <1>1, <2>0, <2>1, TellNothing
  <2>2. CASE pressedButton # "none"
    <3>1. Tell(<<<<pressedButton, FALSE>>>>)
      BY <1>1, <2>2
    <3> QED BY <2>0, <2>2, <3>1, TellOne
  <2> QED BY <2>1, <2>2
<1>3. doubled' \in BOOLEAN
  BY DEF ResetPad, Tell, PadInv, PadShape
<1>4. PadShape'
  BY <1>1, <1>3 DEF PadInv, PadShape, NoTap, Contact
<1>5. ScrollHeld' /\ TapAlone' /\ PressHeld'
  BY <1>1, <1>2 DEF ScrollHeld, TapAlone, PressHeld, Free, NoContact
<1> QED BY <1>1, <1>4, <1>5 DEF PadInv

\* The contacts a frame leaves, and the fingers among them.
LEMMA SettledContacts ==
    ASSUME PadInv, NEW ticks \in 0..1
    PROVE  /\ Settled(ticks) \in [Slot -> Contact]
           /\ Fingers(Settled(ticks)) \subseteq Slot /\ IsFiniteSet(Fingers(Settled(ticks)))
           /\ \A s \in Slot : Settled(ticks)[s].here /\ s \notin Fingers(Settled(ticks)) =>
                 Settled(ticks)[s].excluded
           /\ \A s \in Fingers(Settled(ticks)) : contact[s].here
<1> DEFINE settled(s) == IF contact[s].settled THEN Advance(contact[s], contact[s].pos, ticks)
                         ELSE Settle(contact[s], contact[s].pos)
<1>0. contact \in [Slot -> Contact] /\ TapLimit \in Nat
  BY TouchpadAssumption DEF PadInv, PadShape
<1>1. ASSUME NEW s \in Slot, contact[s].here
      PROVE  settled(s) \in Contact /\ settled(s).here
  <2>1. contact[s] \in [here : {TRUE}, settled : BOOLEAN, pos : Spot, last : Spot, start : Spot,
                        far : BOOLEAN, age : Nat, rest : {"never", "after tap time", "at once"},
                        excluded : BOOLEAN]
    <3>1. contact[s] \in Contact
      BY <1>0
    <3>2. contact[s] # NoContact
      BY <1>1 DEF NoContact
    <3> QED BY <3>1, <3>2 DEF Contact
  <2>2. Settle(contact[s], contact[s].pos) \in Contact /\ Settle(contact[s], contact[s].pos).here
    BY <2>1 DEF Settle, Contact
  <2>3. ASSUME contact[s].settled
        PROVE  Advance(contact[s], contact[s].pos, ticks) \in Contact
               /\ Advance(contact[s], contact[s].pos, ticks).here
    <3> DEFINE c == contact[s]
               q == contact[s].pos
               from == IF Within(Minus(q, c.last), MaxJump) THEN c.start ELSE c.last
               far == c.far \/ ~Within(Minus(q, from), TapTravel)
               age == IF ticks = 0 \/ far \/ c.rest # "after tap time" THEN c.age ELSE Older(c.age)
    <3>1. Advance(c, q, ticks) =
            [c EXCEPT !.last = q, !.far = far, !.start = IF far THEN q ELSE c.start, !.age = age]
      BY <2>1 DEF Advance
    <3>2. far \in BOOLEAN
      BY <2>1 DEF Within
    <3>3. age \in Nat
      <4>1. c.age \in Nat
        BY <2>1
      <4>2. Older(c.age) \in Nat
        <5> HIDE DEF c
        <5> QED BY <1>0, <4>1 DEF Older
      <4> QED BY <4>1, <4>2
    <3> HIDE DEF far, age
    <3> QED BY <2>1, <3>1, <3>2, <3>3 DEF Contact
  <2> QED BY <2>2, <2>3
<1>2. ASSUME NEW s \in Slot
      PROVE  /\ Settled(ticks)[s] \in Contact
             /\ Settled(ticks)[s].here => contact[s].here
             /\ Settled(ticks)[s].here => Settled(ticks)[s].excluded \in BOOLEAN
  <2>1. CASE s \in Swept \/ ~contact[s].here
    BY <2>1 DEF Settled, Contact, NoContact
  <2>2. CASE ~(s \in Swept \/ ~contact[s].here)
    <3>1. Settled(ticks)[s] = [settled(s) EXCEPT !.excluded = s \in palm \/ Resting(settled(s))]
      BY <2>2 DEF Settled
    <3>2. settled(s) \in Contact /\ settled(s).here
      BY <1>1, <2>2
    <3>3. (s \in palm \/ Resting(settled(s))) \in BOOLEAN
      BY DEF Resting
    <3> HIDE DEF settled
    <3>4. Settled(ticks)[s] \in Contact /\ Settled(ticks)[s].excluded \in BOOLEAN
      <4>1. PICK e \in BOOLEAN : Settled(ticks)[s] = [settled(s) EXCEPT !.excluded = e]
        BY <3>1, <3>3
      <4>2. PICK c \in Contact : c = settled(s) /\ c.here
        BY <3>2
      <4>3. c # NoContact
        BY <4>2 DEF NoContact
      <4>4. c \in [here : {TRUE}, settled : BOOLEAN, pos : Spot, last : Spot, start : Spot,
                   far : BOOLEAN, age : Nat, rest : {"never", "after tap time", "at once"},
                   excluded : BOOLEAN]
        BY <4>2, <4>3 DEF Contact
      <4>5. /\ [c EXCEPT !.excluded = e] \in [here : {TRUE}, settled : BOOLEAN, pos : Spot, last : Spot,
                   start : Spot, far : BOOLEAN, age : Nat,
                   rest : {"never", "after tap time", "at once"}, excluded : BOOLEAN]
            /\ [c EXCEPT !.excluded = e].excluded = e
        BY <4>4
      <4>6. Settled(ticks)[s] = [c EXCEPT !.excluded = e]
        BY <4>1, <4>2
      <4> QED BY <4>5, <4>6 DEF Contact
    <3> QED BY <2>2, <3>4
  <2> QED BY <2>1, <2>2
<1>3. Settled(ticks) = [s \in Slot |-> Settled(ticks)[s]]
  BY DEF Settled
<1>4. Settled(ticks) \in [Slot -> Contact]
  BY <1>2, <1>3
<1>5. Fingers(Settled(ticks)) \subseteq Slot /\ IsFiniteSet(Fingers(Settled(ticks)))
  <2>1. Fingers(Settled(ticks)) \subseteq Slot
    BY DEF Fingers
  <2> QED BY <2>1, TouchpadAssumption, FS_Subset
<1> QED BY <1>2, <1>4, <1>5 DEF Fingers

\* On a pad that was not touched two fingers have not moved.
LEMMA LandedStrides ==
    ASSUME PadInv, NEW ticks \in 0..1, previous = 0, Cardinality(Fingers(Settled(ticks))) = 2
    PROVE  Strides(Fingers(Settled(ticks))) = <<0, 0>>
<1> DEFINE F == Fingers(Settled(ticks))
<1>1. F \subseteq Slot /\ IsFiniteSet(F) /\ \A s \in F : contact[s].here
  BY SettledContacts
<1>2. \A s \in F : Delta(contact[s], contact[s].pos) = <<0, 0>>
  BY <1>1 DEF PadInv, ScrollHeld, Delta
<1> HIDE DEF F
<1>3. Cardinality(F) = 2
  BY DEF F
<1>4. PICK a \in F : TRUE
  <2>1. F # {}
    BY <1>3, FS_EmptySet
  <2> QED BY <2>1
<1>5. IsFiniteSet(F \ {a}) /\ Cardinality(F \ {a}) = 1
  BY <1>1, <1>3, <1>4, FS_RemoveElement
<1>6. PICK b : F \ {a} = {b}
  BY <1>5, FS_Singleton
<1>7. F = {a, b} /\ a # b
  BY <1>4, <1>6
<1>8. Strides({a, b}) = <<0, 0>>
  BY <1>2, <1>7, StillStrides
<1> QED BY <1>7, <1>8 DEF F

\* What a frame makes of the fingers, part by part.
LEMMA FrameScrolls ==
    ASSUME PadInv, NEW ticks \in 0..1, NEW holding \in BOOLEAN,
           IF ~holding /\ Cardinality(Fingers(Settled(ticks))) = 2
           THEN Scroll(Strides(Fingers(Settled(ticks)))) ELSE StopScroll(Fingers(Settled(ticks)))
    PROVE  /\ scrolled' = flow'.axes
           /\ flow'.kind # "scrolling" => flow'.axes = {}
           /\ Fingers(Settled(ticks)) = {} => flow' = Free /\ twoFinger' = <<0, 0>>
           /\ previous = 0 => flow'.kind # "scrolling"
<1> DEFINE F == Fingers(Settled(ticks))
           sum == Strides(F)
<1>0. /\ scrolled = flow.axes /\ (flow.kind # "scrolling" => flow.axes = {})
      /\ (previous = 0 => flow = Free /\ twoFinger = <<0, 0>>)
  BY DEF PadInv, ScrollHeld
<1>1. CASE ~holding /\ Cardinality(F) = 2
  <2>1. Scroll(sum)
    BY <1>1
  <2>2. F # {}
    BY <1>1, FS_EmptySet
  <2> DEFINE moved == Plus(twoFinger, sum)
             begins == flow.kind = "scrolling" \/ ~Within(moved, 2 * TapTravel)
  <2>3. /\ flow' = IF begins THEN Scrolling(flow.axes \cup Dominant(sum)) ELSE flow
        /\ scrolled' = IF begins THEN scrolled \cup Dominant(sum) ELSE scrolled
    BY <2>1 DEF Scroll
  <2>4. ~begins => flow.kind # "scrolling"
    OBVIOUS
  <2>5. ASSUME previous = 0 PROVE ~begins
    <3>1. sum = <<0, 0>>
      BY <1>1, <2>5, LandedStrides
    <3>2. moved = <<0, 0>>
      BY <1>0, <2>5, <3>1 DEF Plus
    <3>3. \A m \in Nat : 0 <= m * m
      OBVIOUS
    <3>4. 2 * TapTravel \in Nat
      BY TouchpadAssumption
    <3>5. 0 <= (2 * TapTravel) * (2 * TapTravel)
      BY <3>3, <3>4
    <3> HIDE DEF moved
    <3>6. Within(moved, 2 * TapTravel)
      BY <3>2, <3>5 DEF Within
    <3>7. flow.kind # "scrolling"
      BY <1>0, <2>5 DEF Free
    <3> QED BY <3>6, <3>7
  <2> HIDE DEF begins, sum
  <2> QED BY <1>0, <2>2, <2>3, <2>4, <2>5 DEF Scrolling
<1>2. CASE ~(~holding /\ Cardinality(F) = 2)
  <2>1. /\ twoFinger' = <<0, 0>> /\ scrolled' = scrolled \ flow.axes
        /\ flow' = IF F = {} THEN Free ELSE IF flow.kind = "scrolling" THEN Trailing ELSE flow
    BY <1>2 DEF StopScroll
  <2>2. scrolled' = {}
    BY <1>0, <2>1
  <2>3. flow'.axes = {} /\ flow'.kind # "scrolling"
    BY <1>0, <2>1 DEF Free, Trailing
  <2> QED BY <2>1, <2>2, <2>3
<1> QED BY <1>1, <1>2

LEMMA FrameTaps ==
    ASSUME PadInv, NEW ticks \in 0..1, NEW pushed \in BOOLEAN,
           TapStep(Settled(ticks), ticks, pushed),
           leftEdge = "press" => pushed,
           previous = 0 => flow'.kind # "scrolling",
           pressedButton' = IF leftEdge = "press" /\ pressedButton = "none" THEN ClickCode(Settled(ticks))
                            ELSE IF leftEdge = "release" THEN "none" ELSE pressedButton
    PROVE  /\ tap'.spoiled \in BOOLEAN
           /\ clicked' # "no" => tap # NoTap /\ ~tap.spoiled /\ ~pushed /\ flow'.kind # "scrolling"
           /\ clicked' \in {"no", "left", "right"}
           /\ pushed \/ flow'.kind = "scrolling" \/ pressedButton' # "none" =>
                 tap' = NoTap \/ tap'.spoiled
           /\ busy /\ previous > 0 => tap' = NoTap \/ tap'.spoiled
<1> DEFINE cs == Settled(ticks)
           F == Fingers(cs)
           n == Cardinality(F)
           spoils == pushed \/ \E s \in F : cs[s].far
           age == IF ticks = 0 THEN tap.age ELSE Older(tap.age)
           spoiled == tap.spoiled \/ Swept # {} \/ spoils \/ age > TapLimit
                        \/ ScrollSpoils(flow'.kind = "scrolling")
           now == [age |-> age, peak |-> IF n > tap.peak THEN n ELSE tap.peak, spoiled |-> spoiled]
<1>0. /\ busy \/ pressedButton # "none" => tap = NoTap \/ tap.spoiled
      /\ tap.spoiled \in BOOLEAN
  BY DEF PadInv, PadShape, TapAlone
<1>1. now.spoiled = spoiled /\ SpoiledTap.spoiled = TRUE /\ NoTap.spoiled = FALSE
  BY DEF SpoiledTap, NoTap
<1>2. pushed => spoils
  OBVIOUS
<1>3. pushed \/ flow'.kind = "scrolling" \/ tap.spoiled => spoiled
  BY DEF ScrollSpoils
<1>4. spoiled \in BOOLEAN /\ spoils \in BOOLEAN
  BY DEF ScrollSpoils
<1>5. CASE tap # NoTap
  <2>1. /\ tap' = IF n = 0 THEN NoTap ELSE IF now.spoiled THEN SpoiledTap ELSE now
        /\ clicked' = IF n = 0 /\ ~now.spoiled /\ now.peak \in 1..2
                      THEN (IF now.peak = 1 THEN "left" ELSE "right") ELSE "no"
    BY <1>5 DEF TapStep
  <2>2. pressedButton' # "none" => spoiled
    BY <1>0, <1>3, <1>5
  <2>3. busy => spoiled
    BY <1>0, <1>3, <1>5
  <2> HIDE DEF n, now, spoiled
  <2> QED BY <1>1, <1>3, <1>4, <1>5, <2>1, <2>2, <2>3
<1>6. CASE tap = NoTap
  <2>1. /\ tap' = IF previous = 0 /\ n > 0 /\ pressedButton' = "none"
                  THEN (IF spoils THEN SpoiledTap ELSE [age |-> 0, peak |-> n, spoiled |-> FALSE])
                  ELSE NoTap
        /\ clicked' = "no"
    BY <1>6 DEF TapStep
  <2>2. previous \in Nat
    BY DEF PadInv, PadShape
  <2> DEFINE newTap == [age |-> 0, peak |-> n, spoiled |-> FALSE]
  <2>3. newTap.spoiled = FALSE
    OBVIOUS
  <2>4. tap' = NoTap \/ (previous = 0 /\ pressedButton' = "none" /\ tap' = IF spoils THEN SpoiledTap ELSE newTap)
    BY <2>1
  <2> HIDE DEF n, spoils, newTap
  <2>5. CASE tap' = NoTap
    BY <1>1, <2>1, <2>5
  <2>6. CASE previous = 0 /\ pressedButton' = "none" /\ tap' = IF spoils THEN SpoiledTap ELSE newTap
    <3>1. tap'.spoiled = spoils
      BY <1>1, <1>4, <2>3, <2>6
    <3>2. tap'.spoiled \in BOOLEAN
      BY <1>4, <3>1
    <3>3. pushed => tap'.spoiled
      BY <1>2, <3>1
    <3>4. flow'.kind # "scrolling" /\ ~(previous > 0)
      BY <2>6
    <3> QED BY <2>1, <2>6, <3>2, <3>3, <3>4
  <2> QED BY <2>4, <2>5, <2>6
<1> QED BY <1>5, <1>6

\* Saying nothing besides adds nothing.
LEMMA NothingAdded ==
    ASSUME NEW S, NEW says \in Seq(S)
    PROVE  says \o <<>> = says /\ <<>> \o says = says
OBVIOUS

\* What a frame of a clickpad says of its button.
LEMMA FrameTells ==
    ASSUME PadInv, clickpad, NEW cs, Tell(Edges(cs)),
           pressedButton' = IF leftEdge = "press" /\ pressedButton = "none" THEN ClickCode(cs)
                            ELSE IF leftEdge = "release" THEN "none" ELSE pressedButton,
           clicked' \in {"no", "left", "right"},
           clicked' # "no" => pressedButton = "none" /\ leftEdge # "press"
    PROVE  ~doubled' /\ buttons' = IF pressedButton' = "none" THEN {} ELSE {pressedButton'}
<1>0. /\ others = <<>> /\ doubled = FALSE
      /\ buttons = IF pressedButton = "none" THEN {} ELSE {pressedButton}
      /\ leftEdge \in {"none", "press", "release"} /\ doubled \in BOOLEAN
  BY DEF PadInv, PadShape, PressHeld
<1>1. [i \in DOMAIN others |-> <<"left", others[i]>>] = <<>>
  BY <1>0
<1>2. ClickCode(cs) \in {"left", "right"}
  BY DEF ClickCode
<1> DEFINE first == IF leftEdge = "press" /\ pressedButton = "none" THEN <<<<ClickCode(cs), TRUE>>>> ELSE <<>>
           second == IF leftEdge = "release" /\ pressedButton # "none" THEN <<<<ReleasedCode(cs), FALSE>>>> ELSE <<>>
           last == IF clicked' = "no" THEN <<>> ELSE <<<<clicked', TRUE>>, <<clicked', FALSE>>>>
<1>3. Edges(cs) = first \o second \o <<>> \o last
  BY <1>1 DEF Edges
<1>4. CASE leftEdge = "press" /\ pressedButton = "none"
  <2>1. first = <<<<ClickCode(cs), TRUE>>>> /\ second = <<>> /\ last = <<>>
    BY <1>4
  <2>2. Edges(cs) = <<<<ClickCode(cs), TRUE>>>>
    <3>1. <<<<ClickCode(cs), TRUE>>>> \in Seq({<<ClickCode(cs), TRUE>>})
      OBVIOUS
    <3> HIDE DEF first, second, last
    <3> QED BY <1>3, <2>1, <3>1, NothingAdded
  <2>3. Tell(<<<<ClickCode(cs), TRUE>>>>)
    BY <2>2
  <2>4. buttons' = buttons \cup {ClickCode(cs)} /\ doubled' = doubled
    BY <1>0, <1>4, <2>3, TellOne
  <2> QED BY <1>0, <1>2, <1>4, <2>4
<1>5. CASE leftEdge = "release" /\ pressedButton # "none"
  <2>1. first = <<>> /\ second = <<<<pressedButton, FALSE>>>> /\ last = <<>>
    BY <1>5 DEF ReleasedCode
  <2>2. Edges(cs) = <<<<pressedButton, FALSE>>>>
    <3>1. <<<<pressedButton, FALSE>>>> \in Seq({<<pressedButton, FALSE>>})
      OBVIOUS
    <3> HIDE DEF first, second, last
    <3> QED BY <1>3, <2>1, <3>1, NothingAdded
  <2>3. Tell(<<<<pressedButton, FALSE>>>>)
    BY <2>2
  <2>4. buttons' = buttons \ {pressedButton} /\ doubled' = doubled
    BY <1>0, <1>5, <2>3, TellOne
  <2> QED BY <1>0, <1>5, <2>4
<1>6. CASE ~(leftEdge = "press" /\ pressedButton = "none") /\ ~(leftEdge = "release" /\ pressedButton # "none")
  <2>1. first = <<>> /\ second = <<>>
    BY <1>6
  <2>2. pressedButton' = pressedButton
    BY <1>6
  <2>3. CASE clicked' = "no"
    <3>1. Edges(cs) = <<>>
      BY <1>3, <2>1, <2>3
    <3>2. Tell(<<>>)
      BY <3>1
    <3> QED BY <1>0, <2>2, <3>2, TellNothing
  <2>4. CASE clicked' # "no"
    <3>1. PICK c : c = clicked'
      OBVIOUS
    <3>2. Edges(cs) = <<<<c, TRUE>>, <<c, FALSE>>>>
      <4>1. last = <<<<c, TRUE>>, <<c, FALSE>>>>
        BY <2>4, <3>1
      <4>2. <<<<c, TRUE>>, <<c, FALSE>>>> \in Seq({<<c, TRUE>>, <<c, FALSE>>}) /\ <<>> \in Seq({})
        OBVIOUS
      <4> HIDE DEF first, second, last
      <4> QED BY <1>3, <2>1, <4>1, <4>2, NothingAdded
    <3>3. Tell(<<<<c, TRUE>>, <<c, FALSE>>>>)
      BY <3>2
    <3>4. c \notin buttons
      BY <1>0, <2>4
    <3>5. buttons' = buttons /\ doubled' = doubled
      BY <1>0, <3>3, <3>4, TellClick
    <3> QED BY <1>0, <2>2, <3>5
  <2> QED BY <2>3, <2>4
<1> QED BY <1>4, <1>5, <1>6

LEMMA FrameKeeps ==
    ASSUME PadInv, Frame
    PROVE  PadInv' /\ (clicked' # "no" => ~busy)
<1> DEFINE pushed == leftEdge = "press" \/ \E i \in DOMAIN others : others[i]
           holding == pressedButton # "none" \/ leftEdge = "press"
<1>1. PICK ticks \in 0..1 :
         /\ contact' = Settled(ticks)
         /\ pressedButton' = IF leftEdge = "press" /\ pressedButton = "none" THEN ClickCode(Settled(ticks))
                             ELSE IF leftEdge = "release" THEN "none" ELSE pressedButton
         /\ IF ~holding /\ Cardinality(Fingers(Settled(ticks))) = 2
            THEN Scroll(Strides(Fingers(Settled(ticks)))) ELSE StopScroll(Fingers(Settled(ticks)))
         /\ TapStep(Settled(ticks), ticks, pushed)
         /\ Tell(Edges(Settled(ticks)))
         /\ busy' = ((previous > 0 \/ Fingers(Settled(ticks)) # {}) /\ clicked' = "no"
                       /\ ((busy /\ previous > 0) \/ pushed \/ flow'.kind = "scrolling"))
         /\ previous' = Cardinality(Fingers(Settled(ticks)))
         /\ leftEdge' = "none" /\ others' = <<>> /\ clickpad' = clickpad
  BY DEF Frame, Strides
<1> DEFINE cs == Settled(ticks)
           F == Fingers(cs)
<1>2. /\ cs \in [Slot -> Contact] /\ F \subseteq Slot /\ IsFiniteSet(F)
      /\ \A s \in Slot : cs[s].here /\ s \notin F => cs[s].excluded
  BY SettledContacts
<1>3. /\ scrolled' = flow'.axes
      /\ flow'.kind # "scrolling" => flow'.axes = {}
      /\ F = {} => flow' = Free /\ twoFinger' = <<0, 0>>
      /\ previous = 0 => flow'.kind # "scrolling"
  <2>1. holding \in BOOLEAN
    OBVIOUS
  <2> HIDE DEF holding
  <2> QED BY <1>1, <2>1, FrameScrolls
<1>4. /\ tap'.spoiled \in BOOLEAN
      /\ clicked' # "no" => tap # NoTap /\ ~tap.spoiled /\ ~pushed /\ flow'.kind # "scrolling"
      /\ clicked' \in {"no", "left", "right"}
      /\ pushed \/ flow'.kind = "scrolling" \/ pressedButton' # "none" => tap' = NoTap \/ tap'.spoiled
      /\ busy /\ previous > 0 => tap' = NoTap \/ tap'.spoiled
  <2>1. pushed \in BOOLEAN /\ (leftEdge = "press" => pushed)
    OBVIOUS
  <2> HIDE DEF pushed
  <2> QED BY <1>1, <1>3, <2>1, FrameTaps
<1>5. clicked' # "no" => ~busy /\ pressedButton = "none" /\ leftEdge # "press"
  BY <1>4 DEF PadInv, TapAlone
<1>6. F = {} <=> Cardinality(F) = 0
  BY <1>2, FS_EmptySet
<1>7. Cardinality(F) \in Nat
  BY <1>2, FS_CardinalityType
<1>8. PadShape'
  <2>1. doubled' \in BOOLEAN /\ busy' \in BOOLEAN
    BY <1>1 DEF Tell
  <2>2. pressedButton' \in {"none", "left", "right"}
    BY <1>1 DEF ClickCode, PadInv, PadShape
  <2>3. contact' \in [Slot -> Contact] /\ previous' \in Nat /\ clickpad' \in BOOLEAN /\ leftEdge' = "none"
    BY <1>1, <1>2, <1>7 DEF PadInv, PadShape
  <2> QED BY <1>4, <2>1, <2>2, <2>3 DEF PadShape
<1>9. ScrollHeld'
  BY <1>1, <1>2, <1>3, <1>6 DEF ScrollHeld
<1>10. TapAlone'
  <2>1. busy' => tap' = NoTap \/ tap'.spoiled
    BY <1>1, <1>4
  <2>2. clicked' # "no" => ~busy'
    BY <1>1
  <2> QED BY <1>4, <2>1, <2>2 DEF TapAlone
<1>11. PressHeld'
  <2> SUFFICES ASSUME clickpad
               PROVE  ~doubled' /\ buttons' = IF pressedButton' = "none" THEN {} ELSE {pressedButton'}
    BY <1>1 DEF PressHeld
  <2> HIDE DEF cs
  <2>1. Tell(Edges(cs))
    BY <1>1 DEF cs
  <2>2. pressedButton' = IF leftEdge = "press" /\ pressedButton = "none" THEN ClickCode(cs)
                         ELSE IF leftEdge = "release" THEN "none" ELSE pressedButton
    BY <1>1 DEF cs
  <2> QED BY <1>4, <1>5, <2>1, <2>2, FrameTells
<1> QED BY <1>5, <1>8, <1>9, <1>10, <1>11 DEF PadInv

LEMMA PadStarts == TouchpadInit => PadInv
<1> SUFFICES ASSUME TouchpadInit PROVE PadInv
  OBVIOUS
<1>1. contact \in [Slot -> Contact] /\ \A s \in Slot : contact[s] = NoContact
  BY DEF TouchpadInit, Contact
<1>2. PadShape
  BY <1>1, TouchpadAssumption DEF TouchpadInit, PadShape, NoTap
<1>3. ScrollHeld /\ TapAlone /\ PressHeld
  BY <1>1 DEF TouchpadInit, ScrollHeld, TapAlone, PressHeld, Free, NoContact
<1> QED BY <1>2, <1>3 DEF PadInv

LEMMA PadStep == PadInv /\ [TouchpadNext]_touchpadVars =>
                    PadInv' /\ [clicked' # "no" => ~busy]_touchpadVars
<1> SUFFICES ASSUME PadInv, [TouchpadNext]_touchpadVars
             PROVE  PadInv' /\ [clicked' # "no" => ~busy]_touchpadVars
  OBVIOUS
<1>1. CASE Frame
  BY <1>1, FrameKeeps
<1>2. CASE ResetPad
  BY <1>2, ResetKeeps
<1>3. CASE \/ Press \/ TouchOff
           \/ \E s \in Slot : Land(s) \/ Lift(s) \/ Move(s) \/ ToolChange(s)
           \/ UNCHANGED touchpadVars
  <2>1. PadInv' /\ clicked' = clicked
    BY <1>3, RawKeeps
  <2>2. clicked # "no" => ~busy
    BY DEF PadInv, TapAlone
  <2> QED BY <2>1, <2>2
<1> QED BY <1>1, <1>2, <1>3 DEF TouchpadNext

\* A scroll that a client was told of is ended, a clickpad's button comes up as
\* it went down, and no tap is made of fingers that scrolled or pushed: of any
\* number of slots, and whatever the pad reports.
THEOREM GesturesAlwaysWhole == TouchpadSpec => GesturesAreWhole
<1>1. TouchpadInit => PadInv
  BY PadStarts
<1>2. PadInv /\ [TouchpadNext]_touchpadVars =>
         PadInv' /\ [clicked' # "no" => ~busy]_touchpadVars
  BY PadStep
<1>3. PadInv => PadEventsPair
  BY DEF PadInv, PadShape, ScrollHeld, PressHeld, PadEventsPair, ScrollIsOwed, ButtonsAlternate
<1> QED BY <1>1, <1>2, <1>3, PTL DEF TouchpadSpec, GesturesAreWhole, TapIsOnlyATap

-----------------------------------------------------------------------------
(* The stale scan.                                                         *)

\* A region, typed; what the scan of rows has seen of the pixels D.
Boxes == [x : Int, y : Int, w : Nat, h : Nat]
RegionType == [box : Boxes, pixels : Nat, attribution : Int]
AtRow(D, row) == {q \in D : q[2] = row}
Above(D, row) == {q \in D : q[2] < row}

\* A region lies in the rows that were looked at, holds every differing pixel
\* of its own rows, and counts them.
Fits(r, D, row) ==
    /\ r.box.x >= 0 /\ r.box.x + r.box.w <= ScanWidth /\ r.box.w >= 1
    /\ r.box.y >= 0 /\ r.box.y + r.box.h <= row /\ r.box.h >= 1
    /\ \A p \in D : p[2] \in r.box.y .. r.box.y + r.box.h - 1 => Inside(p, r.box)
    /\ r.pixels = Cardinality({p \in D : Inside(p, r.box)}) /\ r.pixels >= 1

\* The regions follow one another from top to bottom and hold all there was.
ScanOf(rs, D, row) ==
    /\ rs \in Seq(RegionType)
    /\ \A i \in DOMAIN rs : Fits(rs[i], D, row)
    /\ \A i, j \in DOMAIN rs : i < j => rs[i].box.y + rs[i].box.h <= rs[j].box.y
    /\ \A p \in Above(D, row) : \E i \in DOMAIN rs : Inside(p, rs[i].box)
    /\ Total([i \in DOMAIN rs |-> rs[i].pixels]) = Cardinality(Above(D, row))

\* The name of r is that of the smallest element around it.
WellNamed(r, elements) ==
    \E k \in DOMAIN elements :
        /\ elements[k].name = r.attribution /\ Encloses(elements[k].box, r.box)
        /\ \A j \in DOMAIN elements :
              Encloses(elements[j].box, r.box) => Area(elements[k].box) <= Area(elements[j].box)

\* What a slot was called clean for.
FlushSound ==
    flushCheck # NotChecked /\ flushCheck.verdict = "clean" =>
        /\ flushCheck.flushed > 0 /\ flushCheck.mappedRows > 0
        /\ \A y \in flushCheck.lostRows : y >= flushCheck.mappedRows

StaleInv ==
    /\ differing \in SUBSET ScanPixels
    /\ drawnElements \in {Named(list) : list \in ElementLists}
    /\ scanRow \in 0 .. ScanHeight + 1
    /\ compared \in {0, ScanWidth * ScanHeight}
    /\ compared = 0 => regions = <<>> /\ (scanRow = 0 \/ scanRow >= ScanHeight)
    /\ compared # 0 => baselineRows = ScanHeight
    /\ compared # 0 \/ scanRow = 0 => ScanOf(regions, differing, scanRow)
    /\ scanRow > ScanHeight => \A i \in DOMAIN regions : WellNamed(regions[i], drawnElements)
    /\ FlushSound

\* The ends of a row's run, and that they are.
LEMMA LeastIs ==
    ASSUME NEW T \in SUBSET Nat, T # {}
    PROVE  Least(T) \in T /\ \A m \in T : Least(T) <= m
<1>1. PICK x \in T : \A y \in T : ~(y < x)
  BY SmallestOf
<1>2. \A m \in T : x <= m
  BY <1>1
<1> QED BY <1>1, <1>2 DEF Least

LEMMA GreatestIs ==
    ASSUME NEW m \in Nat, NEW T \in SUBSET (0..m), T # {}
    PROVE  Greatest(T) \in T /\ \A n \in T : n <= Greatest(T)
<1> DEFINE U == {m - n : n \in T}
<1>1. U \in SUBSET Nat /\ U # {}
  <2>1. \A n \in T : m - n \in Nat
    OBVIOUS
  <2> QED BY <2>1
<1>2. PICK x \in U : \A y \in U : ~(y < x)
  <2> HIDE DEF U
  <2> QED BY <1>1, SmallestOf
<1>3. PICK t \in T : x = m - t
  OBVIOUS
<1>4. \A n \in T : n <= t
  <2> TAKE n \in T
  <2>1. m - n \in U
    OBVIOUS
  <2>2. ~(m - n < m - t)
    BY <1>2, <1>3, <2>1
  <2> QED BY <2>2
<1> QED BY <1>4 DEF Greatest

\* Sets of pixels are finite, and parts that share nothing add up.
LEMMA PixelsAreFinite ==
    ASSUME NEW D \in SUBSET ScanPixels
    PROVE  IsFiniteSet(D) /\ Cardinality(D) \in Nat
<1>1. IsFiniteSet(0 .. ScanWidth - 1) /\ IsFiniteSet(0 .. ScanHeight - 1)
  <2>1. 0 \in Int /\ ScanWidth - 1 \in Int /\ ScanHeight - 1 \in Int
    BY StaleAssumption
  <2> QED BY <2>1, FS_Interval
<1>2. IsFiniteSet(ScanPixels)
  BY <1>1, FS_Product DEF ScanPixels
<1>3. IsFiniteSet(D)
  BY <1>2, FS_Subset
<1> QED BY <1>3, FS_CardinalityType

LEMMA PartsAddUp ==
    ASSUME NEW S \in SUBSET ScanPixels, NEW T \in SUBSET ScanPixels, S \cap T = {}
    PROVE  Cardinality(S \cup T) = Cardinality(S) + Cardinality(T)
<1>1. IsFiniteSet(S) /\ IsFiniteSet(T) /\ Cardinality(S) \in Nat /\ Cardinality(T) \in Nat
  BY PixelsAreFinite
<1>2. Cardinality(S \cup T) = Cardinality(S) + Cardinality(T) - Cardinality(S \cap T)
  BY <1>1, FS_Union
<1>3. Cardinality(S \cap T) = 0
  BY FS_EmptySet
<1> QED BY <1>1, <1>2, <1>3

\* A pixel, by its coordinates.
LEMMA PixelTyped ==
    ASSUME NEW p \in ScanPixels
    PROVE  p[1] \in 0 .. ScanWidth - 1 /\ p[2] \in 0 .. ScanHeight - 1
  BY DEF ScanPixels

\* One row more: what was above it, and what is in it.
LEMMA RowsAddUp ==
    ASSUME NEW D \in SUBSET ScanPixels, NEW row \in 0 .. ScanHeight - 1
    PROVE  /\ Above(D, row + 1) = Above(D, row) \cup AtRow(D, row)
           /\ Cardinality(Above(D, row + 1)) = Cardinality(Above(D, row)) + Cardinality(AtRow(D, row))
<1>1. \A p \in D : p[2] \in Int
  BY PixelTyped
<1>2. row \in Int
  BY StaleAssumption
<1>3. Above(D, row + 1) = Above(D, row) \cup AtRow(D, row)
  BY <1>1, <1>2 DEF Above, AtRow
<1>4. Above(D, row) \cap AtRow(D, row) = {}
  BY <1>1, <1>2 DEF Above, AtRow
<1>5. Above(D, row) \in SUBSET ScanPixels /\ AtRow(D, row) \in SUBSET ScanPixels
  BY DEF Above, AtRow
<1> QED BY <1>3, <1>4, <1>5, PartsAddUp

\* The regions of the rows so far, and one more for the row that is looked at.
LEMMA PutRegion ==
    ASSUME NEW D \in SUBSET ScanPixels, NEW row \in 0 .. ScanHeight - 1,
           NEW rs \in Seq(RegionType), NEW r \in RegionType,
           \A i \in DOMAIN rs : Fits(rs[i], D, row),
           \A i, j \in DOMAIN rs : i < j => rs[i].box.y + rs[i].box.h <= rs[j].box.y,
           \A i \in DOMAIN rs : rs[i].box.y + rs[i].box.h <= r.box.y,
           Fits(r, D, row + 1),
           \A p \in Above(D, row + 1) :
               Inside(p, r.box) \/ \E i \in DOMAIN rs : Inside(p, rs[i].box),
           Total([i \in DOMAIN rs |-> rs[i].pixels]) + r.pixels = Cardinality(Above(D, row + 1))
    PROVE  ScanOf(Append(rs, r), D, row + 1)
<1> DEFINE t == Append(rs, r)
           n == Len(rs) + 1
<1>1. /\ t \in Seq(RegionType) /\ DOMAIN t = 1 .. n /\ DOMAIN rs = 1 .. Len(rs)
      /\ t[n] = r /\ n \in DOMAIN t
      /\ \A i \in DOMAIN rs : t[i] = rs[i] /\ i \in DOMAIN t /\ i # n
      /\ \A i \in DOMAIN t : i = n \/ i \in DOMAIN rs
      /\ Len(rs) \in Nat
  OBVIOUS
<1> HIDE DEF t
<1>2. \A i \in DOMAIN rs : Fits(rs[i], D, row + 1)
  <2> SUFFICES ASSUME NEW i \in DOMAIN rs PROVE Fits(rs[i], D, row + 1)
    OBVIOUS
  <2>1. rs[i] \in RegionType /\ Fits(rs[i], D, row)
    OBVIOUS
  <2>2. rs[i].box.y \in Int /\ rs[i].box.h \in Int /\ row \in Int
    <3>1. rs[i].box \in Boxes
      BY <2>1 DEF RegionType
    <3> QED BY <3>1, StaleAssumption DEF Boxes
  <2> QED BY <2>1, <2>2 DEF Fits
<1>3. \A i \in DOMAIN t : Fits(t[i], D, row + 1)
  BY <1>1, <1>2
<1>4. ASSUME NEW i \in DOMAIN t, NEW j \in DOMAIN t, i < j
      PROVE  t[i].box.y + t[i].box.h <= t[j].box.y
  <2>1. i \in DOMAIN rs
    BY <1>1, <1>4
  <2> QED BY <1>1, <2>1, <1>4
<1>5. \A p \in Above(D, row + 1) : \E i \in DOMAIN t : Inside(p, t[i].box)
  BY <1>1
<1>6. Total([i \in DOMAIN t |-> t[i].pixels]) = Cardinality(Above(D, row + 1))
  <2> DEFINE c == [i \in DOMAIN rs |-> rs[i].pixels]
  <2>1. \A i \in DOMAIN rs : rs[i].pixels \in Int
    <3> TAKE i \in DOMAIN rs
    <3>1. rs[i] \in RegionType
      OBVIOUS
    <3> QED BY <3>1 DEF RegionType
  <2>2. r.pixels \in Int
    BY DEF RegionType
  <2>3. c \in Seq(Int) /\ Len(c) = Len(rs) /\ \A i \in DOMAIN rs : c[i] = rs[i].pixels
    BY <2>1
  <2> DEFINE d == [i \in DOMAIN t |-> t[i].pixels]
  <2>4. d = Append(c, r.pixels)
    <3>1. DOMAIN d = 1 .. n /\ DOMAIN Append(c, r.pixels) = 1 .. n
      <4> HIDE DEF c
      <4> QED BY <1>1, <2>2, <2>3
    <3>2. ASSUME NEW i \in 1 .. n PROVE d[i] = Append(c, r.pixels)[i]
      <4>1. d[i] = t[i].pixels
        BY <1>1
      <4>2. CASE i = n
        <5> HIDE DEF c, d
        <5>1. Append(c, r.pixels)[n] = r.pixels
          BY <2>2, <2>3
        <5> QED BY <4>1, <4>2, <5>1, <1>1
      <4>3. CASE i # n
        <5> HIDE DEF c, d
        <5>1. i \in DOMAIN rs /\ i \in 1 .. Len(c)
          BY <1>1, <4>3, <2>3
        <5>2. Append(c, r.pixels)[i] = c[i]
          BY <2>2, <2>3, <5>1
        <5> QED BY <4>1, <5>1, <5>2, <1>1, <2>3
      <4> QED BY <4>2, <4>3
    <3>3. Append(c, r.pixels) = [i \in 1 .. n |-> Append(c, r.pixels)[i]]
      <4> HIDE DEF c
      <4>1. Append(c, r.pixels) \in Seq(Int)
        BY <2>2, <2>3
      <4> QED BY <4>1, <3>1
    <3>4. d = [i \in 1 .. n |-> d[i]]
      BY <1>1
    <3> HIDE DEF d, c
    <3> QED BY <3>2, <3>3, <3>4
  <2> HIDE DEF c, d
  <2>5. Total(d) = Total(c) + r.pixels
    BY <2>2, <2>3, <2>4, TotalAppend
  <2> QED BY <2>5 DEF c, d
<1>7. ScanOf(t, D, row + 1)
  BY <1>1, <1>3, <1>4, <1>5, <1>6 DEF ScanOf
<1> QED BY <1>7 DEF t

\* x0 and x1 are the ends of what differs in a row.
Ends(D, row, x0, x1) ==
    /\ x0 \in 0 .. ScanWidth - 1 /\ x1 \in 0 .. ScanWidth - 1 /\ x0 <= x1
    /\ \A p \in AtRow(D, row) : x0 <= p[1] /\ p[1] <= x1

LEMMA RunHasEnds ==
    ASSUME NEW D \in SUBSET ScanPixels, NEW row \in 0 .. ScanHeight - 1,
           NEW run, run = {p[1] : p \in AtRow(D, row)}, run # {}
    PROVE  Ends(D, row, Least(run), Greatest(run))
<1>1. \A p \in AtRow(D, row) : p[1] \in run /\ p[1] \in 0 .. ScanWidth - 1
  BY PixelTyped DEF AtRow
<1>2. run \in SUBSET (0 .. ScanWidth - 1) /\ run \in SUBSET Nat
  BY <1>1
<1>3. Least(run) \in run /\ \A m \in run : Least(run) <= m
  BY <1>2, LeastIs
<1>4. Greatest(run) \in run /\ \A m \in run : m <= Greatest(run)
  <2>1. ScanWidth - 1 \in Nat
    BY StaleAssumption
  <2> QED BY <1>2, <2>1, GreatestIs
<1> QED BY <1>1, <1>2, <1>3, <1>4 DEF Ends

\* A row without a run leaves the regions.
LEMMA QuietRow ==
    ASSUME NEW D \in SUBSET ScanPixels, NEW row \in 0 .. ScanHeight - 1,
           NEW rs, ScanOf(rs, D, row), AtRow(D, row) = {}
    PROVE  ScanOf(rs, D, row + 1)
<1>1. Above(D, row + 1) = Above(D, row)
  BY RowsAddUp
<1>2. ASSUME NEW i \in DOMAIN rs PROVE Fits(rs[i], D, row + 1)
  <2>1. rs[i] \in RegionType /\ Fits(rs[i], D, row)
    BY DEF ScanOf
  <2>2. rs[i].box.y \in Int /\ rs[i].box.h \in Int /\ row \in Int
    <3>1. rs[i].box \in Boxes
      BY <2>1 DEF RegionType
    <3> QED BY <3>1, StaleAssumption DEF Boxes
  <2> QED BY <2>1, <2>2 DEF Fits
<1> QED BY <1>1, <1>2 DEF ScanOf

\* What a new region of one row holds.
LEMMA OneRowFits ==
    ASSUME NEW D \in SUBSET ScanPixels, NEW row \in 0 .. ScanHeight - 1,
           AtRow(D, row) # {}, NEW x0, NEW x1, Ends(D, row, x0, x1),
           NEW r, r = Region(Box(x0, row, x1 - x0 + 1, 1), Cardinality(AtRow(D, row)))
    PROVE  /\ r \in RegionType /\ Fits(r, D, row + 1)
           /\ \A p \in AtRow(D, row) : Inside(p, r.box)
<1>1. x0 \in Int /\ x1 \in Int /\ row \in Int /\ x0 <= x1 /\ 0 <= x0 /\ x1 <= ScanWidth - 1
      /\ 0 <= row /\ ScanWidth \in Int
  BY StaleAssumption DEF Ends
<1>2. /\ r.box.x = x0 /\ r.box.y = row /\ r.box.w = x1 - x0 + 1 /\ r.box.h = 1
      /\ r.pixels = Cardinality(AtRow(D, row)) /\ r.attribution = NoName
  BY DEF Region, Box
<1>3. AtRow(D, row) \in SUBSET ScanPixels
  BY DEF AtRow
<1>4. IsFiniteSet(AtRow(D, row)) /\ Cardinality(AtRow(D, row)) \in Nat
  BY <1>3, PixelsAreFinite
<1>5. Cardinality(AtRow(D, row)) >= 1
  <2>1. Cardinality(AtRow(D, row)) # 0
    BY <1>4, FS_EmptySet
  <2> QED BY <1>4, <2>1
<1>6. r \in RegionType
  <2>1. x1 - x0 + 1 \in Nat /\ 1 \in Nat
    BY <1>1
  <2>2. Box(x0, row, x1 - x0 + 1, 1) \in Boxes
    BY <1>1, <2>1 DEF Box, Boxes
  <2> QED BY <2>2, <1>4 DEF Region, RegionType, NoName
<1>7. \A p \in D : p[1] \in Int /\ p[2] \in Int
  BY PixelTyped
<1>8. \A p \in D : p[2] \in r.box.y .. r.box.y + r.box.h - 1 <=> p \in AtRow(D, row)
  BY <1>1, <1>2, <1>7 DEF AtRow
<1>9. \A p \in AtRow(D, row) : Inside(p, r.box)
  <2> TAKE p \in AtRow(D, row)
  <2>1. p \in D /\ x0 <= p[1] /\ p[1] <= x1
    BY DEF AtRow, Ends
  <2>2. p[1] \in r.box.x .. r.box.x + r.box.w - 1
    BY <1>1, <1>2, <1>7, <2>1
  <2> QED BY <2>1, <2>2, <1>8 DEF Inside
<1>10. {p \in D : Inside(p, r.box)} = AtRow(D, row)
  <2>1. \A p \in D : Inside(p, r.box) => p \in AtRow(D, row)
    BY <1>8 DEF Inside
  <2>2. AtRow(D, row) \subseteq D
    BY DEF AtRow
  <2> QED BY <2>1, <2>2, <1>9
<1>11. Fits(r, D, row + 1)
  <2>1. /\ r.box.x >= 0 /\ r.box.x + r.box.w <= ScanWidth /\ r.box.w >= 1
        /\ r.box.y >= 0 /\ r.box.y + r.box.h <= row + 1 /\ r.box.h >= 1
    BY <1>1, <1>2
  <2> QED BY <2>1, <1>2, <1>5, <1>8, <1>9, <1>10 DEF Fits
<1> QED BY <1>6, <1>9, <1>11

\* A row that meets no region begins one.
LEMMA NewRegion ==
    ASSUME NEW D \in SUBSET ScanPixels, NEW row \in 0 .. ScanHeight - 1,
           NEW rs, ScanOf(rs, D, row),
           AtRow(D, row) # {}, NEW x0, NEW x1, Ends(D, row, x0, x1)
    PROVE  ScanOf(Append(rs, Region(Box(x0, row, x1 - x0 + 1, 1), Cardinality(AtRow(D, row)))),
                  D, row + 1)
<1> DEFINE r == Region(Box(x0, row, x1 - x0 + 1, 1), Cardinality(AtRow(D, row)))
<1>1. /\ r \in RegionType /\ Fits(r, D, row + 1)
      /\ \A p \in AtRow(D, row) : Inside(p, r.box)
  BY OneRowFits
<1>2. r.box.y = row /\ r.pixels = Cardinality(AtRow(D, row))
  BY DEF Region, Box
<1> HIDE DEF r
<1>3. \A i \in DOMAIN rs : rs[i].box.y + rs[i].box.h <= r.box.y
  BY <1>2 DEF ScanOf, Fits
<1>4. \A p \in Above(D, row + 1) :
          Inside(p, r.box) \/ \E i \in DOMAIN rs : Inside(p, rs[i].box)
  BY <1>1, RowsAddUp DEF ScanOf
<1>5. Total([i \in DOMAIN rs |-> rs[i].pixels]) + r.pixels = Cardinality(Above(D, row + 1))
  BY <1>2, RowsAddUp DEF ScanOf
<1>6. ScanOf(Append(rs, r), D, row + 1)
  BY <1>1, <1>3, <1>4, <1>5, PutRegion DEF ScanOf
<1> QED BY <1>6 DEF r

\* r is the region last with the row joined to it.
Grew(last, r, D, row) ==
    /\ r \in RegionType /\ Fits(r, D, row + 1)
    /\ r.box.y = last.box.y /\ r.pixels = last.pixels + Cardinality(AtRow(D, row))
    /\ \A p \in AtRow(D, row) : Inside(p, r.box)
    /\ \A p \in D : Inside(p, last.box) => Inside(p, r.box)

LEMMA GrownFits ==
    ASSUME NEW D \in SUBSET ScanPixels, NEW row \in 0 .. ScanHeight - 1,
           NEW last \in RegionType, Fits(last, D, row),
           NEW x0, NEW x1, Ends(D, row, x0, x1), Joins(last.box, x0, x1, row),
           NEW r, r = Grown(last, x0, x1, Cardinality(AtRow(D, row)))
    PROVE  Grew(last, r, D, row)
<1> DEFINE b == last.box
           left == Smaller(b.x, x0)
           right == Larger(b.x + b.w, x1 + 1)
<1>1. x0 \in Int /\ x1 \in Int /\ row \in Int /\ x0 <= x1 /\ 0 <= x0 /\ x1 <= ScanWidth - 1
      /\ 0 <= row /\ ScanWidth \in Int
  BY StaleAssumption DEF Ends
<1>2. b \in Boxes /\ last.pixels \in Nat
  BY DEF RegionType
<1>3. b.x \in Int /\ b.y \in Int /\ b.w \in Int /\ b.h \in Int
  BY <1>2 DEF Boxes
<1>4. /\ r.box = Box(left, b.y, right - left, b.h + 1)
      /\ r.pixels = last.pixels + Cardinality(AtRow(D, row)) /\ r.attribution = NoName
  BY DEF Grown, Region
<1>5. r.box.x = left /\ r.box.y = b.y /\ r.box.w = right - left /\ r.box.h = b.h + 1
  BY <1>4 DEF Box
<1>6. AtRow(D, row) \in SUBSET ScanPixels
  BY DEF AtRow
<1>7. IsFiniteSet(AtRow(D, row)) /\ Cardinality(AtRow(D, row)) \in Nat
  BY <1>6, PixelsAreFinite
<1>8. /\ left \in Int /\ right \in Int
      /\ left <= b.x /\ left <= x0 /\ 0 <= left
      /\ b.x + b.w <= right /\ x1 + 1 <= right /\ right <= ScanWidth
  <2>1. b.x >= 0 /\ b.x + b.w <= ScanWidth
    BY DEF Fits
  <2> QED BY <1>1, <1>3, <2>1 DEF Smaller, Larger
<1>9. b.y >= 0 /\ b.h >= 1 /\ b.y + b.h = row
  BY DEF Fits, Joins
<1> HIDE DEF left, right
<1>10. right - left \in Nat /\ right - left >= 1 /\ b.h + 1 \in Nat
  BY <1>1, <1>3, <1>8, <1>9
<1>11. r \in RegionType
  <2>1. Box(left, b.y, right - left, b.h + 1) \in Boxes
    BY <1>3, <1>8, <1>10 DEF Box, Boxes
  <2>2. last.pixels + Cardinality(AtRow(D, row)) \in Nat
    BY <1>2, <1>7
  <2>3. r = [box |-> r.box, pixels |-> r.pixels, attribution |-> r.attribution]
    BY DEF Grown, Region
  <2>4. NoName \in Int
    BY DEF NoName
  <2> QED BY <2>1, <2>2, <2>3, <2>4, <1>4 DEF RegionType
<1>12. \A p \in D : p[1] \in Int /\ p[2] \in Int
  BY PixelTyped
<1>13. \A p \in AtRow(D, row) : Inside(p, r.box)
  <2> TAKE p \in AtRow(D, row)
  <2>1. p \in D /\ p[2] = row /\ x0 <= p[1] /\ p[1] <= x1
    BY DEF AtRow, Ends
  <2>2. p[1] \in Int /\ p[2] \in Int
    BY <1>12, <2>1
  <2>3. left <= p[1] /\ p[1] <= left + (right - left) - 1
    BY <1>1, <1>8, <2>1, <2>2
  <2>4. b.y <= p[2] /\ p[2] <= b.y + (b.h + 1) - 1
    BY <1>3, <1>9, <2>1, <2>2
  <2>5. left + (right - left) - 1 \in Int /\ b.y + (b.h + 1) - 1 \in Int
    BY <1>3, <1>8
  <2> QED BY <1>3, <1>5, <1>8, <2>2, <2>3, <2>4, <2>5 DEF Inside
<1>14. \A p \in D : Inside(p, b) => Inside(p, r.box)
  <2> SUFFICES ASSUME NEW p \in D, Inside(p, b) PROVE Inside(p, r.box)
    OBVIOUS
  <2>1. /\ p[1] \in Int /\ p[2] \in Int /\ b.x <= p[1] /\ p[1] <= b.x + b.w - 1
        /\ b.y <= p[2] /\ p[2] <= b.y + b.h - 1
    BY <1>3, <1>12 DEF Inside
  <2>2. left <= p[1] /\ p[1] <= left + (right - left) - 1
    BY <1>3, <1>8, <2>1
  <2>3. b.y <= p[2] /\ p[2] <= b.y + (b.h + 1) - 1
    BY <1>3, <2>1
  <2>4. left + (right - left) - 1 \in Int /\ b.y + (b.h + 1) - 1 \in Int
    BY <1>3, <1>8
  <2> QED BY <1>3, <1>5, <1>8, <2>1, <2>2, <2>3, <2>4 DEF Inside
<1>15. \A p \in D : p[2] \in r.box.y .. r.box.y + r.box.h - 1 =>
                       p \in AtRow(D, row) \/ Inside(p, b)
  <2> SUFFICES ASSUME NEW p \in D, p[2] \in b.y .. b.y + (b.h + 1) - 1, p[2] # row
               PROVE  Inside(p, b)
    BY <1>5 DEF AtRow
  <2>1. p[2] \in b.y .. b.y + b.h - 1
    BY <1>3, <1>9, <1>12
  <2> QED BY <2>1 DEF Fits
<1> DEFINE Old == {p \in D : Inside(p, b)}
<1>16. {p \in D : Inside(p, r.box)} = Old \cup AtRow(D, row)
  <2>1. \A p \in D : Inside(p, r.box) => p \in AtRow(D, row) \/ Inside(p, b)
    BY <1>15 DEF Inside
  <2>2. AtRow(D, row) \subseteq D
    BY DEF AtRow
  <2> QED BY <2>1, <2>2, <1>13, <1>14
<1>17. Old \cap AtRow(D, row) = {}
  <2> SUFFICES ASSUME NEW p \in D, Inside(p, b), p[2] = row PROVE FALSE
    BY DEF AtRow
  <2>1. p[2] <= b.y + b.h - 1
    BY <1>3, <1>12 DEF Inside
  <2> QED BY <1>1, <1>3, <1>9, <2>1
<1>18. Cardinality(Old \cup AtRow(D, row)) = last.pixels + Cardinality(AtRow(D, row))
  <2>1. Old \in SUBSET ScanPixels
    OBVIOUS
  <2>2. Cardinality(Old) = last.pixels
    BY DEF Fits
  <2> HIDE DEF Old
  <2> QED BY <1>6, <1>17, <2>1, <2>2, PartsAddUp
<1>19. Fits(r, D, row + 1)
  <2>1. /\ r.box.x >= 0 /\ r.box.x + r.box.w <= ScanWidth /\ r.box.w >= 1
        /\ r.box.y >= 0 /\ r.box.y + r.box.h <= row + 1 /\ r.box.h >= 1
    BY <1>1, <1>3, <1>5, <1>8, <1>9, <1>10
  <2>2. \A p \in D : p[2] \in r.box.y .. r.box.y + r.box.h - 1 => Inside(p, r.box)
    BY <1>13, <1>14, <1>15
  <2>3. r.pixels >= 1
    <3>1. last.pixels >= 1
      BY DEF Fits
    <3> QED BY <3>1, <1>2, <1>4, <1>7
  <2>4. r.pixels = Cardinality({p \in D : Inside(p, r.box)})
    BY <1>4, <1>16, <1>18
  <2> QED BY <2>1, <2>2, <2>3, <2>4 DEF Fits
<1> QED BY <1>4, <1>5, <1>11, <1>13, <1>14, <1>19 DEF Grew

\* A list that is not empty, without its last element and with it.
LEMMA FrontAndLast ==
    ASSUME NEW S, NEW s \in Seq(S), s # <<>>
    PROVE  /\ Len(s) \in Nat \ {0} /\ Last(s) = s[Len(s)] /\ Last(s) \in S
           /\ Front(s) \in Seq(S) /\ Len(Front(s)) = Len(s) - 1
           /\ \A i \in 1 .. Len(s) - 1 : Front(s)[i] = s[i]
           /\ s = Append(Front(s), Last(s))
<1>1. Len(s) \in Nat \ {0}
  OBVIOUS
<1>2. Last(s) = s[Len(s)] /\ Last(s) \in S
  BY <1>1 DEF Last
<1>3. /\ Front(s) \in Seq(S) /\ Len(Front(s)) = Len(s) - 1
      /\ \A i \in 1 .. Len(s) - 1 : Front(s)[i] = s[i]
  <2> DEFINE m == Len(s) - 1
  <2>1. m \in Nat /\ m <= Len(s) /\ Front(s) = SubSeq(s, 1, m)
    BY <1>1 DEF Front
  <2> HIDE DEF m
  <2>2. SubSeq(s, 1, m) \in Seq(S) /\ Len(SubSeq(s, 1, m)) = m
    BY <2>1
  <2>3. \A i \in 1 .. m : SubSeq(s, 1, m)[i] = s[i]
    BY <2>1
  <2> QED BY <2>1, <2>2, <2>3 DEF m
<1>4. s = Append(Front(s), Last(s))
  BY <1>1, <1>2, <1>3
<1> QED BY <1>1, <1>2, <1>3, <1>4

\* A row that meets the last region joins it.
LEMMA GrownRegion ==
    ASSUME NEW D \in SUBSET ScanPixels, NEW row \in 0 .. ScanHeight - 1,
           NEW rs, ScanOf(rs, D, row), rs # <<>>,
           NEW x0, NEW x1, Ends(D, row, x0, x1), Joins(Last(rs).box, x0, x1, row)
    PROVE  ScanOf(Append(Front(rs), Grown(Last(rs), x0, x1, Cardinality(AtRow(D, row)))),
                  D, row + 1)
<1> DEFINE last == Last(rs)
           before == Front(rs)
           r == Grown(last, x0, x1, Cardinality(AtRow(D, row)))
<1>1. rs \in Seq(RegionType)
  BY DEF ScanOf
<1>2. /\ Len(rs) \in Nat \ {0} /\ last = rs[Len(rs)] /\ last \in RegionType
      /\ before \in Seq(RegionType) /\ Len(before) = Len(rs) - 1
      /\ \A i \in 1 .. Len(rs) - 1 : before[i] = rs[i]
      /\ rs = Append(before, last)
  BY <1>1, FrontAndLast
<1> HIDE DEF last, before
<1>3. /\ DOMAIN before = 1 .. Len(rs) - 1 /\ DOMAIN rs = 1 .. Len(rs) /\ Len(rs) \in DOMAIN rs
      /\ \A i \in DOMAIN before : i \in DOMAIN rs /\ i < Len(rs) /\ before[i] = rs[i]
      /\ \A i \in DOMAIN rs : i = Len(rs) \/ i \in DOMAIN before
  BY <1>1, <1>2
<1>4. Fits(last, D, row)
  BY <1>2, <1>3 DEF ScanOf
<1>5. Grew(last, r, D, row)
  <2>1. Joins(last.box, x0, x1, row)
    BY DEF last
  <2>2. r = Grown(last, x0, x1, Cardinality(AtRow(D, row)))
    OBVIOUS
  <2> HIDE DEF r
  <2> QED BY <1>2, <1>4, <2>1, <2>2, GrownFits
<1> HIDE DEF r
<1>6. \A i \in DOMAIN before : Fits(before[i], D, row)
  BY <1>3 DEF ScanOf
<1>7. \A i, j \in DOMAIN before : i < j => before[i].box.y + before[i].box.h <= before[j].box.y
  BY <1>3 DEF ScanOf
<1>8. \A i \in DOMAIN before : before[i].box.y + before[i].box.h <= r.box.y
  BY <1>2, <1>3, <1>5 DEF ScanOf, Grew
<1>9. \A p \in Above(D, row + 1) :
          Inside(p, r.box) \/ \E i \in DOMAIN before : Inside(p, before[i].box)
  <2> TAKE p \in Above(D, row + 1)
  <2>1. p \in D /\ (p \in Above(D, row) \/ p \in AtRow(D, row))
    <3>1. Above(D, row + 1) = Above(D, row) \cup AtRow(D, row)
      BY RowsAddUp
    <3>2. Above(D, row + 1) \subseteq D
      BY DEF Above
    <3> QED BY <3>1, <3>2
  <2>2. CASE p \in AtRow(D, row)
    BY <2>2, <1>5 DEF Grew
  <2>3. CASE p \in Above(D, row)
    <3>1. PICK i \in DOMAIN rs : Inside(p, rs[i].box)
      BY <2>3 DEF ScanOf
    <3> QED BY <2>1, <3>1, <1>2, <1>3, <1>5 DEF Grew
  <2> QED BY <2>1, <2>2, <2>3
<1>10. Total([i \in DOMAIN before |-> before[i].pixels]) + r.pixels = Cardinality(Above(D, row + 1))
  <2> DEFINE c == [i \in DOMAIN before |-> before[i].pixels]
             d == [i \in DOMAIN rs |-> rs[i].pixels]
  <2>1. \A i \in DOMAIN rs : rs[i].pixels \in Int
    <3> TAKE i \in DOMAIN rs
    <3>1. rs[i] \in RegionType
      BY <1>1
    <3> QED BY <3>1 DEF RegionType
  <2>2. last.pixels \in Int
    BY <1>2 DEF RegionType
  <2>3. c \in Seq(Int) /\ Len(c) = Len(rs) - 1 /\ \A i \in DOMAIN before : c[i] = rs[i].pixels
    <3>1. \A i \in DOMAIN before : before[i].pixels \in Int
      BY <1>3, <2>1
    <3> QED BY <3>1, <1>2, <1>3
  <2>4. d \in Seq(Int) /\ Len(d) = Len(rs) /\ \A i \in DOMAIN rs : d[i] = rs[i].pixels
    BY <2>1, <1>1, <1>3
  <2>5. Total(d) = Cardinality(Above(D, row))
    BY DEF ScanOf
  <2> HIDE DEF c, d
  <2>6. d = Append(c, last.pixels)
    <3>1. /\ Append(c, last.pixels) \in Seq(Int) /\ Len(Append(c, last.pixels)) = Len(rs)
          /\ Append(c, last.pixels)[Len(rs)] = last.pixels
          /\ \A i \in 1 .. Len(rs) - 1 : Append(c, last.pixels)[i] = c[i]
      BY <2>2, <2>3, <1>2
    <3> DEFINE e == Append(c, last.pixels)
    <3> HIDE DEF e
    <3>2. \A i \in 1 .. Len(rs) : e[i] = d[i]
      BY <3>1, <2>3, <2>4, <1>2, <1>3 DEF e
    <3>3. e \in Seq(Int) /\ Len(e) = Len(d)
      BY <3>1, <2>4 DEF e
    <3>4. e = d
      BY <3>2, <3>3, <2>4
    <3> QED BY <3>4 DEF e
  <2>7. Total(d) = Total(c) + last.pixels
    BY <2>2, <2>3, <2>6, TotalAppend
  <2>8. Total(c) \in Int
    BY <2>3, TotalTyped
  <2>9. Cardinality(AtRow(D, row)) \in Int
    <3>1. AtRow(D, row) \in SUBSET ScanPixels
      BY DEF AtRow
    <3> QED BY <3>1, PixelsAreFinite
  <2>10. Cardinality(Above(D, row + 1)) = Cardinality(Above(D, row)) + Cardinality(AtRow(D, row))
    BY RowsAddUp
  <2>11. Total(c) + r.pixels = Cardinality(Above(D, row + 1))
    BY <1>5, <2>2, <2>5, <2>7, <2>8, <2>9, <2>10 DEF Grew
  <2> QED BY <2>11 DEF c
<1>11. ScanOf(Append(before, r), D, row + 1)
  BY <1>2, <1>5, <1>6, <1>7, <1>8, <1>9, <1>10, PutRegion DEF Grew
<1> QED BY <1>11 DEF r, before, last

\* What the frame drew, and the background.
LEMMA ElementsTyped ==
    ASSUME drawnElements \in {Named(list) : list \in ElementLists}
    PROVE  \E n \in Nat \ {0} :
              /\ DOMAIN drawnElements = 1 .. n
              /\ \A k \in 1 .. n : drawnElements[k].box \in Boxes /\ drawnElements[k].name \in Int
              /\ drawnElements[n].box = Box(0, 0, ScanWidth, ScanHeight)
<1>1. PICK list \in ElementLists : drawnElements = Named(list)
  OBVIOUS
<1>2. list \in Seq(Boxes)
  BY StaleAssumption DEF Boxes
<1> DEFINE S == [name : Int, box : Boxes]
           own == [i \in DOMAIN list |-> [name |-> i, box |-> list[i]]]
           bottom == [name |-> Background, box |-> Box(0, 0, ScanWidth, ScanHeight)]
<1>3. bottom \in S
  <2>1. Box(0, 0, ScanWidth, ScanHeight) \in Boxes
    BY StaleAssumption DEF Box, Boxes
  <2> QED BY <2>1 DEF Background
<1>4. own \in Seq(S) /\ Len(own) = Len(list)
  <2>1. \A i \in DOMAIN list : [name |-> i, box |-> list[i]] \in S
    <3> TAKE i \in DOMAIN list
    <3>1. i \in Int /\ list[i] \in Boxes
      BY <1>2
    <3> QED BY <3>1
  <2>2. DOMAIN list = 1 .. Len(list) /\ Len(list) \in Nat
    BY <1>2
  <2> HIDE DEF S
  <2> QED BY <2>1, <2>2
<1>5. drawnElements = own \o <<bottom>>
  BY <1>1 DEF Named
<1> DEFINE n == Len(list) + 1
<1>6. n \in Nat \ {0} /\ n = Len(own) + 1
  BY <1>2, <1>4
<1> HIDE DEF own, bottom, S
<1>7. /\ drawnElements \in Seq(S) /\ Len(drawnElements) = n /\ drawnElements[n] = bottom
  BY <1>3, <1>4, <1>5, <1>6
<1> HIDE DEF n
<1>8. DOMAIN drawnElements = 1 .. n
  BY <1>7
<1>9. \A k \in 1 .. n : drawnElements[k] \in S
  BY <1>7, <1>8
<1>10. drawnElements[n].box = Box(0, 0, ScanWidth, ScanHeight)
  BY <1>7 DEF bottom
<1> QED BY <1>6, <1>8, <1>9, <1>10 DEF S

LEMMA AreaTyped == \A r \in Boxes : Area(r) \in Nat
<1> SUFFICES ASSUME NEW r \in Boxes PROVE Area(r) \in Nat
  OBVIOUS
<1>1. r.w \in Nat /\ r.h \in Nat
  BY DEF Boxes
<1>2. \A m, n \in Nat : m * n \in Nat
  OBVIOUS
<1> QED BY <1>1, <1>2 DEF Area

\* The smallest element around a region is its name: there is one, as the
\* background is around everything.
LEMMA NameIsTrue ==
    ASSUME drawnElements \in {Named(list) : list \in ElementLists},
           NEW b \in Boxes, b.x >= 0, b.x + b.w <= ScanWidth, b.y >= 0, b.y + b.h <= ScanHeight,
           NEW r, r.box = b, r.attribution = NameOf(b)
    PROVE  r.attribution \in Int /\ WellNamed(r, drawnElements)
<1> DEFINE around == {i \in DOMAIN drawnElements : Encloses(drawnElements[i].box, b)}
           wins(i) == \A j \in around :
               \/ Area(drawnElements[i].box) < Area(drawnElements[j].box)
               \/ Area(drawnElements[i].box) = Area(drawnElements[j].box) /\ i <= j
<1>1. PICK n \in Nat \ {0} :
          /\ DOMAIN drawnElements = 1 .. n
          /\ \A k \in 1 .. n : drawnElements[k].box \in Boxes /\ drawnElements[k].name \in Int
          /\ drawnElements[n].box = Box(0, 0, ScanWidth, ScanHeight)
  BY ElementsTyped
<1>2. b.x \in Int /\ b.y \in Int /\ b.w \in Int /\ b.h \in Int
  BY DEF Boxes
<1>3. n \in around
  BY <1>1, <1>2, StaleAssumption DEF Encloses, Box
<1>4. \A i \in around : i \in Nat /\ i \in 1 .. n /\ Area(drawnElements[i].box) \in Nat
  BY <1>1, AreaTyped
<1>5. PICK i \in around : \A j \in around :
          ~(Area(drawnElements[j].box) < Area(drawnElements[i].box))
  <2> DEFINE areas == {Area(drawnElements[j].box) : j \in around}
  <2>1. areas \in SUBSET Nat /\ areas # {}
    BY <1>3, <1>4
  <2>2. PICK a \in areas : \A c \in areas : ~(c < a)
    <3> HIDE DEF areas
    <3> QED BY <2>1, SmallestOf
  <2> QED BY <2>2
<1>6. PICK k \in around :
          /\ Area(drawnElements[k].box) = Area(drawnElements[i].box)
          /\ \A j \in around : Area(drawnElements[j].box) = Area(drawnElements[i].box) => ~(j < k)
  <2> DEFINE ties == {j \in around : Area(drawnElements[j].box) = Area(drawnElements[i].box)}
  <2>1. ties \in SUBSET Nat /\ ties # {}
    BY <1>4
  <2>2. PICK k \in ties : \A c \in ties : ~(c < k)
    <3> HIDE DEF ties
    <3> QED BY <2>1, SmallestOf
  <2> QED BY <2>2
<1>7. wins(k)
  <2> SUFFICES ASSUME NEW j \in around
               PROVE  \/ Area(drawnElements[k].box) < Area(drawnElements[j].box)
                      \/ Area(drawnElements[k].box) = Area(drawnElements[j].box) /\ k <= j
    OBVIOUS
  <2>1. /\ Area(drawnElements[k].box) \in Nat /\ Area(drawnElements[j].box) \in Nat
        /\ j \in Nat /\ k \in Nat
    BY <1>4
  <2>2. ~(Area(drawnElements[j].box) < Area(drawnElements[k].box))
    BY <1>5, <1>6
  <2>3. Area(drawnElements[j].box) = Area(drawnElements[k].box) => ~(j < k)
    BY <1>6
  <2> HIDE DEF around
  <2> QED BY <2>1, <2>2, <2>3
<1> DEFINE c == CHOOSE m \in around : wins(m)
<1>8. c \in around /\ wins(c)
  BY <1>7
<1>9. NameOf(b) = drawnElements[c].name
  BY <1>3 DEF NameOf
<1> HIDE DEF c
<1>10. c \in DOMAIN drawnElements /\ Encloses(drawnElements[c].box, b)
  BY <1>8
<1>11. \A j \in DOMAIN drawnElements : Encloses(drawnElements[j].box, b) =>
           Area(drawnElements[c].box) <= Area(drawnElements[j].box)
  <2> SUFFICES ASSUME NEW j \in around
               PROVE  Area(drawnElements[c].box) <= Area(drawnElements[j].box)
    OBVIOUS
  <2>1. Area(drawnElements[c].box) \in Nat /\ Area(drawnElements[j].box) \in Nat
    BY <1>4, <1>8
  <2>2. \/ Area(drawnElements[c].box) < Area(drawnElements[j].box)
        \/ Area(drawnElements[c].box) = Area(drawnElements[j].box)
    BY <1>8
  <2> QED BY <2>1, <2>2
<1> QED BY <1>1, <1>9, <1>10, <1>11 DEF WellNamed

LEMMA FullIsPositive == ScanWidth * ScanHeight \in Nat /\ ScanWidth * ScanHeight > 0
<1>1. \A m, n \in Nat \ {0} : m * n \in Nat /\ m * n > 0
  OBVIOUS
<1> QED BY <1>1, StaleAssumption

-----------------------------------------------------------------------------
LEMMA StaleStarts == StaleInit => StaleInv
<1> SUFFICES ASSUME StaleInit PROVE StaleInv
  OBVIOUS
<1>1. /\ differing \in SUBSET ScanPixels /\ scanRow = 0 /\ regions = <<>> /\ compared = 0
      /\ drawnElements \in {Named(list) : list \in ElementLists} /\ flushCheck = NotChecked
  BY DEF StaleInit
<1>2. ScanOf(<<>>, differing, 0)
  <2>1. Above(differing, 0) = {}
    BY <1>1, PixelTyped DEF Above
  <2>2. [i \in DOMAIN <<>> |-> <<>>[i].pixels] = <<>>
    OBVIOUS
  <2>3. Total([i \in DOMAIN <<>> |-> <<>>[i].pixels]) = Cardinality(Above(differing, 0))
    BY <2>1, <2>2, TotalEmpty, FS_EmptySet
  <2> QED BY <2>1, <2>3 DEF ScanOf
<1> QED BY <1>1, <1>2, StaleAssumption DEF StaleInv, FlushSound

LEMMA StaleSteps == StaleInv /\ [StaleNext]_staleVars => StaleInv'
<1> SUFFICES ASSUME StaleInv, [StaleNext]_staleVars PROVE StaleInv'
  OBVIOUS
<1>0. /\ differing \in SUBSET ScanPixels
      /\ drawnElements \in {Named(list) : list \in ElementLists}
      /\ scanRow \in 0 .. ScanHeight + 1 /\ scanRow \in Int /\ ScanHeight \in Int /\ ScanHeight > 0
      /\ ScanWidth * ScanHeight # 0
  BY StaleAssumption, FullIsPositive DEF StaleInv
<1>1. CASE ScanBlind
  <2>1. /\ scanRow = 0 /\ baselineRows < ScanHeight /\ scanRow' = ScanHeight
        /\ UNCHANGED <<differing, baselineRows, drawnElements, regions, compared, flushCheck>>
    BY <1>1 DEF ScanBlind
  <2>2. compared = 0
    BY <2>1, <1>0 DEF StaleInv
  <2>3. FlushSound'
    BY <2>1 DEF StaleInv, FlushSound
  <2>4. /\ scanRow' \in 0 .. ScanHeight + 1 /\ ~(scanRow' > ScanHeight) /\ scanRow' # 0
        /\ scanRow' >= ScanHeight
    BY <2>1, <1>0
  <2> QED BY <2>1, <2>2, <2>3, <2>4 DEF StaleInv
<1>2. CASE ScanOneRow
  <2> DEFINE run == RunOf(scanRow)
             x0 == Least(run)
             x1 == Greatest(run)
             n == Cardinality(AtRow(differing, scanRow))
  <2>1. /\ scanRow < ScanHeight /\ baselineRows = ScanHeight /\ scanRow' = scanRow + 1
        /\ compared' = ScanWidth * ScanHeight
        /\ UNCHANGED <<differing, baselineRows, drawnElements, flushCheck>>
    BY <1>2 DEF ScanOneRow
  <2>2. regions' = IF run = {} THEN regions
                   ELSE IF regions # <<>> /\ Joins(Last(regions).box, x0, x1, scanRow)
                   THEN Append(Front(regions), Grown(Last(regions), x0, x1, n))
                   ELSE Append(regions, Region(Box(x0, scanRow, x1 - x0 + 1, 1), n))
    BY <1>2 DEF ScanOneRow, AtRow
  <2>3. scanRow \in 0 .. ScanHeight - 1
    BY <1>0, <2>1
  <2>4. ScanOf(regions, differing, scanRow)
    BY <1>0, <2>1 DEF StaleInv
  <2>5. run = {p[1] : p \in AtRow(differing, scanRow)}
    BY DEF RunOf, AtRow
  <2> HIDE DEF run
  <2>6. run = {} <=> AtRow(differing, scanRow) = {}
    BY <2>5
  <2>7. run # {} => Ends(differing, scanRow, x0, x1)
    <3> HIDE DEF x0, x1
    <3> QED BY <1>0, <2>3, <2>5, RunHasEnds DEF x0, x1
  <2> HIDE DEF x0, x1, n
  <2>8. ScanOf(regions', differing, scanRow + 1)
    <3>1. CASE run = {}
      BY <3>1, <1>0, <2>2, <2>3, <2>4, <2>6, QuietRow
    <3>2. CASE run # {} /\ regions # <<>> /\ Joins(Last(regions).box, x0, x1, scanRow)
      <4>1. regions' = Append(Front(regions), Grown(Last(regions), x0, x1, n))
        BY <2>2, <3>2
      <4>2. ScanOf(Append(Front(regions), Grown(Last(regions), x0, x1, n)), differing, scanRow + 1)
        BY <3>2, <1>0, <2>3, <2>4, <2>7, GrownRegion DEF n
      <4> QED BY <4>1, <4>2
    <3>3. CASE run # {} /\ ~(regions # <<>> /\ Joins(Last(regions).box, x0, x1, scanRow))
      <4>1. regions' = Append(regions, Region(Box(x0, scanRow, x1 - x0 + 1, 1), n))
        BY <2>2, <3>3
      <4>2. ScanOf(Append(regions, Region(Box(x0, scanRow, x1 - x0 + 1, 1), n)),
                   differing, scanRow + 1)
        BY <3>3, <1>0, <2>3, <2>4, <2>6, <2>7, NewRegion DEF n
      <4> QED BY <4>1, <4>2
    <3> QED BY <3>1, <3>2, <3>3
  <2>9. scanRow' \in 0 .. ScanHeight + 1 /\ ~(scanRow' > ScanHeight)
    BY <1>0, <2>1, <2>3
  <2>10. FlushSound'
    BY <2>1 DEF StaleInv, FlushSound
  <2>11. ScanOf(regions', differing', scanRow')
    BY <2>1, <2>8
  <2> QED BY <1>0, <2>1, <2>9, <2>10, <2>11 DEF StaleInv
<1>3. CASE Attribute
  <2>1. /\ scanRow = ScanHeight /\ scanRow' = ScanHeight + 1
        /\ regions' = [i \in DOMAIN regions |->
                          [regions[i] EXCEPT !.attribution = NameOf(regions[i].box)]]
        /\ UNCHANGED <<differing, baselineRows, drawnElements, compared, flushCheck>>
    BY <1>3 DEF Attribute
  <2>2. FlushSound'
    BY <2>1 DEF StaleInv, FlushSound
  <2>3. scanRow' \in 0 .. ScanHeight + 1 /\ scanRow' # 0 /\ scanRow' >= ScanHeight
    BY <1>0, <2>1
  <2>4. CASE compared = 0
    <3>1. regions = <<>>
      BY <2>4 DEF StaleInv
    <3>2. regions' = <<>>
      BY <2>1, <3>1
    <3> QED BY <2>1, <2>2, <2>3, <2>4, <3>2 DEF StaleInv
  <2>5. CASE compared # 0
    <3>1. ScanOf(regions, differing, ScanHeight)
      BY <2>1, <2>5 DEF StaleInv
    <3>2. /\ regions \in Seq(RegionType) /\ DOMAIN regions = 1 .. Len(regions)
          /\ Len(regions) \in Nat
      BY <3>1 DEF ScanOf
    <3>3. DOMAIN regions' = DOMAIN regions
      BY <2>1
    <3>4. ASSUME NEW i \in DOMAIN regions
          PROVE  /\ regions'[i] \in RegionType /\ WellNamed(regions'[i], drawnElements)
                 /\ Fits(regions'[i], differing, ScanHeight + 1)
                 /\ regions'[i].box = regions[i].box /\ regions'[i].pixels = regions[i].pixels
      <4>1. regions[i] \in RegionType /\ Fits(regions[i], differing, ScanHeight)
        BY <3>1, <3>2 DEF ScanOf
      <4>2. regions'[i] = [regions[i] EXCEPT !.attribution = NameOf(regions[i].box)]
        BY <2>1
      <4>3. /\ regions'[i].box = regions[i].box /\ regions'[i].pixels = regions[i].pixels
            /\ regions'[i].attribution = NameOf(regions[i].box)
        BY <4>1, <4>2 DEF RegionType
      <4>4. regions[i].box \in Boxes /\ regions[i].pixels \in Nat
        BY <4>1 DEF RegionType
      <4> DEFINE b == regions[i].box
      <4>5. b.x \in Int /\ b.y \in Int /\ b.w \in Int /\ b.h \in Int
        BY <4>4 DEF Boxes
      <4>6. b.x >= 0 /\ b.x + b.w <= ScanWidth /\ b.y >= 0 /\ b.y + b.h <= ScanHeight
        BY <4>1 DEF Fits
      <4>7. regions'[i].attribution \in Int /\ WellNamed(regions'[i], drawnElements)
        <5> DEFINE r == regions'[i]
        <5>1. r.box = b /\ r.attribution = NameOf(b) /\ b \in Boxes
          BY <4>3, <4>4
        <5> HIDE DEF r, b
        <5>2. r.attribution \in Int /\ WellNamed(r, drawnElements)
          BY <1>0, <4>6, <5>1, NameIsTrue
        <5> QED BY <5>2 DEF r
      <4>8. regions'[i] \in RegionType
        BY <4>1, <4>2, <4>3, <4>4, <4>7 DEF RegionType
      <4>9. Fits(regions'[i], differing, ScanHeight + 1)
        BY <1>0, <4>1, <4>3, <4>5 DEF Fits
      <4> QED BY <4>3, <4>7, <4>8, <4>9
    <3>5. regions' \in Seq(RegionType)
      <4>1. regions' = [i \in 1 .. Len(regions) |-> regions'[i]]
        BY <2>1, <3>2
      <4> QED BY <3>2, <3>4, <4>1
    <3>6. \A i, j \in DOMAIN regions' :
              i < j => regions'[i].box.y + regions'[i].box.h <= regions'[j].box.y
      BY <3>1, <3>3, <3>4 DEF ScanOf
    <3>7. Above(differing, ScanHeight + 1) = Above(differing, ScanHeight)
      BY <1>0, PixelTyped DEF Above
    <3>8. \A p \in Above(differing, ScanHeight + 1) : \E i \in DOMAIN regions' : Inside(p, regions'[i].box)
      BY <3>1, <3>3, <3>4, <3>7 DEF ScanOf
    <3>9. [i \in DOMAIN regions' |-> regions'[i].pixels] = [i \in DOMAIN regions |-> regions[i].pixels]
      BY <3>3, <3>4
    <3>10. ScanOf(regions', differing, ScanHeight + 1)
      <4> DEFINE rs == regions'
      <4>1. /\ rs \in Seq(RegionType) /\ \A i \in DOMAIN rs : Fits(rs[i], differing, ScanHeight + 1)
            /\ \A i, j \in DOMAIN rs : i < j => rs[i].box.y + rs[i].box.h <= rs[j].box.y
            /\ \A p \in Above(differing, ScanHeight + 1) : \E i \in DOMAIN rs : Inside(p, rs[i].box)
            /\ Total([i \in DOMAIN rs |-> rs[i].pixels]) = Cardinality(Above(differing, ScanHeight + 1))
        BY <3>1, <3>3, <3>4, <3>5, <3>6, <3>7, <3>8, <3>9 DEF ScanOf
      <4> HIDE DEF rs
      <4>2. ScanOf(rs, differing, ScanHeight + 1)
        BY <4>1 DEF ScanOf
      <4> QED BY <4>2 DEF rs
    <3>11. ScanOf(regions', differing', scanRow')
      BY <2>1, <3>10
    <3>12. \A i \in DOMAIN regions' : WellNamed(regions'[i], drawnElements')
      BY <2>1, <3>3, <3>4
    <3> QED BY <2>1, <2>2, <2>3, <2>5, <3>11, <3>12 DEF StaleInv
  <2> QED BY <2>4, <2>5
<1>4. ASSUME NEW readback \in BOOLEAN, NEW flushed \in 0 .. ScanHeight,
             NEW mappedRows \in 0 .. ScanHeight, NEW lostRows \in {{}, {ScanHeight - 1}},
             Report(readback, flushed, mappedRows, lostRows)
      PROVE  StaleInv'
  <2>1. /\ UNCHANGED <<differing, baselineRows, drawnElements, scanRow, regions, compared>>
        /\ flushCheck' = [verdict |-> CheckFlush(readback, flushed, mappedRows, lostRows),
                          flushed |-> flushed, mappedRows |-> mappedRows, lostRows |-> lostRows,
                          repainted |-> RepaintedByScan(mappedRows > 0, flushed)]
    BY <1>4 DEF Report
  <2>2. /\ flushCheck'.verdict = CheckFlush(readback, flushed, mappedRows, lostRows)
        /\ flushCheck'.flushed = flushed /\ flushCheck'.mappedRows = mappedRows
        /\ flushCheck'.lostRows = lostRows
    BY <2>1
  <2>3. flushed \in Int /\ flushed >= 0 /\ mappedRows \in Int /\ mappedRows >= 0
        /\ \A y \in lostRows : y \in Int
    BY <1>0
  <2>4. ASSUME CheckFlush(readback, flushed, mappedRows, lostRows) = "clean"
        PROVE  flushed > 0 /\ mappedRows > 0 /\ \A y \in lostRows : y >= mappedRows
    <3>1. flushed # 0 /\ CompareFlush(mappedRows, lostRows) = "clean"
      BY <2>4 DEF CheckFlush
    <3>2. mappedRows > 0 /\ {y \in lostRows : y < mappedRows} = {}
      BY <2>3, <3>1 DEF CompareFlush
    <3> QED BY <2>3, <3>1, <3>2
  <2>5. FlushSound'
    BY <2>2, <2>4 DEF FlushSound
  <2> QED BY <2>1, <2>5 DEF StaleInv
<1>5. CASE UNCHANGED staleVars
  BY <1>5 DEF staleVars, StaleInv, FlushSound
<1> QED BY <1>1, <1>2, <1>3, <1>4, <1>5 DEF StaleNext

\* What the regions hold is what differs, each pixel once.
LEMMA RegionsDoAddUp == StaleInv => RegionsAddUp
<1> SUFFICES ASSUME StaleInv, compared > 0 PROVE RegionsAddUp
  BY DEF RegionsAddUp
<1>1. compared # 0
  BY FullIsPositive DEF StaleInv
<1>2. ScanOf(regions, differing, scanRow) /\ differing \in SUBSET ScanPixels
  BY <1>1 DEF StaleInv
<1>3. differing \cap Scanned = Above(differing, scanRow)
  BY <1>2 DEF Scanned, Above
<1>4. Total(Counts) = Cardinality(differing \cap Scanned)
  BY <1>2, <1>3 DEF ScanOf, Counts
<1>5. ASSUME NEW p \in differing \cap Scanned
      PROVE  Cardinality({i \in DOMAIN regions : Inside(p, regions[i].box)}) = 1
  <2>1. PICK i \in DOMAIN regions : Inside(p, regions[i].box)
    BY <1>2, <1>3 DEF ScanOf
  <2>2. ASSUME NEW j \in DOMAIN regions, Inside(p, regions[j].box), j # i
        PROVE  FALSE
    <3>1. /\ regions[i] \in RegionType /\ regions[j] \in RegionType
          /\ i \in Int /\ j \in Int /\ p[2] \in Int
      BY <1>2, PixelTyped DEF ScanOf
    <3>2. regions[i].box \in Boxes /\ regions[j].box \in Boxes
      BY <3>1 DEF RegionType
    <3>3. /\ regions[i].box.y \in Int /\ regions[i].box.h \in Int
          /\ regions[j].box.y \in Int /\ regions[j].box.h \in Int
      BY <3>2 DEF Boxes
    <3>4. /\ regions[i].box.y <= p[2] /\ p[2] < regions[i].box.y + regions[i].box.h
          /\ regions[j].box.y <= p[2] /\ p[2] < regions[j].box.y + regions[j].box.h
      BY <2>1, <2>2, <3>1, <3>3 DEF Inside
    <3>5. \/ regions[i].box.y + regions[i].box.h <= regions[j].box.y
          \/ regions[j].box.y + regions[j].box.h <= regions[i].box.y
      <4>1. i < j \/ j < i
        BY <2>2, <3>1
      <4> QED BY <1>2, <4>1 DEF ScanOf
    <3> QED BY <3>1, <3>3, <3>4, <3>5
  <2>3. {j \in DOMAIN regions : Inside(p, regions[j].box)} = {i}
    BY <2>1, <2>2
  <2> QED BY <2>3, FS_Singleton
<1>6. \A i \in DOMAIN regions :
          regions[i].pixels = Cardinality({p \in differing : Inside(p, regions[i].box)})
  BY <1>2 DEF ScanOf, Fits
<1> QED BY <1>4, <1>5, <1>6 DEF RegionsAddUp

LEMMA NamesAreTrue == StaleInv => NamedAfterTheSmallest
<1> SUFFICES ASSUME StaleInv, scanRow > ScanHeight, NEW i \in DOMAIN regions
             PROVE  LET named == {j \in DOMAIN drawnElements :
                              /\ drawnElements[j].name = regions[i].attribution
                              /\ Encloses(drawnElements[j].box, regions[i].box)}
                    IN  /\ named # {}
                        /\ \A j \in DOMAIN drawnElements :
                              Encloses(drawnElements[j].box, regions[i].box) =>
                                \E k \in named : Area(drawnElements[k].box) <= Area(drawnElements[j].box)
  BY DEF NamedAfterTheSmallest
<1>1. WellNamed(regions[i], drawnElements)
  BY DEF StaleInv
<1> QED BY <1>1 DEF WellNamed

\* A picture is called clean, or stale, for what is in it.
LEMMA CleanIsTrue == StaleInv => CleanWasCompared
<1> SUFFICES ASSUME StaleInv, scanRow > ScanHeight PROVE CleanWasCompared
  BY DEF CleanWasCompared
<1>1. differing \in SUBSET ScanPixels /\ scanRow \in Int /\ ScanHeight \in Int
  BY StaleAssumption DEF StaleInv
<1>2. \A p \in ScanPixels : p[2] \in Int /\ p[2] < ScanHeight
  BY <1>1, PixelTyped
<1>3. compared = 0 \/ compared > 0
  BY FullIsPositive DEF StaleInv
<1>4. compared = 0 => Outcome = "blind"
  BY DEF Outcome
<1>5. ASSUME compared > 0
      PROVE  ScanOf(regions, differing, scanRow) /\ baselineRows = ScanHeight
  BY <1>3, <1>5 DEF StaleInv
<1>6. ASSUME Outcome = "clean", NEW p \in ScanPixels
      PROVE  Mask[p] = "dimmed"
  <2>1. compared > 0
    BY <1>3, <1>4, <1>6
  <2>2. regions = <<>>
    BY <1>6, <2>1 DEF Outcome
  <2>3. p \notin differing
    <3> SUFFICES ASSUME p \in differing PROVE FALSE
      OBVIOUS
    <3>1. p \in Above(differing, scanRow)
      BY <1>1, <1>2 DEF Above
    <3> QED BY <1>5, <2>1, <2>2, <3>1 DEF ScanOf
  <2> QED BY <1>1, <1>2, <1>5, <2>1, <2>3 DEF Mask
<1>7. ASSUME Outcome = "stale"
      PROVE  \E p \in ScanPixels : Mask[p] = "error"
  <2>1. compared > 0
    BY <1>3, <1>4, <1>7
  <2>2. regions # <<>>
    BY <1>7, <2>1 DEF Outcome
  <2>3. regions \in Seq(RegionType)
    BY <1>5, <2>1 DEF ScanOf
  <2>4. 1 \in DOMAIN regions
    BY <2>2, <2>3
  <2> DEFINE seen == {p \in differing : Inside(p, regions[1].box)}
  <2>5. Fits(regions[1], differing, scanRow)
    BY <1>5, <2>1, <2>4 DEF ScanOf
  <2>6. regions[1].pixels = Cardinality(seen) /\ regions[1].pixels >= 1
    BY <2>5 DEF Fits
  <2>7. seen # {}
    <3> HIDE DEF seen
    <3> SUFFICES ASSUME seen = {} PROVE FALSE
      OBVIOUS
    <3>1. Cardinality(seen) = 0
      BY FS_EmptySet
    <3> QED BY <2>6, <3>1
  <2>8. PICK p \in differing : TRUE
    BY <2>7
  <2> QED BY <1>1, <1>2, <1>5, <2>1, <2>8 DEF Mask
<1>8. FlushSound
  BY DEF StaleInv
<1> QED BY <1>6, <1>7, <1>8 DEF CleanWasCompared, FlushSound

\* The scan says what it saw, all of it, and where: for any size of the
\* picture, any pixels that differ and any elements that were drawn.
THEOREM ScanIsAlwaysTrue == StaleSpec => []ScanIsTrue
<1>1. StaleInit => StaleInv
  BY StaleStarts
<1>2. StaleInv /\ [StaleNext]_staleVars => StaleInv'
  BY StaleSteps
<1>3. StaleInv => ScanIsTrue
  BY RegionsDoAddUp, NamesAreTrue, CleanIsTrue DEF ScanIsTrue
<1> QED BY <1>1, <1>2, <1>3, PTL DEF StaleSpec

-----------------------------------------------------------------------------
(* The objects of the GPU renderer.                                        *)

Object == Thing \X Parts

\* p has to outlive x: x was made from it.
Needs(x, p) ==
    \/ x[2] \in DOMAIN ParentOf /\ p = <<x[1], ParentOf[x[2]]>>
    \/ x[1] # "gpu" /\ x[2] # "fd" /\ p = <<"gpu", "device">>

\* The objects in d can go one after the other: each is there, is named once,
\* and what was made from it goes before it.
GoodDrop(d, objs) ==
    /\ d \in Seq(Object) /\ IsInjective(d) /\ ToSet(d) \subseteq objs
    /\ \A j \in DOMAIN d : \A x \in objs : Needs(x, d[j]) => \E i \in 1 .. j - 1 : d[i] = x

KindsFit ==
    /\ kind \in [Thing -> Kinds \cup {"none"}]
    /\ kind["gpu"] \in {"none", "gpu"} /\ kind["pipes"] \in {"none", "pipelines"}
    /\ kind["bound"] \in {"none", "imported"} /\ kind["export"] \in {"none", "exported"}
    /\ kind["scratch"] = "none" /\ kind["readback"] = "none"
    /\ \A t \in Tex : kind[t] \in {"none", "imported", "uploaded"}

\* What stands has its parts, which its Drop knows, and none of them is going;
\* what is left of anything else is going.
PartsStand ==
    /\ kind["gpu"] = "gpu" => <<"gpu", "device">> \in objects
    /\ \A t \in Thing : kind[t] \in {"imported", "uploaded"} =>
          <<t, "view">> \in objects /\ <<t, "image">> \in objects
    /\ \A x \in objects : IF kind[x[1]] = "none" THEN x \in ToSet(dying)
                          ELSE x \notin ToSet(dying) /\ x[2] \in ToSet(DropOf[kind[x[1]]])

\* Nothing stands without the device, nothing but it before the pipelines.
DeviceStands ==
    /\ \A t \in Thing : kind[t] # "none" => kind["gpu"] = "gpu"
    /\ renderer => kind["gpu"] = "gpu"
    /\ renderer /\ kind["pipes"] = "none" => \A t \in Thing \ {"gpu"} : kind[t] = "none"

HoldersStand ==
    /\ renderer \in BOOLEAN /\ frameHeld \in SUBSET Tex /\ callerHeld \in SUBSET Tex /\ IsFiniteSet(frameHeld)
    /\ \A t \in frameHeld \cup callerHeld : kind[t] # "none"
    /\ Recording => /\ kind["bound"] # "none"
                    /\ frameDraws \in Seq(Tex) /\ ToSet(frameDraws) \subseteq frameHeld

\* The objects and the things they make up.
ObjectsHold ==
    /\ objects \in SUBSET Object
    /\ GoodDrop(dying, objects)
    /\ \A x \in objects, p \in Object : Needs(x, p) => p \in objects
    /\ KindsFit /\ PartsStand /\ DeviceStands

KasaneInv == ObjectsHold /\ HoldersStand

-----------------------------------------------------------------------------
(* Lists of parts.                                                         *)

\* The parts in u can go one after the other: each is named once, and what was
\* made from it is not named later.
InOrder(u) ==
    /\ u \in Seq(Parts) /\ IsInjective(u)
    /\ \A i, j \in DOMAIN u : u[i] \in DOMAIN ParentOf /\ u[j] = ParentOf[u[i]] => i < j

LEMMA PartsAre ==
    Parts = {"pool", "device", "messenger", "instance", "textured", "solid", "linear", "nearest",
             "descriptorPool", "layout", "setLayout", "module", "view", "image", "memory",
             "buffer", "bufferMemory", "staging", "stagingMemory", "fd"}
  BY DEF Parts, Kinds, DropOf, GpuDrop, PipelinesDrop, TargetDrop, ImportedDrop, UploadedDrop,
         ExportedDrop, ToSet

LEMMA DropsInOrder ==
    /\ InOrder(GpuDrop) /\ InOrder(PipelinesDrop) /\ InOrder(TargetDrop) /\ InOrder(ImportedDrop)
    /\ InOrder(UploadedDrop) /\ InOrder(ExportedDrop) /\ InOrder(<<"buffer", "bufferMemory">>)
<1>1. InOrder(GpuDrop)
  BY PartsAre DEF InOrder, IsInjective, ParentOf, GpuDrop
<1>2. InOrder(PipelinesDrop)
  BY PartsAre DEF InOrder, IsInjective, ParentOf, PipelinesDrop
<1>3. InOrder(TargetDrop)
  BY PartsAre DEF InOrder, IsInjective, ParentOf, TargetDrop
<1>4. InOrder(ImportedDrop)
  BY PartsAre DEF InOrder, IsInjective, ParentOf, ImportedDrop
<1>5. InOrder(UploadedDrop)
  BY PartsAre DEF InOrder, IsInjective, ParentOf, UploadedDrop
<1>6. InOrder(ExportedDrop)
  BY PartsAre DEF InOrder, IsInjective, ParentOf, ExportedDrop
<1>7. InOrder(<<"buffer", "bufferMemory">>)
  BY PartsAre DEF InOrder, IsInjective, ParentOf
<1> QED BY <1>1, <1>2, <1>3, <1>4, <1>5, <1>6, <1>7

LEMMA UndosInOrder ==
    /\ InOrder(<<>>) /\ InOrder(<<"instance">>) /\ InOrder(<<"device", "instance">>)
    /\ InOrder(<<"image">>) /\ InOrder(<<"fd">>) /\ InOrder(<<"fd", "image">>)
    /\ InOrder(<<"image", "memory">>) /\ InOrder(<<"view", "image", "memory">>)
    /\ InOrder(<<"buffer">>) /\ InOrder(<<"buffer", "view", "image", "memory">>)
<1>1. InOrder(<<>>) /\ InOrder(<<"instance">>) /\ InOrder(<<"device", "instance">>)
  BY PartsAre DEF InOrder, IsInjective, ParentOf
<1>2. InOrder(<<"image">>) /\ InOrder(<<"fd">>) /\ InOrder(<<"fd", "image">>)
  BY PartsAre DEF InOrder, IsInjective, ParentOf
<1>3. InOrder(<<"image", "memory">>) /\ InOrder(<<"view", "image", "memory">>)
  BY PartsAre DEF InOrder, IsInjective, ParentOf
<1>4. InOrder(<<"buffer">>) /\ InOrder(<<"buffer", "view", "image", "memory">>)
  BY PartsAre DEF InOrder, IsInjective, ParentOf
<1> QED BY <1>1, <1>2, <1>3, <1>4

\* What is sifted out of a list in order is in order.
LEMMA SiftInOrder ==
    ASSUME NEW u, InOrder(u), NEW keep
    PROVE  InOrder(Sift(u, keep)) /\ ToSet(Sift(u, keep)) = ToSet(u) \cap keep
<1> DEFINE v == Sift(u, keep)
<1>0. u \in Seq(Parts)
  BY DEF InOrder
<1>1. v \in Seq(Parts) /\ Len(v) \in Nat /\ DOMAIN v = 1 .. Len(v) /\ DOMAIN u = 1 .. Len(u)
  BY <1>0, SiftTyped
<1>2. ToSet(v) = ToSet(u) \cap keep
  BY <1>0, SiftElements
<1>3. PICK f : Places(f, v, u)
  BY <1>0, SiftPlaces
<1> HIDE DEF v
<1>4. IsInjective(v)
  <2>1. SUFFICES ASSUME NEW i \in 1 .. Len(v), NEW j \in 1 .. Len(v), i < j
                 PROVE  v[i] # v[j]
    BY <1>1 DEF IsInjective
  <2>2. f[i] \in DOMAIN u /\ f[j] \in DOMAIN u /\ v[i] = u[f[i]] /\ v[j] = u[f[j]]
    BY <1>1, <1>3 DEF Places
  <2>3. f[i] # f[j]
    <3>1. f[i] < f[j]
      BY <1>3, <2>1 DEF Places
    <3> QED BY <1>1, <2>2, <3>1
  <2> QED BY <2>2, <2>3 DEF InOrder, IsInjective
<1>5. ASSUME NEW i \in DOMAIN v, NEW j \in DOMAIN v, v[i] \in DOMAIN ParentOf, v[j] = ParentOf[v[i]]
      PROVE  i < j
  <2>1. /\ f[i] \in DOMAIN u /\ f[j] \in DOMAIN u /\ v[i] = u[f[i]] /\ v[j] = u[f[j]]
        /\ f[i] \in Nat /\ f[j] \in Nat /\ i \in Nat /\ j \in Nat
    BY <1>1, <1>3 DEF Places
  <2>2. f[i] < f[j]
    BY <1>5, <2>1 DEF InOrder
  <2>3. ~ (j < i) /\ i # j
    BY <1>1, <1>3, <2>1, <2>2 DEF Places
  <2> QED BY <2>1, <2>3
<1>6. InOrder(v)
  BY <1>1, <1>4, <1>5 DEF InOrder
<1> QED BY <1>2, <1>6 DEF v
-----------------------------------------------------------------------------
(* The tables of calls.                                                    *)

\* With each part, the one it was made from.
Closed(ps) == \A p \in ps : p \in DOMAIN ParentOf => ParentOf[p] \in ps

\* What is taken back when the n-th call is refused is there and can go.
TakesBack(calls, n) ==
    /\ InOrder(calls[n].undo) /\ Closed(ToSet(calls[n].undo))
    /\ ToSet(calls[n].undo) \subseteq After(calls, n - 1)

\* All of the calls leave no part without its own, and none the Drop does not know.
Builds(calls, drop) == Closed(After(calls, Len(calls))) /\ After(calls, Len(calls)) \subseteq ToSet(drop)

LEMMA StaysMade ==
    ASSUME NEW calls, NEW m \in Nat, NEW i \in 1 .. m, NEW p \in calls[i].makes,
           \A j \in 1 .. m : p \notin calls[j].takes
    PROVE  \A n \in i .. m : p \in After(calls, n)
<1> SUFFICES ASSUME NEW n \in i .. m PROVE p \in After(calls, n)
  OBVIOUS
<1>1. i \in 1 .. n /\ \A j \in 1 .. n : j \in 1 .. m
  OBVIOUS
<1>2. p \in UNION {calls[j].makes : j \in 1 .. n}
  BY <1>1
<1>3. p \notin UNION {calls[j].takes : j \in 1 .. n}
  BY <1>1
<1> QED BY <1>2, <1>3 DEF After

LEMMA OwnedCallsAre ==
    /\ \A n \in 1 .. 9 : OwnedCalls[n].takes = {}
    /\ Len(OwnedCalls) = 9
    /\ OwnedCalls[1] = Create("image", <<>>) /\ OwnedCalls[2] = Ask(<<"image">>)
    /\ OwnedCalls[3] = Create("memory", <<"image">>) /\ OwnedCalls[4] = Ask(<<"image">>)
    /\ OwnedCalls[5] = Create("view", <<"image">>)
    /\ OwnedCalls[6] = Create("buffer", <<"view", "image", "memory">>)
    /\ OwnedCalls[7] = Ask(<<"buffer", "view", "image", "memory">>)
    /\ OwnedCalls[8] = Create("bufferMemory", <<"buffer", "view", "image", "memory">>)
    /\ OwnedCalls[9] = Ask(<<"buffer", "view", "image", "memory">>)
<1>1. Len(OwnedCalls) = 9
  BY DEF OwnedCalls
<1>2. /\ OwnedCalls[1] = Create("image", <<>>) /\ OwnedCalls[2] = Ask(<<"image">>)
      /\ OwnedCalls[3] = Create("memory", <<"image">>) /\ OwnedCalls[4] = Ask(<<"image">>)
      /\ OwnedCalls[5] = Create("view", <<"image">>)
  BY DEF OwnedCalls, BackingCalls
<1>3. /\ OwnedCalls[6] = Create("buffer", <<"view", "image", "memory">>)
      /\ OwnedCalls[7] = Ask(<<"buffer", "view", "image", "memory">>)
      /\ OwnedCalls[8] = Create("bufferMemory", <<"buffer", "view", "image", "memory">>)
      /\ OwnedCalls[9] = Ask(<<"buffer", "view", "image", "memory">>)
  BY DEF OwnedCalls, ReadbackCalls, BackingDrop
<1>4. \A n \in 1 .. 9 : n \in {1, 2, 3, 4, 5, 6, 7, 8, 9}
  OBVIOUS
<1> QED BY <1>1, <1>2, <1>3, <1>4 DEF Create, Ask

LEMMA OwnedFits ==
    /\ \A n \in 1 .. Len(OwnedCalls) : TakesBack(OwnedCalls, n)
    /\ Builds(OwnedCalls, TargetDrop)
    /\ ToSet(TargetDrop) = After(OwnedCalls, Len(OwnedCalls))
<1>1. /\ \A n \in 1 .. 9 : "image" \in After(OwnedCalls, n)
      /\ \A n \in 3 .. 9 : "memory" \in After(OwnedCalls, n)
      /\ \A n \in 5 .. 9 : "view" \in After(OwnedCalls, n)
      /\ \A n \in 6 .. 9 : "buffer" \in After(OwnedCalls, n)
      /\ \A n \in 8 .. 9 : "bufferMemory" \in After(OwnedCalls, n)
  <2>1. /\ "image" \in OwnedCalls[1].makes /\ "memory" \in OwnedCalls[3].makes
        /\ "view" \in OwnedCalls[5].makes /\ "buffer" \in OwnedCalls[6].makes
        /\ "bufferMemory" \in OwnedCalls[8].makes
    BY OwnedCallsAre DEF Create
  <2>2. \A p : \A n \in 1 .. 9 : p \notin OwnedCalls[n].takes
    BY OwnedCallsAre
  <2>3. \A i \in 1 .. 9 : \A p \in OwnedCalls[i].makes : \A n \in i .. 9 : p \in After(OwnedCalls, n)
    BY <2>2, StaysMade
  <2> QED BY <2>1, <2>3
<1>2. /\ TakesBack(OwnedCalls, 1) /\ TakesBack(OwnedCalls, 2) /\ TakesBack(OwnedCalls, 3)
      /\ TakesBack(OwnedCalls, 4) /\ TakesBack(OwnedCalls, 5)
  BY <1>1, OwnedCallsAre, UndosInOrder DEF TakesBack, Closed, ParentOf, Create, Ask, ToSet
<1>3. /\ TakesBack(OwnedCalls, 6) /\ TakesBack(OwnedCalls, 7) /\ TakesBack(OwnedCalls, 8)
      /\ TakesBack(OwnedCalls, 9)
  BY <1>1, OwnedCallsAre, UndosInOrder DEF TakesBack, Closed, ParentOf, Create, Ask, ToSet
<1>4. After(OwnedCalls, 9) = {"view", "image", "memory", "buffer", "bufferMemory"}
  <2>1. ASSUME NEW i \in 1 .. 9, NEW p \in OwnedCalls[i].makes
        PROVE  p \in {"view", "image", "memory", "buffer", "bufferMemory"}
    BY OwnedCallsAre DEF Create, Ask
  <2>2. After(OwnedCalls, 9) \subseteq {"view", "image", "memory", "buffer", "bufferMemory"}
    BY <2>1 DEF After
  <2>3. {"view", "image", "memory", "buffer", "bufferMemory"} \subseteq After(OwnedCalls, 9)
    BY <1>1
  <2> QED BY <2>2, <2>3
<1> QED BY <1>2, <1>3, <1>4, OwnedCallsAre DEF Builds, Closed, ParentOf, TargetDrop, ToSet

LEMMA AllStay ==
    ASSUME NEW calls, NEW m \in Nat, \A n \in 1 .. m : calls[n].takes = {}
    PROVE  \A i \in 1 .. m : \A p \in calls[i].makes : \A n \in i .. m : p \in After(calls, n)
  BY StaysMade

LEMMA GpuFits ==
    ASSUME NEW validated \in BOOLEAN
    PROVE  /\ \A n \in 1 .. Len(GpuCalls(validated)) : TakesBack(GpuCalls(validated), n)
           /\ Builds(GpuCalls(validated), GpuDrop)
           /\ "device" \in After(GpuCalls(validated), Len(GpuCalls(validated)))
<1> DEFINE calls == GpuCalls(validated)
<1>1. /\ Len(calls) = 3 /\ calls[1] = InstanceCall(validated)
      /\ calls[2] = Create("device", <<"instance">>)
      /\ calls[3] = Create("pool", <<"device", "instance">>)
  BY DEF GpuCalls
<1> HIDE DEF calls
<1>2. \A n \in 1 .. 3 : n \in {1, 2, 3}
  OBVIOUS
<1>3. \A n \in 1 .. 3 : calls[n].takes = {}
  BY <1>1, <1>2 DEF Create, InstanceCall
<1>4. "instance" \in calls[1].makes /\ "device" \in calls[2].makes /\ "pool" \in calls[3].makes
  BY <1>1 DEF Create, InstanceCall
<1>5. /\ \A n \in 1 .. 3 : "instance" \in After(calls, n)
      /\ \A n \in 2 .. 3 : "device" \in After(calls, n)
      /\ "pool" \in After(calls, 3)
  <2>1. \A i \in 1 .. 3 : \A p \in calls[i].makes : \A n \in i .. 3 : p \in After(calls, n)
    BY <1>3, AllStay
  <2> QED BY <1>4, <2>1
<1>6. TakesBack(calls, 1)
  BY <1>1, UndosInOrder DEF TakesBack, Closed, InstanceCall, ToSet
<1>7. TakesBack(calls, 2) /\ TakesBack(calls, 3)
  BY <1>1, <1>5, UndosInOrder DEF TakesBack, Closed, ParentOf, Create, ToSet
<1>8. After(calls, 3) \subseteq {"instance", "messenger", "device", "pool"}
  <2>1. ASSUME NEW i \in 1 .. 3, NEW p \in calls[i].makes
        PROVE  p \in {"instance", "messenger", "device", "pool"}
    BY <1>1 DEF Create, InstanceCall
  <2> QED BY <2>1 DEF After
<1>9. Builds(calls, GpuDrop)
  BY <1>1, <1>5, <1>8 DEF Builds, Closed, ParentOf, GpuDrop, ToSet
<1> QED BY <1>1, <1>2, <1>5, <1>6, <1>7, <1>9 DEF calls

LEMMA UploadedFits ==
    /\ \A n \in 1 .. Len(UploadCalls) : TakesBack(UploadCalls, n)
    /\ Builds(UploadCalls, UploadedDrop)
    /\ {"view", "image"} \subseteq After(UploadCalls, Len(UploadCalls))
<1>1. /\ Len(UploadCalls) = 10
      /\ UploadCalls[1] = Create("image", <<>>) /\ UploadCalls[2] = Ask(<<"image">>)
      /\ UploadCalls[3] = Create("memory", <<"image">>) /\ UploadCalls[4] = Ask(<<"image">>)
      /\ UploadCalls[5] = Create("view", <<"image">>)
  BY DEF UploadCalls
<1>2. /\ UploadCalls[6] = Create("staging", <<"image">>) /\ UploadCalls[7] = Ask(<<"image">>)
      /\ UploadCalls[8] = Create("stagingMemory", <<"image">>) /\ UploadCalls[9] = Ask(<<"image">>)
      /\ UploadCalls[10] = Ask(UploadedDrop)
  BY DEF UploadCalls
<1>3. \A n \in 1 .. 10 : n \in {1, 2, 3, 4, 5, 6, 7, 8, 9, 10}
  OBVIOUS
<1>4. \A n \in 1 .. 10 : UploadCalls[n].takes = {}
  BY <1>1, <1>2, <1>3 DEF Create, Ask
<1>5. /\ "image" \in UploadCalls[1].makes /\ "memory" \in UploadCalls[3].makes
      /\ "view" \in UploadCalls[5].makes /\ "staging" \in UploadCalls[6].makes
      /\ "stagingMemory" \in UploadCalls[8].makes
  BY <1>1, <1>2 DEF Create
<1>6. /\ \A n \in 1 .. 10 : "image" \in After(UploadCalls, n)
      /\ \A n \in 3 .. 10 : "memory" \in After(UploadCalls, n)
      /\ \A n \in 5 .. 10 : "view" \in After(UploadCalls, n)
      /\ \A n \in 6 .. 10 : "staging" \in After(UploadCalls, n)
      /\ \A n \in 8 .. 10 : "stagingMemory" \in After(UploadCalls, n)
  <2>1. \A i \in 1 .. 10 : \A p \in UploadCalls[i].makes : \A n \in i .. 10 : p \in After(UploadCalls, n)
    BY <1>4, AllStay
  <2> QED BY <1>5, <2>1
<1>7. /\ TakesBack(UploadCalls, 1) /\ TakesBack(UploadCalls, 2) /\ TakesBack(UploadCalls, 3)
      /\ TakesBack(UploadCalls, 4) /\ TakesBack(UploadCalls, 5)
  BY <1>1, <1>6, UndosInOrder DEF TakesBack, Closed, ParentOf, Create, Ask, ToSet
<1>8. /\ TakesBack(UploadCalls, 6) /\ TakesBack(UploadCalls, 7) /\ TakesBack(UploadCalls, 8)
      /\ TakesBack(UploadCalls, 9)
  BY <1>2, <1>6, UndosInOrder DEF TakesBack, Closed, ParentOf, Create, Ask, ToSet
<1>9. TakesBack(UploadCalls, 10)
  BY <1>2, <1>6, DropsInOrder DEF TakesBack, Closed, ParentOf, Ask, ToSet, UploadedDrop
<1>10. After(UploadCalls, 10) = {"view", "image", "memory", "staging", "stagingMemory"}
  <2>1. ASSUME NEW i \in 1 .. 10, NEW p \in UploadCalls[i].makes
        PROVE  p \in {"view", "image", "memory", "staging", "stagingMemory"}
    BY <1>1, <1>2, <1>3 DEF Create, Ask
  <2>2. After(UploadCalls, 10) \subseteq {"view", "image", "memory", "staging", "stagingMemory"}
    BY <2>1 DEF After
  <2> QED BY <1>6, <2>2
<1> QED BY <1>1, <1>3, <1>7, <1>8, <1>9, <1>10 DEF Builds, Closed, ParentOf, UploadedDrop, ToSet

LEMMA ImportedFits ==
    /\ \A n \in 1 .. Len(ImportCalls) : TakesBack(ImportCalls, n)
    /\ Builds(ImportCalls, ImportedDrop)
    /\ {"view", "image"} \subseteq After(ImportCalls, Len(ImportCalls))
<1>1. /\ Len(ImportCalls) = 8
      /\ ImportCalls[1] = Create("fd", <<>>) /\ ImportCalls[2] = Ask(<<"fd">>)
      /\ ImportCalls[3] = Ask(<<"fd">>) /\ ImportCalls[4] = Create("image", <<"fd">>)
  BY DEF ImportCalls, ImportLinearCalls
<1>2. /\ ImportCalls[5] = Ask(<<"fd", "image">>)
      /\ ImportCalls[6] = Absorb("memory", "fd", <<"fd", "image">>)
      /\ ImportCalls[7] = Ask(<<"image">>) /\ ImportCalls[8] = Create("view", <<"image", "memory">>)
  BY DEF ImportCalls, ImportLinearCalls
<1>3. \A n \in 1 .. 8 : n \in {1, 2, 3, 4, 5, 6, 7, 8}
  OBVIOUS
<1>4. /\ \A n \in 1 .. 5 : ImportCalls[n].takes = {}
      /\ \A n \in 1 .. 8 : ImportCalls[n].takes \subseteq {"fd"}
      /\ ImportCalls[6].takes = {"fd"}
  BY <1>1, <1>2, <1>3 DEF Create, Ask, Absorb
<1>5. /\ "fd" \in ImportCalls[1].makes /\ "image" \in ImportCalls[4].makes
      /\ "memory" \in ImportCalls[6].makes /\ "view" \in ImportCalls[8].makes
  BY <1>1, <1>2 DEF Create, Absorb
<1>6. /\ \A n \in 1 .. 5 : "fd" \in After(ImportCalls, n)
      /\ \A n \in 4 .. 8 : "image" \in After(ImportCalls, n)
      /\ \A n \in 6 .. 8 : "memory" \in After(ImportCalls, n)
      /\ "view" \in After(ImportCalls, 8)
  <2>1. \A i \in 1 .. 5 : \A p \in ImportCalls[i].makes : \A n \in i .. 5 : p \in After(ImportCalls, n)
    BY <1>4, AllStay
  <2>2. \A i \in 1 .. 8 : \A p \in ImportCalls[i].makes \ {"fd"} : \A n \in i .. 8 :
            p \in After(ImportCalls, n)
    <3>1. \A p : p # "fd" => \A n \in 1 .. 8 : p \notin ImportCalls[n].takes
      BY <1>4
    <3> QED BY <3>1, StaysMade
  <2> QED BY <1>5, <2>1, <2>2
<1>7. /\ TakesBack(ImportCalls, 1) /\ TakesBack(ImportCalls, 2) /\ TakesBack(ImportCalls, 3)
      /\ TakesBack(ImportCalls, 4)
  BY <1>1, <1>6, UndosInOrder DEF TakesBack, Closed, ParentOf, Create, Ask, ToSet
<1>8. /\ TakesBack(ImportCalls, 5) /\ TakesBack(ImportCalls, 6) /\ TakesBack(ImportCalls, 7)
      /\ TakesBack(ImportCalls, 8)
  BY <1>2, <1>6, UndosInOrder DEF TakesBack, Closed, ParentOf, Create, Ask, Absorb, ToSet
<1>9. After(ImportCalls, 8) = {"view", "image", "memory"}
  <2>1. ASSUME NEW i \in 1 .. 8, NEW p \in ImportCalls[i].makes
        PROVE  p \in {"view", "image", "memory", "fd"}
    BY <1>1, <1>2, <1>3 DEF Create, Ask, Absorb
  <2>2. "fd" \notin After(ImportCalls, 8)
    <3>1. "fd" \in UNION {ImportCalls[i].takes : i \in 1 .. 8}
      BY <1>4
    <3> QED BY <3>1 DEF After
  <2>3. After(ImportCalls, 8) \subseteq {"view", "image", "memory"}
    BY <2>1, <2>2 DEF After
  <2> QED BY <1>6, <2>3
<1> QED BY <1>1, <1>3, <1>7, <1>8, <1>9 DEF Builds, Closed, ParentOf, ImportedDrop, ToSet

LEMMA ExportedFits ==
    /\ \A n \in 1 .. Len(ExportCalls) : TakesBack(ExportCalls, n)
    /\ Builds(ExportCalls, ExportedDrop)
<1>1. /\ Len(ExportCalls) = 6
      /\ ExportCalls[1] = Create("image", <<>>) /\ ExportCalls[2] = Ask(<<"image">>)
      /\ ExportCalls[3] = Create("memory", <<"image">>) /\ ExportCalls[4] = Ask(<<"image">>)
      /\ ExportCalls[5] = Ask(<<"image">>) /\ ExportCalls[6] = Create("fd", <<>>)
  BY DEF ExportCalls
<1>2. \A n \in 1 .. 6 : n \in {1, 2, 3, 4, 5, 6}
  OBVIOUS
<1>3. \A n \in 1 .. 6 : ExportCalls[n].takes = {}
  BY <1>1, <1>2 DEF Create, Ask
<1>4. "image" \in ExportCalls[1].makes
  BY <1>1 DEF Create
<1>5. \A n \in 1 .. 6 : "image" \in After(ExportCalls, n)
  <2>1. \A i \in 1 .. 6 : \A p \in ExportCalls[i].makes : \A n \in i .. 6 : p \in After(ExportCalls, n)
    BY <1>3, AllStay
  <2> QED BY <1>4, <2>1
<1>6. /\ TakesBack(ExportCalls, 1) /\ TakesBack(ExportCalls, 2) /\ TakesBack(ExportCalls, 3)
      /\ TakesBack(ExportCalls, 4) /\ TakesBack(ExportCalls, 5) /\ TakesBack(ExportCalls, 6)
  BY <1>1, <1>5, UndosInOrder DEF TakesBack, Closed, ParentOf, Create, Ask, ToSet
<1>7. After(ExportCalls, 6) \subseteq {"image", "memory", "fd"}
  <2>1. ASSUME NEW i \in 1 .. 6, NEW p \in ExportCalls[i].makes
        PROVE  p \in {"image", "memory", "fd"}
    BY <1>1, <1>2 DEF Create, Ask
  <2> QED BY <2>1 DEF After
<1> QED BY <1>1, <1>2, <1>6, <1>7 DEF Builds, Closed, ParentOf, ExportedDrop, ToSet

LEMMA ReadbackFits ==
    LET calls == ReadbackCalls(<<>>, <<"buffer">>)
    IN  /\ \A n \in 1 .. Len(calls) : TakesBack(calls, n)
        /\ Builds(calls, <<"buffer", "bufferMemory">>)
        /\ ToSet(<<"buffer", "bufferMemory">>) = After(calls, Len(calls))
<1> DEFINE calls == ReadbackCalls(<<>>, <<"buffer">>)
<1>1. /\ Len(calls) = 4
      /\ calls[1] = Create("buffer", <<>>) /\ calls[2] = Ask(<<"buffer">>)
      /\ calls[3] = Create("bufferMemory", <<"buffer">>) /\ calls[4] = Ask(<<"buffer">>)
  BY DEF ReadbackCalls
<1> HIDE DEF calls
<1>2. \A n \in 1 .. 4 : n \in {1, 2, 3, 4}
  OBVIOUS
<1>3. \A n \in 1 .. 4 : calls[n].takes = {}
  BY <1>1, <1>2 DEF Create, Ask
<1>4. "buffer" \in calls[1].makes /\ "bufferMemory" \in calls[3].makes
  BY <1>1 DEF Create
<1>5. /\ \A n \in 1 .. 4 : "buffer" \in After(calls, n)
      /\ \A n \in 3 .. 4 : "bufferMemory" \in After(calls, n)
  <2>1. \A i \in 1 .. 4 : \A p \in calls[i].makes : \A n \in i .. 4 : p \in After(calls, n)
    BY <1>3, AllStay
  <2> QED BY <1>4, <2>1
<1>6. TakesBack(calls, 1) /\ TakesBack(calls, 2) /\ TakesBack(calls, 3) /\ TakesBack(calls, 4)
  BY <1>1, <1>5, UndosInOrder DEF TakesBack, Closed, ParentOf, Create, Ask, ToSet
<1>7. After(calls, 4) = {"buffer", "bufferMemory"}
  <2>1. ASSUME NEW i \in 1 .. 4, NEW p \in calls[i].makes
        PROVE  p \in {"buffer", "bufferMemory"}
    BY <1>1, <1>2 DEF Create, Ask
  <2>2. After(calls, 4) \subseteq {"buffer", "bufferMemory"}
    BY <2>1 DEF After
  <2> QED BY <1>5, <2>2
<1>8. Builds(calls, <<"buffer", "bufferMemory">>)
  BY <1>1, <1>7 DEF Builds, Closed, ParentOf, ToSet
<1>9. ToSet(<<"buffer", "bufferMemory">>) = After(calls, Len(calls))
  BY <1>1, <1>7 DEF ToSet
<1> QED BY <1>1, <1>2, <1>6, <1>8, <1>9 DEF calls

\* Each of the pipelines' parts is made after the one it needs.
LEMMA PipelinesFit ==
    /\ \A n \in 1 .. Len(PipelinesCalls) : TakesBack(PipelinesCalls, n)
    /\ Builds(PipelinesCalls, PipelinesDrop)
<1> DEFINE order == <<"module", "setLayout", "layout", "nearest", "linear", "textured",
                      "solid", "descriptorPool">>
           before(n) == {order[j] : j \in 1 .. n - 1}
<1>1. /\ Len(order) = 8 /\ Len(PipelinesCalls) = 8
      /\ \A n \in 1 .. 8 : PipelinesCalls[n] = Create(order[n], Sift(PipelinesDrop, before(n)))
  BY DEF PipelinesCalls
<1>2. \A n \in 1 .. 8 : order[n] \in ToSet(PipelinesDrop)
  BY DEF PipelinesDrop, ToSet
<1>3. \A n \in 1 .. 8 : order[n] \in DOMAIN ParentOf =>
          \E j \in 1 .. n - 1 : order[j] = ParentOf[order[n]]
  BY DEF ParentOf
<1> HIDE DEF order
<1>4. \A n \in 1 .. 8 : PipelinesCalls[n].makes = {order[n]} /\ PipelinesCalls[n].takes = {}
  BY <1>1 DEF Create
<1>5. ASSUME NEW n \in 0 .. 8
      PROVE  After(PipelinesCalls, n) = {order[j] : j \in 1 .. n}
  <2>1. \A i \in 1 .. n : i \in 1 .. 8
    OBVIOUS
  <2> QED BY <1>4, <2>1 DEF After
<1>6. ASSUME NEW n \in 0 .. 8
      PROVE  Closed(After(PipelinesCalls, n)) /\ After(PipelinesCalls, n) \subseteq ToSet(PipelinesDrop)
  <2>1. ASSUME NEW i \in 1 .. n, order[i] \in DOMAIN ParentOf
        PROVE  \E j \in 1 .. n : order[j] = ParentOf[order[i]]
    <3>1. i \in 1 .. 8 /\ \A j \in 1 .. i - 1 : j \in 1 .. n
      OBVIOUS
    <3> QED BY <1>3, <2>1, <3>1
  <2>2. \A i \in 1 .. n : i \in 1 .. 8
    OBVIOUS
  <2>3. Closed(After(PipelinesCalls, n))
    BY <1>5, <2>1 DEF Closed
  <2> QED BY <1>2, <1>5, <2>2, <2>3
<1>7. ASSUME NEW n \in 1 .. 8
      PROVE  TakesBack(PipelinesCalls, n)
  <2>1. n - 1 \in 0 .. 8 /\ before(n) = After(PipelinesCalls, n - 1)
    BY <1>5
  <2>2. PipelinesCalls[n].undo = Sift(PipelinesDrop, After(PipelinesCalls, n - 1))
    <3>1. PipelinesCalls[n] = Create(order[n], Sift(PipelinesDrop, before(n)))
      BY <1>1
    <3> HIDE DEF before
    <3>2. PipelinesCalls[n] = Create(order[n], Sift(PipelinesDrop, After(PipelinesCalls, n - 1)))
      BY <2>1, <3>1
    <3> QED BY <3>2 DEF Create
  <2> HIDE DEF before
  <2>3. InOrder(PipelinesDrop)
    BY DropsInOrder
  <2>4. /\ InOrder(PipelinesCalls[n].undo)
        /\ ToSet(PipelinesCalls[n].undo) = ToSet(PipelinesDrop) \cap After(PipelinesCalls, n - 1)
    BY <2>2, <2>3, SiftInOrder
  <2> QED BY <1>6, <2>1, <2>4 DEF TakesBack, Closed
<1> QED BY <1>1, <1>6, <1>7 DEF Builds

\* Whatever it is that is built: what a refused call takes back can go, and what
\* the calls make together is what the Drop is for.
CallsFit(k, calls) ==
    /\ Len(calls) \in Nat
    /\ \A n \in 1 .. Len(calls) : TakesBack(calls, n)
    /\ Builds(calls, DropOf[k])
    /\ k = "gpu" => "device" \in After(calls, Len(calls))
    /\ k \in {"imported", "uploaded"} => {"view", "image"} \subseteq After(calls, Len(calls))
    /\ k \in {"owned", "readback"} => ToSet(DropOf[k]) = After(calls, Len(calls))

LEMMA AllFit ==
    /\ \A k \in Kinds, validated \in BOOLEAN : CallsFit(k, CallsOf(k, validated))
    /\ \A k \in Kinds : InOrder(DropOf[k])
<1>1. /\ DropOf["gpu"] = GpuDrop /\ DropOf["pipelines"] = PipelinesDrop
      /\ DropOf["owned"] = TargetDrop /\ DropOf["imported"] = ImportedDrop
      /\ DropOf["uploaded"] = UploadedDrop /\ DropOf["exported"] = ExportedDrop
      /\ DropOf["readback"] = <<"buffer", "bufferMemory">>
  BY DEF DropOf
<1>2. \A k \in Kinds : InOrder(DropOf[k])
  BY <1>1, DropsInOrder DEF Kinds
<1>3. SUFFICES ASSUME NEW k \in Kinds, NEW validated \in BOOLEAN
               PROVE  CallsFit(k, CallsOf(k, validated))
  BY <1>2
<1>4. CASE k = "gpu"
  <2>1. CallsOf(k, validated) = GpuCalls(validated)
    BY <1>4 DEF CallsOf
  <2>2. Len(GpuCalls(validated)) \in Nat
    BY DEF GpuCalls
  <2> QED BY <1>1, <1>4, <2>1, <2>2, GpuFits DEF CallsFit
<1>5. CASE k = "pipelines"
  <2>1. CallsOf(k, validated) = PipelinesCalls
    BY <1>5 DEF CallsOf
  <2>2. Len(PipelinesCalls) \in Nat
    BY DEF PipelinesCalls
  <2> QED BY <1>1, <1>5, <2>1, <2>2, PipelinesFit DEF CallsFit
<1>6. CASE k = "owned"
  <2>1. CallsOf(k, validated) = OwnedCalls
    BY <1>6 DEF CallsOf
  <2>2. Len(OwnedCalls) \in Nat
    BY DEF OwnedCalls
  <2> QED BY <1>1, <1>6, <2>1, <2>2, OwnedFits DEF CallsFit
<1>7. CASE k = "imported"
  <2>1. CallsOf(k, validated) = ImportCalls
    BY <1>7 DEF CallsOf
  <2>2. Len(ImportCalls) \in Nat
    BY DEF ImportCalls
  <2> QED BY <1>1, <1>7, <2>1, <2>2, ImportedFits DEF CallsFit
<1>8. CASE k = "uploaded"
  <2>1. CallsOf(k, validated) = UploadCalls
    BY <1>8 DEF CallsOf
  <2>2. Len(UploadCalls) \in Nat
    BY DEF UploadCalls
  <2> QED BY <1>1, <1>8, <2>1, <2>2, UploadedFits DEF CallsFit
<1>9. CASE k = "readback"
  <2>1. CallsOf(k, validated) = ReadbackCalls(<<>>, <<"buffer">>)
    BY <1>9 DEF CallsOf
  <2>2. Len(ReadbackCalls(<<>>, <<"buffer">>)) \in Nat
    BY DEF ReadbackCalls
  <2> QED BY <1>1, <1>9, <2>1, <2>2, ReadbackFits DEF CallsFit
<1>10. CASE k = "exported"
  <2>1. CallsOf(k, validated) = ExportCalls
    BY <1>10 DEF CallsOf
  <2>2. Len(ExportCalls) \in Nat
    BY DEF ExportCalls
  <2> QED BY <1>1, <1>10, <2>1, <2>2, ExportedFits DEF CallsFit
<1> QED BY <1>4, <1>5, <1>6, <1>7, <1>8, <1>9, <1>10 DEF Kinds

-----------------------------------------------------------------------------
(* What can go one after the other.                                        *)

LEMMA OfThing ==
    ASSUME NEW t \in Thing, NEW u \in Seq(Parts)
    PROVE  /\ Of(t, u) \in Seq(Object) /\ Len(Of(t, u)) = Len(u)
           /\ DOMAIN Of(t, u) = DOMAIN u /\ \A i \in DOMAIN u : Of(t, u)[i] = <<t, u[i]>>
           /\ ToSet(Of(t, u)) = {<<t, p>> : p \in ToSet(u)}
<1>1. DOMAIN u = 1 .. Len(u) /\ Len(u) \in Nat /\ \A i \in DOMAIN u : u[i] \in Parts
  OBVIOUS
<1>2. Of(t, u) = [i \in 1 .. Len(u) |-> <<t, u[i]>>]
  BY <1>1 DEF Of
<1>3. \A i \in 1 .. Len(u) : <<t, u[i]>> \in Object
  BY <1>1 DEF Object
<1>4. Of(t, u) \in Seq(Object) /\ Len(Of(t, u)) = Len(u)
  BY <1>1, <1>2, <1>3
<1> QED BY <1>1, <1>2, <1>4 DEF ToSet

\* The parts of one thing, in order, can go, if nothing else needs the device.
LEMMA OneThingGoes ==
    ASSUME NEW t \in Thing, NEW u, InOrder(u), NEW objs \in SUBSET Object,
           {x \in objs : x[1] = t} = {<<t, p>> : p \in ToSet(u)},
           t = "gpu" => \A x \in objs : x[1] = "gpu" \/ x[2] = "fd"
    PROVE  GoodDrop(Of(t, u), objs)
<1>1. u \in Seq(Parts) /\ DOMAIN u = 1 .. Len(u) /\ Len(u) \in Nat
  BY DEF InOrder
<1>2. /\ Of(t, u) \in Seq(Object) /\ DOMAIN Of(t, u) = DOMAIN u
      /\ \A i \in DOMAIN u : Of(t, u)[i] = <<t, u[i]>>
      /\ ToSet(Of(t, u)) = {<<t, p>> : p \in ToSet(u)}
  BY <1>1, OfThing
<1>3. IsInjective(Of(t, u))
  BY <1>2 DEF InOrder, IsInjective
<1>4. ASSUME NEW j \in DOMAIN u, NEW x \in objs, Needs(x, <<t, u[j]>>)
      PROVE  \E i \in 1 .. j - 1 : Of(t, u)[i] = x
  <2>1. x = <<x[1], x[2]>>
    BY DEF Object
  <2>2. CASE x[2] \in DOMAIN ParentOf /\ <<t, u[j]>> = <<x[1], ParentOf[x[2]]>>
    <3>1. x[1] = t /\ u[j] = ParentOf[x[2]]
      BY <2>2
    <3>2. x \in {<<t, p>> : p \in ToSet(u)}
      BY <3>1
    <3>3. PICK i \in DOMAIN u : x[2] = u[i]
      BY <2>1, <3>2 DEF ToSet
    <3>4. i < j
      BY <2>2, <3>1, <3>3 DEF InOrder
    <3>5. Of(t, u)[i] = x
      BY <1>2, <2>1, <3>1, <3>3
    <3> QED BY <1>1, <3>4, <3>5
  <2>3. CASE x[1] # "gpu" /\ x[2] # "fd" /\ <<t, u[j]>> = <<"gpu", "device">>
    BY <2>3
  <2> QED BY <1>4, <2>2, <2>3 DEF Needs
<1>5. ToSet(Of(t, u)) \subseteq objs
  BY <1>2
<1>6. \A j \in DOMAIN Of(t, u) : Of(t, u)[j] = <<t, u[j]>>
  BY <1>2
<1>7. \A j \in DOMAIN Of(t, u) : \A x \in objs :
          Needs(x, Of(t, u)[j]) => \E i \in 1 .. j - 1 : Of(t, u)[i] = x
  BY <1>2, <1>4, <1>6
<1> QED BY <1>2, <1>3, <1>5, <1>7 DEF GoodDrop

\* First these, then those.
LEMMA BothGo ==
    ASSUME NEW objs, NEW rest, NEW d, NEW e, rest = objs \ ToSet(d),
           GoodDrop(d, objs), GoodDrop(e, rest)
    PROVE  GoodDrop(d \o e, objs) /\ ToSet(d \o e) = ToSet(d) \cup ToSet(e)
<1> DEFINE w == d \o e
<1>1. d \in Seq(Object) /\ e \in Seq(Object)
  BY DEF GoodDrop
<1>2. /\ Len(d) \in Nat /\ Len(e) \in Nat /\ DOMAIN d = 1 .. Len(d) /\ DOMAIN e = 1 .. Len(e)
  BY <1>1
<1>3. /\ w \in Seq(Object) /\ Len(w) = Len(d) + Len(e)
      /\ \A i \in 1 .. Len(d) + Len(e) : w[i] = IF i <= Len(d) THEN d[i] ELSE e[i - Len(d)]
  BY <1>1, ConcatProperties
<1> HIDE DEF w
<1>4. DOMAIN w = 1 .. Len(d) + Len(e)
  BY <1>3
<1>5. /\ \A i \in 1 .. Len(d) : i \in DOMAIN w /\ w[i] = d[i]
      /\ \A i \in 1 .. Len(e) : i + Len(d) \in DOMAIN w /\ w[i + Len(d)] = e[i]
  <2>1. ASSUME NEW i \in 1 .. Len(e)
        PROVE  i + Len(d) \in DOMAIN w /\ w[i + Len(d)] = e[i]
    <3>1. i + Len(d) \in DOMAIN w /\ ~ (i + Len(d) <= Len(d)) /\ (i + Len(d)) - Len(d) = i
      BY <1>2, <1>4
    <3> QED BY <1>3, <1>4, <3>1
  <2> QED BY <1>2, <1>3, <1>4, <2>1
<1>6. ASSUME NEW i \in DOMAIN w
      PROVE  \/ i \in 1 .. Len(d) /\ w[i] = d[i] /\ w[i] \in ToSet(d)
             \/ /\ i - Len(d) \in 1 .. Len(e) /\ w[i] = e[i - Len(d)]
                /\ w[i] \in ToSet(e) /\ ~ (i <= Len(d))
  <2>1. CASE i <= Len(d)
    BY <1>2, <1>3, <1>4, <2>1 DEF ToSet
  <2>2. CASE ~ (i <= Len(d))
    <3>1. i - Len(d) \in 1 .. Len(e) /\ w[i] = e[i - Len(d)]
      BY <1>2, <1>3, <1>4, <2>2
    <3> QED BY <1>2, <2>2, <3>1 DEF ToSet
  <2> QED BY <2>1, <2>2
<1>7. ToSet(w) = ToSet(d) \cup ToSet(e)
  <2>1. ToSet(w) \subseteq ToSet(d) \cup ToSet(e)
    BY <1>6 DEF ToSet
  <2>2. ToSet(d) \cup ToSet(e) \subseteq ToSet(w)
    BY <1>2, <1>5 DEF ToSet
  <2> QED BY <2>1, <2>2
<1>8. /\ ToSet(d) \subseteq objs /\ ToSet(e) \subseteq objs \ ToSet(d)
      /\ IsInjective(d) /\ IsInjective(e)
  BY DEF GoodDrop
<1>9. IsInjective(w)
  <2>1. SUFFICES ASSUME NEW i \in DOMAIN w, NEW j \in DOMAIN w, w[i] = w[j]
                 PROVE  i = j
    BY DEF IsInjective
  <2>2. CASE i \in 1 .. Len(d) /\ w[i] = d[i] /\ w[i] \in ToSet(d)
    <3>1. j \in 1 .. Len(d) /\ w[j] = d[j]
      BY <1>6, <1>8, <2>1, <2>2
    <3> QED BY <1>2, <1>8, <2>1, <2>2, <3>1 DEF IsInjective
  <2>3. CASE i - Len(d) \in 1 .. Len(e) /\ w[i] = e[i - Len(d)] /\ w[i] \in ToSet(e)
    <3>1. j - Len(d) \in 1 .. Len(e) /\ w[j] = e[j - Len(d)]
      BY <1>6, <1>8, <2>1, <2>3
    <3>2. i - Len(d) = j - Len(d)
      BY <1>2, <1>8, <2>1, <2>3, <3>1 DEF IsInjective
    <3> QED BY <1>2, <1>4, <3>2
  <2> QED BY <1>6, <2>2, <2>3
<1>10. ASSUME NEW j \in DOMAIN w, NEW x \in objs, Needs(x, w[j])
       PROVE  \E i \in 1 .. j - 1 : w[i] = x
  <2>1. CASE j \in 1 .. Len(d) /\ w[j] = d[j]
    <3>1. PICK i \in 1 .. j - 1 : d[i] = x
      BY <1>2, <1>10, <2>1 DEF GoodDrop
    <3>2. i \in 1 .. Len(d)
      BY <1>2, <2>1
    <3> QED BY <1>5, <3>1, <3>2
  <2>2. CASE j - Len(d) \in 1 .. Len(e) /\ w[j] = e[j - Len(d)] /\ ~ (j <= Len(d))
    <3>1. CASE x \in ToSet(d)
      <4>1. PICK i \in 1 .. Len(d) : d[i] = x
        BY <1>2, <3>1 DEF ToSet
      <4>2. i \in 1 .. j - 1
        BY <1>2, <1>4, <2>2
      <4> QED BY <1>5, <4>1, <4>2
    <3>2. CASE x \notin ToSet(d)
      <4>1. PICK i \in 1 .. (j - Len(d)) - 1 : e[i] = x
        BY <1>2, <1>10, <2>2, <3>2 DEF GoodDrop
      <4>2. i \in 1 .. Len(e) /\ i + Len(d) \in 1 .. j - 1
        BY <1>2, <1>4, <2>2
      <4> QED BY <1>5, <4>1, <4>2
    <3> QED BY <3>1, <3>2
  <2> QED BY <1>6, <2>1, <2>2
<1>11. GoodDrop(w, objs)
  BY <1>3, <1>7, <1>8, <1>9, <1>10 DEF GoodDrop
<1> QED BY <1>7, <1>11 DEF w

\* The things drop one after the other, each its parts that exist; the device
\* may be the last of them.
LEMMA ThingsGo ==
    ASSUME NEW things, things \in Seq(Thing), IsInjective(things), objects \in SUBSET Object,
           \A i \in DOMAIN things : kind[things[i]] \in Kinds,
           \A i \in DOMAIN things : \A x \in objects :
               x[1] = things[i] => x[2] \in ToSet(DropOf[kind[things[i]]]),
           \A i \in DOMAIN things : things[i] = "gpu" => \A x \in objects :
               x[1] = "gpu" \/ x[2] = "fd" \/ \E j \in 1 .. i - 1 : things[j] = x[1]
    PROVE  /\ GoodDrop(DropDirectly(things), objects)
           /\ ToSet(DropDirectly(things)) = {x \in objects : x[1] \in ToSet(things)}
<1> DEFINE left(t) == {p \in Parts : <<t, p>> \in objects}
           one(t) == Sift(DropOf[kind[t]], left(t))
           lists == [i \in DOMAIN things |-> Of(things[i], one(things[i]))]
<1>1. /\ Len(things) \in Nat /\ DOMAIN things = 1 .. Len(things)
      /\ \A i \in 1 .. Len(things) : things[i] \in Thing
  OBVIOUS
<1>2. ASSUME NEW i \in 1 .. Len(things)
      PROVE  /\ InOrder(one(things[i])) /\ one(things[i]) \in Seq(Parts)
             /\ ToSet(one(things[i])) = left(things[i])
  <2> DEFINE t == things[i]
  <2>1. kind[t] \in Kinds /\ t \in Thing
    BY <1>1
  <2>2. InOrder(DropOf[kind[t]])
    BY <2>1, AllFit
  <2>3. left(t) \subseteq ToSet(DropOf[kind[t]])
    BY <1>1
  <2> HIDE DEF t, left
  <2>4. InOrder(one(t)) /\ ToSet(one(t)) = ToSet(DropOf[kind[t]]) \cap left(t)
    BY <2>2, SiftInOrder
  <2> QED BY <2>3, <2>4 DEF InOrder, t
<1>3. DropDirectly(things) = Chained(lists)
  BY DEF DropDirectly
<1> HIDE DEF one
<1>4. /\ lists \in Seq(Seq(Object)) /\ Len(lists) = Len(things)
      /\ \A i \in 1 .. Len(things) : lists[i] = Of(things[i], one(things[i]))
  <2>1. \A i \in 1 .. Len(things) : Of(things[i], one(things[i])) \in Seq(Object)
    BY <1>1, <1>2, OfThing
  <2>2. lists = [i \in 1 .. Len(things) |-> Of(things[i], one(things[i]))]
    BY <1>1
  <2> QED BY <1>1, <2>1, <2>2
<1> HIDE DEF lists
<1>5. PICK k : Chains(k, lists) /\ Chained(lists) = k[Len(lists)]
  BY <1>4, ChainedChains
<1> DEFINE went(n) == {x \in objects : \E i \in 1 .. n : things[i] = x[1]}
           G == {n \in 0 .. Len(things) : GoodDrop(k[n], objects) /\ ToSet(k[n]) = went(n)}
<1>6. 0 \in G
  <2>1. k[0] = <<>>
    BY <1>5 DEF Chains
  <2>2. GoodDrop(<<>>, objects)
    BY DEF GoodDrop, IsInjective, ToSet
  <2>3. ToSet(<<>>) = {} /\ went(0) = {}
    BY DEF ToSet
  <2> QED BY <1>1, <2>1, <2>2, <2>3
<1>7. ASSUME NEW n \in 0 .. Len(things), n # Len(things), n \in G
      PROVE  n + 1 \in G
  <2> DEFINE t == things[n + 1]
             rest == objects \ ToSet(k[n])
  <2>1. n + 1 \in 1 .. Len(things) /\ (n + 1) - 1 = n /\ n \in Nat
    BY <1>1, <1>7
  <2>2. k[n + 1] = k[n] \o Of(t, one(t))
    BY <1>4, <1>5, <2>1 DEF Chains
  <2>3. t \in Thing /\ InOrder(one(t)) /\ one(t) \in Seq(Parts) /\ ToSet(one(t)) = left(t)
    BY <1>1, <1>2, <2>1
  <2>4. GoodDrop(k[n], objects) /\ ToSet(k[n]) = went(n)
    BY <1>7
  <2>5. {x \in rest : x[1] = t} = {<<t, p>> : p \in left(t)}
    <3>1. \A i \in 1 .. n : things[i] # t
      BY <1>1, <2>1 DEF IsInjective
    <3>2. \A x \in objects : x[1] = t => x \in rest
      BY <2>4, <3>1
    <3>3. \A x \in objects : x = <<x[1], x[2]>> /\ x[2] \in Parts
      BY DEF Object
    <3> QED BY <3>2, <3>3
  <2>6. t = "gpu" => \A x \in rest : x[1] = "gpu" \/ x[2] = "fd"
    <3>1. t = "gpu" => \A x \in objects : x[1] = "gpu" \/ x[2] = "fd" \/ \E j \in 1 .. n : things[j] = x[1]
      BY <1>1, <2>1
    <3> QED BY <2>4, <3>1
  <2>7. GoodDrop(Of(t, one(t)), rest) /\ ToSet(Of(t, one(t))) = {<<t, p>> : p \in left(t)}
    <3>1. rest \in SUBSET Object
      OBVIOUS
    <3> HIDE DEF t, rest, left
    <3> QED BY <2>3, <2>5, <2>6, <3>1, OneThingGoes, OfThing
  <2>8. /\ GoodDrop(k[n] \o Of(t, one(t)), objects)
        /\ ToSet(k[n] \o Of(t, one(t))) = ToSet(k[n]) \cup ToSet(Of(t, one(t)))
    <3>1. GoodDrop(k[n], objects) /\ GoodDrop(Of(t, one(t)), objects \ ToSet(k[n]))
      BY <2>4, <2>7
    <3> HIDE DEF t
    <3>2. PICK objs : objs = objects
      OBVIOUS
    <3>3. PICK d, e, remaining : d = k[n] /\ e = Of(t, one(t)) /\ remaining = objs \ ToSet(d)
      OBVIOUS
    <3>4. GoodDrop(d, objs) /\ GoodDrop(e, remaining)
      BY <3>1, <3>2, <3>3
    <3>5. GoodDrop(d \o e, objs) /\ ToSet(d \o e) = ToSet(d) \cup ToSet(e)
      BY <3>3, <3>4, BothGo
    <3> QED BY <3>2, <3>3, <3>5
  <2>9. ToSet(k[n + 1]) = went(n + 1)
    <3>1. went(n + 1) = went(n) \cup {x \in objects : x[1] = t}
      <4>1. 1 .. n + 1 = (1 .. n) \cup {n + 1}
        BY <2>1
      <4> QED BY <4>1
    <3>2. {x \in objects : x[1] = t} = {<<t, p>> : p \in left(t)}
      <4>1. \A x \in objects : x = <<x[1], x[2]>> /\ x[2] \in Parts
        BY DEF Object
      <4> QED BY <4>1
    <3> HIDE DEF t, left, went
    <3> QED BY <2>2, <2>4, <2>7, <2>8, <3>1, <3>2
  <2>10. GoodDrop(k[n + 1], objects)
    BY <2>2, <2>8
  <2>11. n + 1 \in 0 .. Len(things)
    BY <2>1
  <2> HIDE DEF t, left, went
  <2> QED BY <2>9, <2>10, <2>11
<1> HIDE DEF G
<1>8. Len(things) \in G
  <2>1. \A n \in 0 .. Len(things) : n # Len(things) /\ n \in G => n + 1 \in G
    BY <1>7
  <2>2. 0 .. Len(things) \subseteq G
    BY <1>1, <1>6, <2>1, UpTo
  <2> QED BY <1>1, <2>2
<1>9. went(Len(things)) = {x \in objects : x[1] \in ToSet(things)}
  BY <1>1 DEF ToSet
<1> QED BY <1>3, <1>4, <1>5, <1>8, <1>9 DEF G

-----------------------------------------------------------------------------
(* The steps.                                                              *)

LEMMA NothingIsEmpty == ToSet(<<>>) = {}
  BY DEF ToSet

LEMMA EmptyGoes == \A objs : GoodDrop(<<>>, objs)
  BY DEF GoodDrop, IsInjective, ToSet

LEMMA ThingsAre ==
    /\ {"gpu", "pipes", "bound", "scratch", "readback", "export"} \subseteq Thing
    /\ Tex \subseteq Thing /\ Thing = Fittings \cup Tex
    /\ \A t \in Tex : t \notin {"gpu", "pipes", "bound", "scratch", "readback", "export", "none"}
  BY KasaneAssumption DEF Thing, Fittings

\* With nothing dying, a thing that is not there has no object.
LEMMA NoObjectsOfNothing ==
    ASSUME ObjectsHold, NoneDying
    PROVE  \A x \in objects : kind[x[1]] # "none"
  BY NothingIsEmpty DEF ObjectsHold, PartsStand, NoneDying

\* A constructor whose calls all succeed.
LEMMA BuiltHolds ==
    ASSUME ObjectsHold, NoneDying, NEW t \in Thing, NEW k \in Kinds, NEW validated \in BOOLEAN,
           Built(t, k, validated), dying' = dying, kind[t] = "none",
           \/ (t = "gpu" /\ k = "gpu") \/ (t = "pipes" /\ k = "pipelines")
           \/ (t = "bound" /\ k = "imported") \/ (t = "export" /\ k = "exported")
           \/ (t \in Tex /\ k \in {"imported", "uploaded"}),
           t # "gpu" => /\ kind["gpu"] = "gpu" /\ renderer' = renderer
                        /\ t = "pipes" \/ kind["pipes"] # "none"
    PROVE  ObjectsHold'
<1> DEFINE made == After(CallsOf(k, validated), Len(CallsOf(k, validated)))
<1>1. /\ kind' = [kind EXCEPT ![t] = k]
      /\ objects' = objects \cup {<<t, p>> : p \in made}
  BY DEF Built
<1>2. CallsFit(k, CallsOf(k, validated)) /\ InOrder(DropOf[k])
  BY AllFit
<1>3. /\ Closed(made) /\ made \subseteq ToSet(DropOf[k])
      /\ k = "gpu" => "device" \in made
      /\ k \in {"imported", "uploaded"} => {"view", "image"} \subseteq made
  BY <1>2 DEF CallsFit, Builds
<1>4. made \subseteq Parts
  <2>1. \A i \in DOMAIN DropOf[k] : DropOf[k][i] \in Parts
    BY <1>2 DEF InOrder
  <2> QED BY <1>3, <2>1 DEF ToSet
<1> HIDE DEF made
<1>5. /\ objects \in SUBSET Object /\ KindsFit /\ PartsStand /\ DeviceStands
      /\ \A x \in objects, p \in Object : Needs(x, p) => p \in objects
      /\ kind \in [Thing -> Kinds \cup {"none"}]
  BY DEF ObjectsHold, KindsFit
<1>6. kind' \in [Thing -> Kinds \cup {"none"}] /\ kind'[t] = k /\ \A s \in Thing \ {t} : kind'[s] = kind[s]
  BY <1>1, <1>5
<1>7. k # "none"
  BY DEF Kinds
<1>8. objects' \in SUBSET Object
  BY <1>1, <1>4, <1>5 DEF Object
<1>9. \A x \in objects : x[1] # t /\ x[1] \in Thing
  BY <1>5, NoObjectsOfNothing DEF Object
<1>10. ASSUME NEW x \in objects', NEW p \in Object, Needs(x, p)
       PROVE  p \in objects'
  <2>1. CASE x \in objects
    BY <1>1, <1>5, <1>10, <2>1
  <2>2. CASE x \notin objects
    <3>1. PICK q \in made : x = <<t, q>>
      BY <1>1, <1>10, <2>2
    <3>2. CASE q \in DOMAIN ParentOf /\ p = <<t, ParentOf[q]>>
      BY <1>1, <1>3, <3>2 DEF Closed
    <3>3. CASE t # "gpu" /\ p = <<"gpu", "device">>
      BY <1>1, <1>5, <3>3 DEF PartsStand
    <3> QED BY <1>10, <3>1, <3>2, <3>3 DEF Needs
  <2> QED BY <2>1, <2>2
<1>11. KindsFit'
  BY <1>5, <1>6, ThingsAre DEF KindsFit
<1>12. PartsStand'
  <2>1. kind'["gpu"] = "gpu" => <<"gpu", "device">> \in objects'
    BY <1>1, <1>3, <1>5, <1>6, ThingsAre DEF PartsStand
  <2>2. ASSUME NEW s \in Thing, kind'[s] \in {"imported", "uploaded"}
        PROVE  <<s, "view">> \in objects' /\ <<s, "image">> \in objects'
    BY <1>1, <1>3, <1>5, <1>6, <2>2 DEF PartsStand
  <2>3. dying' = <<>>
    BY DEF NoneDying
  <2>4. ASSUME NEW x \in objects'
        PROVE  kind'[x[1]] # "none" /\ x[2] \in ToSet(DropOf[kind'[x[1]]])
    <3>1. CASE x \in objects
      <4>1. kind[x[1]] # "none" /\ x[2] \in ToSet(DropOf[kind[x[1]]])
        BY <1>5, <3>1, NoObjectsOfNothing DEF PartsStand
      <4> QED BY <1>6, <1>9, <3>1, <4>1
    <3>2. CASE x \notin objects
      BY <1>1, <1>3, <1>6, <1>7, <2>4, <3>2
    <3> QED BY <3>1, <3>2
  <2> QED BY <2>1, <2>2, <2>3, <2>4, NothingIsEmpty DEF PartsStand
<1>13. DeviceStands'
  <2>1. CASE t = "gpu"
    <3>1. \A s \in Thing : kind[s] = "none"
      BY <1>5, <2>1 DEF DeviceStands
    <3> QED BY <1>6, <2>1, <3>1, ThingsAre DEF DeviceStands
  <2>2. CASE t # "gpu"
    BY <1>5, <1>6, <1>7, <2>2, ThingsAre DEF DeviceStands
  <2> QED BY <2>1, <2>2
<1>14. GoodDrop(dying', objects')
  BY EmptyGoes DEF NoneDying
<1> QED BY <1>8, <1>10, <1>11, <1>12, <1>13, <1>14 DEF ObjectsHold

\* Parts of a thing that will not stand are made, and all of them go.
LEMMA MadeToGo ==
    ASSUME ObjectsHold, NoneDying, NEW t \in Thing, NEW u, InOrder(u), Closed(ToSet(u)),
           kind[t] = "none", t # "gpu" => kind["gpu"] = "gpu",
           objects' = objects \cup {<<t, p>> : p \in ToSet(u)},
           dying' = Of(t, u), kind' = kind, renderer' = renderer
    PROVE  ObjectsHold'
<1>1. /\ objects \in SUBSET Object /\ KindsFit /\ PartsStand /\ DeviceStands
      /\ \A x \in objects, p \in Object : Needs(x, p) => p \in objects
      /\ kind \in [Thing -> Kinds \cup {"none"}]
  BY DEF ObjectsHold, KindsFit
<1>2. u \in Seq(Parts) /\ ToSet(u) \subseteq Parts
  BY DEF InOrder, ToSet
<1>3. ToSet(dying') = {<<t, p>> : p \in ToSet(u)}
  BY <1>2, OfThing
<1>4. objects' \in SUBSET Object
  BY <1>1, <1>2 DEF Object
<1>5. \A x \in objects : x[1] # t /\ x[1] \in Thing /\ kind[x[1]] # "none"
  BY <1>1, NoObjectsOfNothing DEF Object
<1>6. ASSUME NEW x \in objects', NEW p \in Object, Needs(x, p)
      PROVE  p \in objects'
  <2>1. CASE x \in objects
    BY <1>1, <1>6, <2>1
  <2>2. CASE x \notin objects
    <3>1. PICK q \in ToSet(u) : x = <<t, q>>
      BY <1>6, <2>2
    <3>2. CASE q \in DOMAIN ParentOf /\ p = <<t, ParentOf[q]>>
      BY <3>2 DEF Closed
    <3>3. CASE t # "gpu" /\ p = <<"gpu", "device">>
      BY <1>1, <3>3 DEF PartsStand
    <3> QED BY <1>6, <3>1, <3>2, <3>3 DEF Needs
  <2> QED BY <2>1, <2>2
<1>7. GoodDrop(dying', objects')
  <2>1. {x \in objects' : x[1] = t} = {<<t, p>> : p \in ToSet(u)}
    BY <1>5
  <2>2. t = "gpu" => \A x \in objects' : x[1] = "gpu" \/ x[2] = "fd"
    <3>1. t = "gpu" => objects = {}
      BY <1>1, <1>5 DEF DeviceStands
    <3> QED BY <3>1
  <2>3. PICK objs : objs = objects'
    OBVIOUS
  <2>4. GoodDrop(Of(t, u), objs)
    BY <1>4, <2>1, <2>2, <2>3, OneThingGoes
  <2> QED BY <2>3, <2>4
<1>8. PartsStand'
  <2>1. kind["gpu"] = "gpu" => <<"gpu", "device">> \in objects'
    BY <1>1 DEF PartsStand
  <2>2. \A s \in Thing : kind[s] \in {"imported", "uploaded"} =>
            <<s, "view">> \in objects' /\ <<s, "image">> \in objects'
    BY <1>1 DEF PartsStand
  <2>3. ASSUME NEW x \in objects'
        PROVE  IF kind[x[1]] = "none" THEN x \in ToSet(dying')
               ELSE x \notin ToSet(dying') /\ x[2] \in ToSet(DropOf[kind[x[1]]])
    <3>1. CASE x \in objects
      <4>1. x \notin ToSet(dying') /\ kind[x[1]] # "none"
        BY <1>3, <1>5, <3>1
      <4> QED BY <1>1, <3>1, <4>1 DEF PartsStand
    <3>2. CASE x \notin objects
      BY <1>3, <2>3, <3>2
    <3> QED BY <3>1, <3>2
  <2> QED BY <2>1, <2>2, <2>3 DEF PartsStand
<1>9. KindsFit' /\ DeviceStands'
  BY <1>1 DEF KindsFit, DeviceStands
<1> QED BY <1>4, <1>6, <1>7, <1>8, <1>9 DEF ObjectsHold

\* A constructor the driver refuses a call of.
LEMMA RefusedHolds ==
    ASSUME ObjectsHold, NoneDying, NEW t \in Thing, NEW k \in Kinds, NEW validated \in BOOLEAN,
           Refused(t, k, validated), kind[t] = "none", t # "gpu" => kind["gpu"] = "gpu",
           renderer' = renderer
    PROVE  ObjectsHold'
<1> DEFINE calls == CallsOf(k, validated)
<1>1. PICK n \in 1 .. Len(calls) :
         /\ objects' = objects \cup {<<t, p>> : p \in After(calls, n - 1) \cap ToSet(calls[n].undo)}
         /\ dying' = Of(t, calls[n].undo)
  BY DEF Refused
<1>2. kind' = kind
  BY DEF Refused
<1> HIDE DEF calls
<1>3. CallsFit(k, calls)
  BY AllFit DEF calls
<1>4. TakesBack(calls, n)
  BY <1>3 DEF CallsFit
<1>5. /\ InOrder(calls[n].undo) /\ Closed(ToSet(calls[n].undo))
      /\ After(calls, n - 1) \cap ToSet(calls[n].undo) = ToSet(calls[n].undo)
  BY <1>4 DEF TakesBack
<1>6. PICK u : u = calls[n].undo
  OBVIOUS
<1>7. InOrder(u) /\ Closed(ToSet(u)) /\ dying' = Of(t, u)
      /\ objects' = objects \cup {<<t, p>> : p \in ToSet(u)}
  BY <1>1, <1>5, <1>6
<1> QED BY <1>2, <1>7, MadeToGo

\* Things go: the first with what is theirs, the device after all of them.
LEMMA DropHolds ==
    ASSUME ObjectsHold, NoneDying, NEW things, things \in Seq(Thing), IsInjective(things),
           \A i \in DOMAIN things : kind[things[i]] # "none",
           \A i \in DOMAIN things : things[i] = "gpu" => \A t \in Thing :
               kind[t] = "none" \/ t = "gpu" \/ \E j \in 1 .. i - 1 : things[j] = t,
           dying' = DropDirectly(things), objects' = objects,
           kind' = [t \in Thing |-> IF t \in ToSet(things) THEN "none" ELSE kind[t]],
           renderer' => renderer /\ "gpu" \notin ToSet(things) /\ "pipes" \notin ToSet(things)
    PROVE  ObjectsHold'
<1>1. /\ objects \in SUBSET Object /\ KindsFit /\ PartsStand /\ DeviceStands
      /\ \A x \in objects, p \in Object : Needs(x, p) => p \in objects
      /\ kind \in [Thing -> Kinds \cup {"none"}]
  BY DEF ObjectsHold, KindsFit
<1>2. /\ Len(things) \in Nat /\ DOMAIN things = 1 .. Len(things)
      /\ \A i \in 1 .. Len(things) : things[i] \in Thing
      /\ ToSet(things) = {things[i] : i \in 1 .. Len(things)}
  BY DEF ToSet
<1>3. \A x \in objects : x[1] \in Thing /\ kind[x[1]] # "none"
  BY <1>1, NoObjectsOfNothing DEF Object
<1>4. \A i \in DOMAIN things : kind[things[i]] \in Kinds
  BY <1>1, <1>2
<1>5. \A i \in DOMAIN things : \A x \in objects :
          x[1] = things[i] => x[2] \in ToSet(DropOf[kind[things[i]]])
  BY <1>1, <1>3 DEF PartsStand
<1>6. \A i \in DOMAIN things : things[i] = "gpu" => \A x \in objects :
          x[1] = "gpu" \/ x[2] = "fd" \/ \E j \in 1 .. i - 1 : things[j] = x[1]
  BY <1>3
<1>7. /\ GoodDrop(DropDirectly(things), objects)
      /\ ToSet(DropDirectly(things)) = {x \in objects : x[1] \in ToSet(things)}
  BY <1>1, <1>4, <1>5, <1>6, ThingsGo
<1>8. kind' \in [Thing -> Kinds \cup {"none"}] /\ \A t \in Thing : kind'[t] \in {kind[t], "none"}
  BY <1>1
<1>9. KindsFit'
  BY <1>1, <1>8, ThingsAre DEF KindsFit
<1>10. PartsStand'
  <2>1. kind'["gpu"] = "gpu" => <<"gpu", "device">> \in objects'
    BY <1>1, <1>8, ThingsAre DEF PartsStand
  <2>2. ASSUME NEW s \in Thing, kind'[s] \in {"imported", "uploaded"}
        PROVE  <<s, "view">> \in objects' /\ <<s, "image">> \in objects'
    BY <1>1, <1>8, <2>2 DEF PartsStand
  <2>3. ASSUME NEW x \in objects
        PROVE  IF kind'[x[1]] = "none" THEN x \in ToSet(dying')
               ELSE x \notin ToSet(dying') /\ x[2] \in ToSet(DropOf[kind'[x[1]]])
    <3>1. CASE x[1] \in ToSet(things)
      BY <1>3, <1>7, <2>3, <3>1
    <3>2. CASE x[1] \notin ToSet(things)
      <4>1. kind'[x[1]] = kind[x[1]] /\ x \notin ToSet(dying') /\ kind[x[1]] # "none"
        BY <1>3, <1>7, <2>3, <3>2
      <4> QED BY <1>1, <2>3, <4>1 DEF PartsStand
    <3> QED BY <3>1, <3>2
  <2> QED BY <2>1, <2>2, <2>3 DEF PartsStand
<1>11. DeviceStands'
  <2>1. ASSUME NEW t \in Thing, kind'[t] # "none"
        PROVE  kind'["gpu"] = "gpu"
    <3>1. t \notin ToSet(things) /\ kind[t] # "none"
      BY <2>1
    <3>2. kind["gpu"] = "gpu"
      BY <1>1, <3>1 DEF DeviceStands
    <3>3. "gpu" \notin ToSet(things)
      <4>1. ASSUME NEW i \in DOMAIN things, things[i] = "gpu"
            PROVE  FALSE
        <5>1. t # "gpu"
          BY <1>2, <3>1, <4>1
        <5>2. PICK j \in 1 .. i - 1 : things[j] = t
          BY <3>1, <4>1, <5>1
        <5>3. j \in 1 .. Len(things)
          BY <1>2, <4>1
        <5> QED BY <1>2, <3>1, <5>2, <5>3
      <4> QED BY <1>2, <4>1
    <3> QED BY <3>2, <3>3, ThingsAre
  <2>2. renderer' => kind'["gpu"] = "gpu"
    BY <1>1, ThingsAre DEF DeviceStands
  <2>3. renderer' /\ kind'["pipes"] = "none" => \A t \in Thing \ {"gpu"} : kind'[t] = "none"
    BY <1>1, <1>8, ThingsAre DEF DeviceStands
  <2> QED BY <2>1, <2>2, <2>3 DEF DeviceStands
<1>12. GoodDrop(dying', objects')
  BY <1>7
<1> QED BY <1>1, <1>7, <1>9, <1>10, <1>11, <1>12 DEF ObjectsHold

\* And the Arc of the last of them takes the device along.
LEMMA WholeDropHolds ==
    ASSUME ObjectsHold, NoneDying, NEW things, things \in Seq(Thing), IsInjective(things),
           \A i \in DOMAIN things : things[i] # "gpu" /\ kind[things[i]] # "none",
           NEW stays, DropWhole(things, stays), objects' = objects,
           renderer' => renderer /\ stays /\ "pipes" \notin ToSet(things)
    PROVE  /\ ObjectsHold'
           /\ \A t \in Thing \ {"gpu"} : kind'[t] = IF t \in ToSet(things) THEN "none" ELSE kind[t]
<1> DEFINE goes == DeviceGoes(ToSet(things), stays)
           all == IF goes THEN Append(things, "gpu") ELSE things
<1>1. /\ dying' = DropDirectly(all)
      /\ kind' = [t \in Thing |-> IF t \in ToSet(all) THEN "none" ELSE kind[t]]
  BY DEF DropWhole
<1>2. /\ Len(things) \in Nat /\ DOMAIN things = 1 .. Len(things)
      /\ \A i \in 1 .. Len(things) : things[i] \in Thing
      /\ ToSet(things) = {things[i] : i \in 1 .. Len(things)}
  BY DEF ToSet
<1>3. CASE goes
  <2>1. kind["gpu"] = "gpu" /\ ~ stays
        /\ \A t \in Thing \ ({"gpu"} \cup ToSet(things)) : kind[t] = "none"
    BY <1>3 DEF DeviceGoes
  <2> DEFINE more == Append(things, "gpu")
  <2>2. more \in Seq(Thing) /\ Len(more) = Len(things) + 1 /\ more[Len(things) + 1] = "gpu"
        /\ \A i \in 1 .. Len(things) : more[i] = things[i]
    BY <1>2, ThingsAre
  <2>3. DOMAIN more = 1 .. Len(things) + 1
    BY <1>2, <2>2
  <2>4. all = more
    BY <1>3
  <2> HIDE DEF more, all, goes
  <2>5. IsInjective(more)
    BY <1>2, <2>2, <2>3 DEF IsInjective
  <2>6. ToSet(more) = ToSet(things) \cup {"gpu"}
    BY <1>2, <2>2, <2>3 DEF ToSet
  <2>7. \A i \in DOMAIN more : kind[more[i]] # "none"
    BY <1>2, <2>1, <2>2, <2>3
  <2>8. ASSUME NEW i \in DOMAIN more, more[i] = "gpu", NEW t \in Thing
        PROVE  kind[t] = "none" \/ t = "gpu" \/ \E j \in 1 .. i - 1 : more[j] = t
    <3>1. i = Len(things) + 1
      BY <1>2, <2>2, <2>3, <2>8
    <3>2. CASE t \in ToSet(things)
      BY <1>2, <2>2, <3>1, <3>2
    <3> QED BY <2>1, <3>2
  <2>9. ~ renderer'
    BY <2>1
  <2>10. ObjectsHold'
    BY <1>1, <2>2, <2>4, <2>5, <2>7, <2>8, <2>9, DropHolds
  <2> QED BY <1>1, <2>4, <2>6, <2>10
<1>4. CASE ~ goes
  <2>1. all = things
    BY <1>4
  <2> HIDE DEF all, goes
  <2>2. "gpu" \notin ToSet(things)
    BY <1>2
  <2>3. \A i \in DOMAIN things : things[i] = "gpu" => \A t \in Thing :
            kind[t] = "none" \/ t = "gpu" \/ \E j \in 1 .. i - 1 : things[j] = t
    OBVIOUS
  <2>4. ObjectsHold'
    BY <1>1, <2>1, <2>2, <2>3, DropHolds
  <2> QED BY <1>1, <2>1, <2>4
<1> QED BY <1>3, <1>4

\* One object goes.
LEMMA DestroyHolds ==
    ASSUME ObjectsHold, DestroyNext
    PROVE  ObjectsHold'
<1> DEFINE d == dying
<1>1. /\ objects \in SUBSET Object /\ KindsFit /\ PartsStand /\ DeviceStands
      /\ \A x \in objects, p \in Object : Needs(x, p) => p \in objects
      /\ kind \in [Thing -> Kinds \cup {"none"}]
  BY DEF ObjectsHold, KindsFit
<1>2. /\ dying \in Seq(Object) /\ IsInjective(dying) /\ ToSet(dying) \subseteq objects
      /\ \A j \in DOMAIN dying : \A x \in objects :
             Needs(x, dying[j]) => \E i \in 1 .. j - 1 : dying[i] = x
  BY DEF ObjectsHold, GoodDrop
<1>3. /\ dying # <<>> /\ objects' = objects \ {dying[1]} /\ dying' = Tail(dying)
      /\ kind' = kind /\ renderer' = renderer
  BY DEF DestroyNext, NoneDying
<1>4. /\ Len(dying) \in Nat /\ Len(dying) >= 1 /\ DOMAIN dying = 1 .. Len(dying)
      /\ dying' \in Seq(Object) /\ Len(dying') = Len(dying) - 1
      /\ \A i \in 1 .. Len(dying) - 1 : dying'[i] = dying[i + 1]
  BY <1>2, <1>3
<1>5. DOMAIN dying' = 1 .. Len(dying) - 1
  BY <1>4
<1>6. /\ \A i \in DOMAIN dying' : i + 1 \in DOMAIN dying /\ dying'[i] = dying[i + 1]
      /\ 1 \in DOMAIN dying
  BY <1>4, <1>5
<1>7. IsInjective(dying')
  <2>1. SUFFICES ASSUME NEW i \in DOMAIN dying', NEW j \in DOMAIN dying', dying'[i] = dying'[j]
                 PROVE  i = j
    BY DEF IsInjective
  <2>2. i + 1 = j + 1
    BY <1>2, <1>6, <2>1 DEF IsInjective
  <2> QED BY <1>5, <2>2
<1>8. ToSet(dying') = ToSet(dying) \ {dying[1]}
  <2>1. ASSUME NEW i \in DOMAIN dying'
        PROVE  dying'[i] \in ToSet(dying) \ {dying[1]}
    <3>1. i + 1 # 1
      BY <1>5
    <3> QED BY <1>2, <1>6, <3>1 DEF IsInjective, ToSet
  <2>2. ASSUME NEW i \in DOMAIN dying, i # 1
        PROVE  dying[i] \in ToSet(dying')
    <3>1. i - 1 \in DOMAIN dying' /\ (i - 1) + 1 = i
      BY <1>4, <1>5, <2>2
    <3> QED BY <1>6, <3>1 DEF ToSet
  <2> QED BY <2>1, <2>2 DEF ToSet
<1>9. \A x \in objects : ~ Needs(x, dying[1])
  <2>1. \A i \in 1 .. 1 - 1 : FALSE
    OBVIOUS
  <2> QED BY <1>2, <1>6, <2>1
<1>10. ASSUME NEW j \in DOMAIN dying', NEW x \in objects', Needs(x, dying'[j])
       PROVE  \E i \in 1 .. j - 1 : dying'[i] = x
  <2>1. j + 1 \in DOMAIN dying /\ Needs(x, dying[j + 1]) /\ x \in objects /\ j \in Nat
    BY <1>3, <1>5, <1>6, <1>10
  <2>2. PICK i \in 1 .. (j + 1) - 1 : dying[i] = x
    BY <1>2, <2>1
  <2>3. i # 1
    BY <1>3, <1>10, <2>2
  <2>4. i - 1 \in 1 .. j - 1 /\ i - 1 \in DOMAIN dying' /\ (i - 1) + 1 = i
    BY <1>5, <2>1, <2>2, <2>3
  <2> QED BY <1>6, <2>2, <2>4
<1>11. GoodDrop(dying', objects')
  BY <1>2, <1>3, <1>4, <1>7, <1>8, <1>10 DEF GoodDrop
<1>12. PartsStand'
  <2>1. dying[1] \in ToSet(dying)
    BY <1>6 DEF ToSet
  <2>2. \A x \in objects : kind[x[1]] # "none" => x \in objects'
    BY <1>1, <1>3, <2>1 DEF PartsStand
  <2>3. kind["gpu"] = "gpu" => <<"gpu", "device">> \in objects'
    BY <1>1, <2>2 DEF PartsStand
  <2>4. \A s \in Thing : kind[s] \in {"imported", "uploaded"} =>
            <<s, "view">> \in objects' /\ <<s, "image">> \in objects'
    BY <1>1, <2>2 DEF PartsStand
  <2>5. \A x \in objects' : IF kind[x[1]] = "none" THEN x \in ToSet(dying')
               ELSE x \notin ToSet(dying') /\ x[2] \in ToSet(DropOf[kind[x[1]]])
    BY <1>1, <1>3, <1>8 DEF PartsStand
  <2> QED BY <1>3, <2>3, <2>4, <2>5 DEF PartsStand
<1>13. KindsFit' /\ DeviceStands'
  BY <1>1, <1>3 DEF KindsFit, DeviceStands
<1> QED BY <1>1, <1>3, <1>9, <1>11, <1>12, <1>13 DEF ObjectsHold

\* What holds textures holds nothing that went.
LEMMA KeptHolders ==
    ASSUME HoldersStand, renderer' \in BOOLEAN,
           frameHeld' = frameHeld, callerHeld' = callerHeld, frameDraws' = frameDraws,
           \A t \in frameHeld \cup callerHeld : kind'[t] # "none",
           Recording => kind'["bound"] # "none"
    PROVE  HoldersStand'
  BY DEF HoldersStand, Recording

LEMMA KasaneStarts == KasaneInit => KasaneInv
<1> SUFFICES ASSUME KasaneInit PROVE KasaneInv
  OBVIOUS
<1>1. /\ objects = {} /\ dying = <<>> /\ renderer = FALSE /\ frameDraws = NoFrame
      /\ frameHeld = {} /\ callerHeld = {}
      /\ kind = [t \in Thing |-> "none"]
  BY DEF KasaneInit
<1>2. KindsFit
  BY <1>1, ThingsAre DEF KindsFit
<1>3. \A t \in Thing : kind[t] = "none"
  BY <1>1
<1>4. PartsStand /\ DeviceStands
  BY <1>1, <1>3, ThingsAre DEF PartsStand, DeviceStands
<1>5. ObjectsHold
  BY <1>1, <1>2, <1>4, EmptyGoes DEF ObjectsHold
<1>6. IsFiniteSet({})
  BY FS_EmptySet
<1>7. HoldersStand
  BY <1>1, <1>6 DEF HoldersStand, Recording
<1> QED BY <1>5, <1>7 DEF KasaneInv

\* A step that leaves objects and things alone.
LEMMA ObjectsRest ==
    ASSUME ObjectsHold, UNCHANGED <<kind, objects, dying, renderer>>
    PROVE  ObjectsHold'
  BY DEF ObjectsHold, KindsFit, PartsStand, DeviceStands

LEMMA KasaneSteps ==
    ASSUME KasaneInv, [KasaneNext]_kasaneVars
    PROVE  KasaneInv'
<1>1. ObjectsHold /\ HoldersStand
  BY DEF KasaneInv
<1>2. /\ KindsFit /\ PartsStand /\ DeviceStands /\ kind \in [Thing -> Kinds \cup {"none"}]
      /\ objects \in SUBSET Object
  BY <1>1 DEF ObjectsHold, KindsFit
<1>3. /\ renderer \in BOOLEAN /\ frameHeld \in SUBSET Tex /\ callerHeld \in SUBSET Tex
      /\ IsFiniteSet(frameHeld)
      /\ \A t \in frameHeld \cup callerHeld : t \in Tex /\ kind[t] # "none"
      /\ Recording => /\ kind["bound"] # "none"
                      /\ frameDraws \in Seq(Tex) /\ ToSet(frameDraws) \subseteq frameHeld
  BY <1>1 DEF HoldersStand
<1>4. {"gpu", "pipelines", "imported", "uploaded", "exported", "owned", "readback"} \subseteq Kinds
  BY DEF Kinds
<1>5. CASE OpenGpu
  <2>1. /\ NoneDying /\ kind["gpu"] = "none"
        /\ UNCHANGED <<frameDraws, frameHeld, callerHeld>>
    BY <1>5 DEF OpenGpu
  <2>2. PICK validated \in BOOLEAN :
           \/ Built("gpu", "gpu", validated) /\ renderer' = TRUE /\ UNCHANGED dying
           \/ Refused("gpu", "gpu", validated) /\ UNCHANGED renderer
    BY <1>5 DEF OpenGpu
  <2>3. ObjectsHold' /\ renderer' \in BOOLEAN
    <3>1. CASE Built("gpu", "gpu", validated) /\ renderer' = TRUE /\ UNCHANGED dying
      BY <1>1, <1>4, <2>1, <3>1, BuiltHolds, ThingsAre
    <3>2. CASE Refused("gpu", "gpu", validated) /\ UNCHANGED renderer
      BY <1>1, <1>3, <1>4, <2>1, <3>2, RefusedHolds, ThingsAre
    <3> QED BY <2>2, <3>1, <3>2
  <2>4. \A t \in Thing : kind[t] = "none"
    BY <1>2, <2>1 DEF DeviceStands
  <2>5. ~ Recording /\ frameHeld \cup callerHeld = {}
    BY <1>3, <2>4, ThingsAre
  <2>6. HoldersStand'
    BY <1>1, <2>1, <2>3, <2>5, KeptHolders
  <2> QED BY <2>3, <2>6 DEF KasaneInv
<1>6. CASE BuildPipelines
  <2>1. /\ NoneDying /\ renderer /\ kind["pipes"] = "none"
        /\ UNCHANGED <<frameDraws, frameHeld, callerHeld>>
    BY <1>6 DEF BuildPipelines
  <2>2. kind["gpu"] = "gpu" /\ \A t \in Thing \ {"gpu"} : kind[t] = "none"
    BY <1>2, <2>1 DEF DeviceStands
  <2>3. ~ Recording /\ frameHeld \cup callerHeld = {}
    BY <1>3, <2>2, ThingsAre
  <2>4. CASE Built("pipes", "pipelines", FALSE) /\ UNCHANGED <<dying, renderer>>
    <3>1. ObjectsHold'
      BY <1>1, <1>4, <2>1, <2>2, <2>4, BuiltHolds, ThingsAre
    <3>2. HoldersStand'
      BY <1>1, <1>3, <2>1, <2>3, <2>4, KeptHolders
    <3> QED BY <3>1, <3>2 DEF KasaneInv
  <2>5. CASE /\ \E n \in 1..Len(PipelinesCalls) :
                   /\ objects' = objects \cup Range(Of("pipes", PipelinesCalls[n].undo))
                   /\ dying' = Of("pipes", PipelinesCalls[n].undo) \o DropDirectly(<<"gpu">>)
             /\ renderer' = FALSE
             /\ kind' = [kind EXCEPT !["gpu"] = "none"]
    <3>1. PICK n \in 1 .. Len(PipelinesCalls) :
             /\ objects' = objects \cup Range(Of("pipes", PipelinesCalls[n].undo))
             /\ dying' = Of("pipes", PipelinesCalls[n].undo) \o DropDirectly(<<"gpu">>)
      BY <2>5
    <3>2. PICK u : u = PipelinesCalls[n].undo
      OBVIOUS
    <3>3. InOrder(u) /\ Closed(ToSet(u))
      BY <3>2, PipelinesFit DEF TakesBack
    <3>4. u \in Seq(Parts) /\ ToSet(u) \subseteq Parts
      BY <3>3 DEF InOrder, ToSet
    <3>5. /\ objects' = objects \cup {<<"pipes", p>> : p \in ToSet(u)}
          /\ dying' = Of("pipes", u) \o DropDirectly(<<"gpu">>)
      <4>1. Range(Of("pipes", u)) = ToSet(Of("pipes", u))
        BY DEF Range, ToSet
      <4> QED BY <3>1, <3>2, <3>4, <4>1, OfThing, ThingsAre
    <3>6. \A x \in objects : x[1] = "gpu" /\ x[2] \in ToSet(DropOf["gpu"])
      <4>1. \A x \in objects : x[1] \in Thing /\ kind[x[1]] # "none"
        BY <1>1, <1>2, <2>1, NoObjectsOfNothing DEF Object
      <4>2. \A x \in objects : x[1] = "gpu"
        BY <2>2, <4>1
      <4> QED BY <1>2, <2>2, <4>2 DEF PartsStand
    <3>7. objects' \in SUBSET Object
      BY <1>2, <3>4, <3>5, ThingsAre DEF Object
    <3>8. GoodDrop(DropDirectly(<<"gpu">>), objects) /\ ToSet(DropDirectly(<<"gpu">>)) = objects
      <4> DEFINE g == <<"gpu">>
      <4>1. /\ g \in Seq(Thing) /\ IsInjective(g) /\ DOMAIN g = {1} /\ g[1] = "gpu"
            /\ ToSet(g) = {"gpu"}
        BY ThingsAre DEF IsInjective, ToSet
      <4> HIDE DEF g
      <4>2. GoodDrop(DropDirectly(g), objects) /\ ToSet(DropDirectly(g)) = {x \in objects : x[1] \in ToSet(g)}
        BY <1>2, <1>4, <2>2, <3>6, <4>1, ThingsGo
      <4> QED BY <3>6, <4>1, <4>2 DEF g
    <3>9. PICK objs : objs = objects'
      OBVIOUS
    <3>10. GoodDrop(Of("pipes", u), objs) /\ ToSet(Of("pipes", u)) = {<<"pipes", p>> : p \in ToSet(u)}
      <4>1. {x \in objs : x[1] = "pipes"} = {<<"pipes", p>> : p \in ToSet(u)}
        BY <3>5, <3>6, <3>9
      <4> QED BY <3>3, <3>4, <3>7, <3>9, <4>1, OneThingGoes, OfThing, ThingsAre
    <3>11. PICK d, e, rest : d = Of("pipes", u) /\ e = DropDirectly(<<"gpu">>) /\ rest = objs \ ToSet(d)
      OBVIOUS
    <3>12. rest = objects
      BY <3>5, <3>6, <3>9, <3>10, <3>11
    <3>13. GoodDrop(d \o e, objs) /\ ToSet(d \o e) = ToSet(d) \cup ToSet(e)
      <4>1. GoodDrop(d, objs) /\ GoodDrop(e, rest)
        BY <3>8, <3>10, <3>11, <3>12
      <4> QED BY <3>11, <4>1, BothGo
    <3>14. GoodDrop(dying', objects') /\ ToSet(dying') = objects'
      BY <3>5, <3>8, <3>9, <3>10, <3>11, <3>13
    <3>15. kind' \in [Thing -> Kinds \cup {"none"}] /\ \A t \in Thing : kind'[t] = "none"
      BY <1>2, <2>2, <2>5
    <3>16. KindsFit' /\ DeviceStands'
      BY <2>5, <3>15, ThingsAre DEF KindsFit, DeviceStands
    <3>17. PartsStand'
      <4>1. \A x \in objects' : kind'[x[1]] = "none" /\ x \in ToSet(dying')
        BY <3>7, <3>14, <3>15 DEF Object
      <4> QED BY <3>15, <4>1, ThingsAre DEF PartsStand
    <3>18. \A x \in objects', p \in Object : Needs(x, p) => p \in objects'
      <4>1. \A x \in objects, p \in Object : Needs(x, p) => p \in objects
        BY <1>1 DEF ObjectsHold
      <4>2. ASSUME NEW q \in ToSet(u), NEW p \in Object, Needs(<<"pipes", q>>, p)
            PROVE  p \in objects'
        <5>1. <<"gpu", "device">> \in objects
          BY <1>2, <2>2 DEF PartsStand
        <5> QED BY <3>3, <3>5, <4>2, <5>1 DEF Needs, Closed
      <4> QED BY <3>5, <4>1, <4>2
    <3>19. ObjectsHold'
      BY <3>7, <3>14, <3>16, <3>17, <3>18 DEF ObjectsHold
    <3>20. HoldersStand'
      BY <1>1, <2>1, <2>3, <2>5, KeptHolders
    <3> QED BY <3>19, <3>20 DEF KasaneInv
  <2> QED BY <1>6, <2>4, <2>5 DEF BuildPipelines
<1>7. ASSUME Ready
      PROVE  NoneDying /\ kind["pipes"] = "pipelines" /\ kind["gpu"] = "gpu"
  BY <1>2, <1>7, ThingsAre DEF Ready, KindsFit, DeviceStands
\* What is built, or refused, among the pipelines' other users.
<1>8. ASSUME Ready, NEW t \in Thing \ {"gpu", "pipes"}, NEW k \in Kinds, kind[t] = "none",
             renderer' = renderer,
             \/ (t = "bound" /\ k = "imported") \/ (t = "export" /\ k = "exported")
             \/ (t \in Tex /\ k \in {"imported", "uploaded"}),
             (Built(t, k, FALSE) /\ UNCHANGED dying) \/ Refused(t, k, FALSE)
      PROVE  ObjectsHold' /\ \A s \in Thing : kind[s] # "none" => kind'[s] # "none"
  <2>1. CASE Built(t, k, FALSE) /\ UNCHANGED dying
    <3>1. ObjectsHold'
      BY <1>1, <1>7, <1>8, <2>1, BuiltHolds
    <3>2. kind' = [kind EXCEPT ![t] = k] /\ k # "none"
      BY <2>1 DEF Built, Kinds
    <3> QED BY <1>2, <3>1, <3>2
  <2>2. CASE Refused(t, k, FALSE)
    <3>1. ObjectsHold'
      BY <1>1, <1>7, <1>8, <2>2, RefusedHolds
    <3> QED BY <2>2, <3>1 DEF Refused
  <2> QED BY <1>8, <2>1, <2>2
<1>9. CASE BindDmabuf
  <2>1. /\ Ready /\ kind["bound"] = "none" /\ UNCHANGED <<renderer, frameDraws, frameHeld, callerHeld>>
        /\ (Built("bound", "imported", FALSE) /\ UNCHANGED dying) \/ Refused("bound", "imported", FALSE)
    BY <1>9 DEF BindDmabuf
  <2>2. ObjectsHold' /\ \A s \in Thing : kind[s] # "none" => kind'[s] # "none"
    BY <1>4, <1>8, <2>1, ThingsAre
  <2>3. HoldersStand'
    BY <1>1, <1>3, <2>1, <2>2, KeptHolders, ThingsAre
  <2> QED BY <2>2, <2>3 DEF KasaneInv
<1>10. CASE ExportLinear
  <2>1. /\ Ready /\ kind["export"] = "none" /\ UNCHANGED <<renderer, frameDraws, frameHeld, callerHeld>>
        /\ (Built("export", "exported", FALSE) /\ UNCHANGED dying) \/ Refused("export", "exported", FALSE)
    BY <1>10 DEF ExportLinear
  <2>2. ObjectsHold' /\ \A s \in Thing : kind[s] # "none" => kind'[s] # "none"
    BY <1>4, <1>8, <2>1, ThingsAre
  <2>3. HoldersStand'
    BY <1>1, <1>3, <2>1, <2>2, KeptHolders, ThingsAre
  <2> QED BY <2>2, <2>3 DEF KasaneInv
<1>11. ASSUME NEW t \in Tex, ImportTexture(t) \/ UploadTexture(t)
       PROVE  KasaneInv'
  <2>1. PICK k \in {"imported", "uploaded"} : MakeTexture(t, k)
    BY <1>11 DEF ImportTexture, UploadTexture
  <2>2. /\ Ready /\ ~ Recording /\ kind[t] = "none" /\ UNCHANGED <<renderer, frameDraws, frameHeld>>
        /\ (Built(t, k, FALSE) /\ UNCHANGED dying /\ callerHeld' = callerHeld \cup {t})
           \/ (Refused(t, k, FALSE) /\ callerHeld' = callerHeld)
    BY <2>1 DEF MakeTexture
  <2>3. t \in Thing \ {"gpu", "pipes"} /\ k \in Kinds
    BY <1>4, ThingsAre
  <2>4. ObjectsHold' /\ \A s \in Thing : kind[s] # "none" => kind'[s] # "none"
    BY <1>8, <2>2, <2>3
  <2>5. HoldersStand'
    <3>1. CASE Built(t, k, FALSE) /\ callerHeld' = callerHeld \cup {t}
      <4>1. kind'[t] # "none"
        BY <1>2, <2>3, <3>1 DEF Built, Kinds
      <4> QED BY <1>3, <2>2, <2>4, <3>1, <4>1, ThingsAre DEF HoldersStand, Recording
    <3>2. CASE callerHeld' = callerHeld
      BY <1>1, <1>3, <2>2, <2>4, <3>2, KeptHolders, ThingsAre
    <3> QED BY <2>2, <3>1, <3>2
  <2> QED BY <2>4, <2>5 DEF KasaneInv
\* One thing that stands is dropped whole.
<1>12. ASSUME NoneDying, NEW t \in Thing \ {"gpu"}, kind[t] # "none", NEW stays,
              DropWhole(<<t>>, stays), objects' = objects, renderer' => renderer /\ stays /\ t # "pipes"
       PROVE  ObjectsHold' /\ \A s \in Thing \ {"gpu"} : kind'[s] = IF s = t THEN "none" ELSE kind[s]
  <2> DEFINE g == <<t>>
  <2>1. g \in Seq(Thing) /\ IsInjective(g) /\ DOMAIN g = {1} /\ g[1] = t /\ ToSet(g) = {t}
    BY DEF IsInjective, ToSet
  <2>2. DropWhole(g, stays)
    BY <1>12
  <2> HIDE DEF g
  <2>3. \A i \in DOMAIN g : g[i] # "gpu" /\ kind[g[i]] # "none"
    BY <1>12, <2>1
  <2>4. renderer' => renderer /\ stays /\ "pipes" \notin ToSet(g)
    BY <1>12, <2>1
  <2>5. /\ ObjectsHold'
        /\ \A s \in Thing \ {"gpu"} : kind'[s] = IF s \in ToSet(g) THEN "none" ELSE kind[s]
    BY <1>1, <1>12, <2>1, <2>2, <2>3, <2>4, WholeDropHolds
  <2> QED BY <2>1, <2>5
<1>13. PICK stays : stays = renderer
  OBVIOUS
<1>14. CASE Unbind
  <2>1. /\ NoneDying /\ ~ Recording /\ kind["bound"] # "none" /\ DropWhole(<<"bound">>, stays)
        /\ UNCHANGED <<objects, renderer, frameDraws, frameHeld, callerHeld>>
    BY <1>13, <1>14 DEF Unbind
  <2>2. ObjectsHold' /\ \A s \in Thing \ {"gpu"} : kind'[s] = IF s = "bound" THEN "none" ELSE kind[s]
    BY <1>12, <1>13, <2>1, ThingsAre
  <2>3. HoldersStand'
    BY <1>1, <1>3, <2>1, <2>2, KeptHolders, ThingsAre
  <2> QED BY <2>2, <2>3 DEF KasaneInv
<1>15. CASE DropExport
  <2>1. /\ NoneDying /\ ~ Recording /\ kind["export"] # "none" /\ DropWhole(<<"export">>, stays)
        /\ UNCHANGED <<objects, renderer, frameDraws, frameHeld, callerHeld>>
    BY <1>13, <1>15 DEF DropExport
  <2>2. ObjectsHold' /\ \A s \in Thing \ {"gpu"} : kind'[s] = IF s = "export" THEN "none" ELSE kind[s]
    BY <1>12, <1>13, <2>1, ThingsAre
  <2>3. HoldersStand'
    BY <1>1, <1>3, <2>1, <2>2, KeptHolders, ThingsAre
  <2> QED BY <2>2, <2>3 DEF KasaneInv
<1>16. CASE CloseRenderer
  <2>1. /\ Ready /\ ~ Recording /\ renderer' = FALSE /\ DropWhole(<<"pipes">>, FALSE)
        /\ UNCHANGED <<objects, frameDraws, frameHeld, callerHeld>>
    BY <1>16 DEF CloseRenderer
  <2>2. kind["pipes"] # "none" /\ NoneDying
    BY <2>1 DEF Ready
  <2>3. ObjectsHold' /\ \A s \in Thing \ {"gpu"} : kind'[s] = IF s = "pipes" THEN "none" ELSE kind[s]
    BY <1>12, <2>1, <2>2, ThingsAre
  <2>4. HoldersStand'
    BY <1>1, <1>3, <2>1, <2>3, KeptHolders, ThingsAre
  <2> QED BY <2>3, <2>4 DEF KasaneInv
<1>17. ASSUME NEW t \in Tex, LetGo(t)
       PROVE  KasaneInv'
  <2>1. /\ NoneDying /\ t \in callerHeld /\ callerHeld' = callerHeld \ {t}
        /\ UNCHANGED <<objects, renderer, frameDraws, frameHeld>>
        /\ IF t \in frameHeld THEN UNCHANGED <<kind, dying, texels>>
           ELSE DropWhole(<<t>>, stays) /\ texels' = {x \in texels : x[1] # t}
    BY <1>13, <1>17 DEF LetGo
  <2>2. CASE t \in frameHeld
    <3>1. ObjectsHold'
      BY <1>1, <2>1, <2>2, ObjectsRest
    <3>2. HoldersStand'
      BY <1>3, <2>1, <2>2 DEF HoldersStand, Recording
    <3> QED BY <3>1, <3>2 DEF KasaneInv
  <2>3. CASE t \notin frameHeld
    <3>1. kind[t] # "none" /\ t \in Thing \ {"gpu"} /\ t # "pipes"
      BY <1>3, <2>1, ThingsAre
    <3>2. ObjectsHold' /\ \A s \in Thing \ {"gpu"} : kind'[s] = IF s = t THEN "none" ELSE kind[s]
      BY <1>12, <1>13, <2>1, <2>3, <3>1
    <3>3. \A s \in frameHeld \cup callerHeld' : kind'[s] # "none"
      BY <1>3, <2>1, <2>3, <3>2, ThingsAre
    <3>4. Recording => kind'["bound"] # "none"
      BY <1>3, <3>2, ThingsAre
    <3>5. HoldersStand'
      BY <1>3, <2>1, <3>3, <3>4 DEF HoldersStand, Recording
    <3> QED BY <3>2, <3>5 DEF KasaneInv
  <2> QED BY <2>2, <2>3
<1>18. CASE FinishFrame
  <2> DEFINE S == frameHeld \ callerHeld
             last == SetToSeq(S)
  <2>1. /\ NoneDying /\ DropWhole(last, renderer) /\ frameDraws' = NoFrame /\ frameHeld' = {}
        /\ UNCHANGED <<objects, renderer, callerHeld>>
    BY <1>18 DEF FinishFrame
  <2>2. /\ last \in [1 .. Cardinality(S) -> S] /\ IsInjective(last) /\ Cardinality(S) \in Nat
    <3>1. IsFiniteSet(S)
      BY <1>3, FS_Subset
    <3>2. PICK f : f \in Bijection(1 .. Cardinality(S), S)
      BY <3>1, FS_CardinalityType DEF ExistsBijection
    <3>3. f \in [1 .. Cardinality(S) -> S] /\ IsInjective(f)
      BY <3>2 DEF Bijection, Injection, IsInjective
    <3>4. Cardinality(S) \in Nat
      BY <3>1, FS_CardinalityType
    <3> QED BY <3>3, <3>4 DEF SetToSeq
  <2> HIDE DEF last
  <2>3. \A i \in DOMAIN last : last[i] \in frameHeld /\ last[i] \notin callerHeld
    BY <2>2
  <2>4. last \in Seq(Thing) /\ ToSet(last) \subseteq S
    <3>1. PICK n \in Nat : n = Cardinality(S)
      BY <2>2
    <3>2. last \in [1 .. n -> S]
      BY <2>2, <3>1
    <3>3. S \subseteq Thing
      BY <1>3, ThingsAre
    <3> HIDE DEF S
    <3>4. last \in [1 .. n -> Thing]
      BY <3>2, <3>3
    <3>5. last \in Seq(Thing)
      BY <3>4
    <3>6. ToSet(last) \subseteq S
      BY <3>2 DEF ToSet
    <3> QED BY <3>5, <3>6
  <2>5. \A i \in DOMAIN last : last[i] # "gpu" /\ last[i] # "pipes" /\ kind[last[i]] # "none"
    BY <1>3, <2>3, ThingsAre
  <2>6. DropWhole(last, stays) /\ (renderer' => renderer /\ stays /\ "pipes" \notin ToSet(last))
    BY <1>13, <2>1, <2>5 DEF ToSet
  <2>7. /\ ObjectsHold'
        /\ \A s \in Thing \ {"gpu"} : kind'[s] = IF s \in ToSet(last) THEN "none" ELSE kind[s]
    BY <1>1, <2>1, <2>2, <2>4, <2>5, <2>6, WholeDropHolds
  <2>8. \A s \in callerHeld : kind'[s] # "none"
    BY <1>3, <2>4, <2>7, ThingsAre
  <2>9. IsFiniteSet({})
    BY FS_EmptySet
  <2>10. HoldersStand'
    BY <1>3, <2>1, <2>8, <2>9 DEF HoldersStand, Recording
  <2> QED BY <2>7, <2>10 DEF KasaneInv
<1>19. ASSUME NEW t \in {"readback", "scratch"}, NEW k \in {"readback", "owned"}, CopyOut(t, k)
       PROVE  KasaneInv'
  <2> DEFINE calls == CallsOf(k, FALSE)
             made == After(calls, Len(calls))
  <2>1. /\ Ready /\ ~ Recording /\ UNCHANGED <<renderer, frameDraws, frameHeld, callerHeld>>
        /\ \/ /\ objects' = objects \cup {<<t, p>> : p \in made}
              /\ dying' = Of(t, DropOf[k]) /\ UNCHANGED kind
           \/ Refused(t, k, FALSE)
    BY <1>19 DEF CopyOut
  <2>2. kind[t] = "none" /\ t \in Thing /\ k \in Kinds /\ t # "gpu"
    BY <1>2, <1>4, ThingsAre DEF KindsFit
  <2>3. CallsFit(k, calls) /\ InOrder(DropOf[k])
    BY <2>2, AllFit
  <2>4. made = ToSet(DropOf[k]) /\ Closed(made)
    BY <2>3 DEF CallsFit, Builds
  <2>5. kind' = kind
    BY <2>1 DEF Refused
  <2> HIDE DEF made, calls
  <2>6. ObjectsHold'
    <3>1. CASE Refused(t, k, FALSE)
      BY <1>1, <1>7, <2>1, <2>2, <3>1, RefusedHolds
    <3>2. CASE objects' = objects \cup {<<t, p>> : p \in made} /\ dying' = Of(t, DropOf[k])
      <4>1. PICK u : u = DropOf[k]
        OBVIOUS
      <4>2. /\ InOrder(u) /\ Closed(ToSet(u)) /\ dying' = Of(t, u)
            /\ objects' = objects \cup {<<t, p>> : p \in ToSet(u)}
        BY <2>3, <2>4, <3>2, <4>1
      <4> QED BY <1>1, <1>7, <2>1, <2>2, <2>5, <4>2, MadeToGo
    <3> QED BY <2>1, <3>1, <3>2
  <2>7. HoldersStand'
    BY <1>1, <1>3, <2>1, <2>5, KeptHolders
  <2> QED BY <2>6, <2>7 DEF KasaneInv
<1>20. CASE TakeFd
  <2> DEFINE fd == <<"export", "fd">>
  <2>1. /\ NoneDying /\ objects' = objects \ {fd}
        /\ UNCHANGED <<kind, dying, renderer, frameDraws, frameHeld, callerHeld>>
    BY <1>20 DEF TakeFd
  <2>2. \A x : ~ Needs(x, fd)
    BY DEF Needs, ParentOf
  <2>3. \A p : <<p, "view">> # fd /\ <<p, "image">> # fd /\ <<p, "device">> # fd
    OBVIOUS
  <2>4. \A x \in objects', p \in Object : Needs(x, p) => p \in objects'
    BY <1>1, <2>1, <2>2 DEF ObjectsHold
  <2>5. PartsStand'
    <3>1. kind["gpu"] = "gpu" => <<"gpu", "device">> \in objects'
      BY <1>2, <2>1, <2>3 DEF PartsStand
    <3>2. \A s \in Thing : kind[s] \in {"imported", "uploaded"} =>
              <<s, "view">> \in objects' /\ <<s, "image">> \in objects'
      BY <1>2, <2>1, <2>3 DEF PartsStand
    <3>3. \A x \in objects' : IF kind[x[1]] = "none" THEN x \in ToSet(dying)
              ELSE x \notin ToSet(dying) /\ x[2] \in ToSet(DropOf[kind[x[1]]])
      BY <1>2, <2>1 DEF PartsStand
    <3> QED BY <2>1, <3>1, <3>2, <3>3 DEF PartsStand
  <2>6. GoodDrop(dying', objects')
    BY <2>1, EmptyGoes DEF NoneDying
  <2>7. KindsFit' /\ DeviceStands' /\ objects' \in SUBSET Object
    BY <1>2, <2>1 DEF KindsFit, DeviceStands
  <2>8. ObjectsHold'
    BY <2>4, <2>5, <2>6, <2>7 DEF ObjectsHold
  <2>9. HoldersStand'
    BY <1>1, <1>3, <2>1, KeptHolders
  <2> QED BY <2>8, <2>9 DEF KasaneInv
<1>21. CASE DestroyNext
  <2>1. ObjectsHold'
    BY <1>1, <1>21, DestroyHolds
  <2>2. HoldersStand'
    BY <1>3, <1>21 DEF DestroyNext, HoldersStand, Recording
  <2> QED BY <2>1, <2>2 DEF KasaneInv
<1>22. CASE BeginFrame
  <2>1. /\ kind["bound"] # "none" /\ frameDraws' = <<>>
        /\ UNCHANGED <<kind, objects, dying, renderer, frameHeld, callerHeld>>
    BY <1>22 DEF BeginFrame
  <2>2. <<>> \in Seq(Tex) /\ ToSet(<<>>) \subseteq frameHeld
    BY NothingIsEmpty
  <2>3. HoldersStand'
    BY <1>3, <2>1, <2>2 DEF HoldersStand, Recording
  <2> QED BY <1>1, <2>1, <2>3, ObjectsRest DEF KasaneInv
<1>23. ASSUME NEW t \in Tex, RenderTexture(t)
       PROVE  KasaneInv'
  <2>1. /\ Recording /\ frameDraws' = Append(frameDraws, t) /\ frameHeld' = frameHeld \cup {t}
        /\ t \in callerHeld /\ UNCHANGED <<kind, objects, dying, renderer, callerHeld>>
    BY <1>23 DEF RenderTexture
  <2>2. PICK s : s = frameDraws
    OBVIOUS
  <2>3. s \in Seq(Tex) /\ ToSet(s) \subseteq frameHeld
    BY <1>3, <2>1, <2>2
  <2>4. Append(s, t) \in Seq(Tex) /\ ToSet(Append(s, t)) = ToSet(s) \cup {t}
    BY <2>3, AppendElements
  <2>5. IsFiniteSet(frameHeld \cup {t})
    BY <1>3, FS_AddElement
  <2>6. HoldersStand'
    BY <1>3, <2>1, <2>2, <2>3, <2>4, <2>5 DEF HoldersStand
  <2> QED BY <1>1, <2>1, <2>6, ObjectsRest DEF KasaneInv
<1>24. ASSUME NEW t \in Tex, NEW region \in SUBSET TexelRows, UpdateMemory(t, region)
       PROVE  KasaneInv'
  <2>1. UNCHANGED <<kind, objects, dying, renderer, frameDraws, frameHeld, callerHeld>>
    BY <1>24 DEF UpdateMemory
  <2>2. HoldersStand'
    BY <1>3, <2>1 DEF HoldersStand, Recording
  <2> QED BY <1>1, <2>1, <2>2, ObjectsRest DEF KasaneInv
<1>25. CASE UNCHANGED kasaneVars
  <2>1. UNCHANGED <<kind, objects, dying, renderer, frameDraws, frameHeld, callerHeld>>
    BY <1>25 DEF kasaneVars
  <2>2. HoldersStand'
    BY <1>3, <2>1 DEF HoldersStand, Recording
  <2> QED BY <1>1, <2>1, <2>2, ObjectsRest DEF KasaneInv
<1>26. CASE CopyFramebuffer \/ CopyTexture
  BY <1>19, <1>26 DEF CopyFramebuffer, CopyTexture
<1> QED
  BY <1>5, <1>6, <1>9, <1>10, <1>11, <1>14, <1>15, <1>16, <1>17, <1>18, <1>20, <1>21, <1>22,
     <1>23, <1>24, <1>25, <1>26 DEF KasaneNext

\* Nothing of the driver is used after it was destroyed (crates/kasane/src/vk.rs):
\* for any textures and any refused calls.
THEOREM ObjectsAlwaysOutliveTheirUse == KasaneSpec => []ObjectsOutliveTheirUse
<1>1. KasaneInv => ObjectsOutliveTheirUse
  <2> SUFFICES ASSUME KasaneInv PROVE ObjectsOutliveTheirUse
    OBVIOUS
  <2>1. ObjectsHold /\ HoldersStand /\ KindsFit /\ PartsStand /\ objects \in SUBSET Object
    BY DEF KasaneInv, ObjectsHold
  <2>2. /\ \A x \in objects, p \in Object : Needs(x, p) => p \in objects
        /\ GoodDrop(dying, objects)
    BY <2>1 DEF ObjectsHold
  <2>3. ASSUME NEW x \in objects, x[2] \in DOMAIN ParentOf
        PROVE  <<x[1], ParentOf[x[2]]>> \in objects
    <3>1. x[1] \in Thing
      BY <2>1 DEF Object
    <3>2. ParentOf[x[2]] \in Parts
      BY <2>3, PartsAre DEF ParentOf
    <3>3. <<x[1], ParentOf[x[2]]>> \in Object
      BY <3>1, <3>2 DEF Object
    <3> QED BY <2>2, <2>3, <3>3 DEF Needs
  <2>4. ASSUME NEW x \in objects, x[1] # "gpu" /\ x[2] # "fd"
        PROVE  <<"gpu", "device">> \in objects
    <3>1. <<"gpu", "device">> \in Object
      BY PartsAre, ThingsAre DEF Object
    <3> QED BY <2>2, <2>4, <3>1 DEF Needs
  <2>5. ASSUME Recording, NEW t \in ToSet(frameDraws) \cup {"bound"}
        PROVE  <<t, "view">> \in objects /\ <<t, "image">> \in objects
    <3>1. t \in Thing /\ kind[t] \in {"imported", "uploaded"}
      <4>1. CASE t = "bound"
        BY <2>1, <2>5, <4>1, ThingsAre DEF HoldersStand, KindsFit
      <4>2. CASE t \in ToSet(frameDraws)
        BY <2>1, <2>5, <4>2, ThingsAre DEF HoldersStand, KindsFit
      <4> QED BY <4>1, <4>2
    <3> QED BY <2>1, <3>1 DEF PartsStand
  <2>6. ToSet(dying) \subseteq objects /\ IsInjective(dying)
    BY <2>2 DEF GoodDrop
  <2> QED BY <2>3, <2>4, <2>5, <2>6 DEF ObjectsOutliveTheirUse, ParentsOutlive, DrawnObjectsLive
<1> QED BY <1>1, KasaneStarts, KasaneSteps, PTL DEF KasaneSpec

-----------------------------------------------------------------------------
(* Blit: rectangles.                                                       *)

LEMMA SmallerAndLarger ==
    \A a, b \in Int :
        /\ Max({a, b}) = IF a >= b THEN a ELSE b
        /\ Min({a, b}) = IF a <= b THEN a ELSE b
<1> SUFFICES ASSUME NEW a \in Int, NEW b \in Int
             PROVE  /\ Max({a, b}) = IF a >= b THEN a ELSE b
                    /\ Min({a, b}) = IF a <= b THEN a ELSE b
  OBVIOUS
<1>1. \E x \in {a, b} : \A y \in {a, b} : x >= y
  OBVIOUS
<1>2. \E x \in {a, b} : \A y \in {a, b} : x <= y
  OBVIOUS
<1>3. Max({a, b}) \in {a, b} /\ \A y \in {a, b} : Max({a, b}) >= y
  BY <1>1 DEF Max
<1>4. Min({a, b}) \in {a, b} /\ \A y \in {a, b} : Min({a, b}) <= y
  BY <1>2 DEF Min
<1> QED BY <1>3, <1>4

LEMMA RectIs ==
    \A x, y, w, h \in Int : Rect(x, y, w, h) \in Rects
  BY DEF Rect, Rects

\* The overlap of two rectangles covers what both cover.
LEMMA OverlapCovers ==
    \A r, s \in Rects, p \in Int \X Int :
        /\ Intersect(r, s) \in Rects
        /\ Covers(Intersect(r, s), p) <=> Covers(r, p) /\ Covers(s, p)
<1> SUFFICES ASSUME NEW r \in Rects, NEW s \in Rects, NEW p \in Int \X Int
             PROVE  /\ Intersect(r, s) \in Rects
                    /\ Covers(Intersect(r, s), p) <=> Covers(r, p) /\ Covers(s, p)
  OBVIOUS
<1>1. /\ r.x \in Int /\ r.y \in Int /\ r.w \in Int /\ r.h \in Int
      /\ s.x \in Int /\ s.y \in Int /\ s.w \in Int /\ s.h \in Int
      /\ p[1] \in Int /\ p[2] \in Int
  BY DEF Rects
<1>2. PICK x0, y0, x1, y1 : /\ x0 = Max({r.x, s.x}) /\ y0 = Max({r.y, s.y})
                            /\ x1 = Min({r.x + r.w, s.x + s.w})
                            /\ y1 = Min({r.y + r.h, s.y + s.h})
  OBVIOUS
<1>3. /\ x0 = IF r.x >= s.x THEN r.x ELSE s.x
      /\ y0 = IF r.y >= s.y THEN r.y ELSE s.y
      /\ x1 = IF r.x + r.w <= s.x + s.w THEN r.x + r.w ELSE s.x + s.w
      /\ y1 = IF r.y + r.h <= s.y + s.h THEN r.y + r.h ELSE s.y + s.h
  <2>1. /\ r.x + r.w \in Int /\ s.x + s.w \in Int
        /\ r.y + r.h \in Int /\ s.y + s.h \in Int
    BY <1>1
  <2> QED BY <1>1, <1>2, <2>1, SmallerAndLarger
<1>4. Intersect(r, s) = IF x1 <= x0 \/ y1 <= y0 THEN Empty ELSE Rect(x0, y0, x1 - x0, y1 - y0)
  BY <1>2 DEF Intersect
<1>5. x0 \in Int /\ y0 \in Int /\ x1 \in Int /\ y1 \in Int
  BY <1>1, <1>3
<1>6. CASE x1 <= x0 \/ y1 <= y0
  <2>1. Intersect(r, s) = Rect(0, 0, 0, 0)
    BY <1>4, <1>6 DEF Empty
  <2>2. ~Covers(Intersect(r, s), p)
    BY <1>1, <2>1 DEF Rect, Covers
  <2>3. ~(Covers(r, p) /\ Covers(s, p))
    BY <1>1, <1>3, <1>6 DEF Covers
  <2> QED BY <2>1, <2>2, <2>3, RectIs
<1>7. CASE ~(x1 <= x0 \/ y1 <= y0)
  <2>1. Intersect(r, s) = Rect(x0, y0, x1 - x0, y1 - y0)
    BY <1>4, <1>7
  <2>2. Covers(Intersect(r, s), p) <=> p[1] \in x0 .. x1 - 1 /\ p[2] \in y0 .. y1 - 1
    BY <1>1, <1>5, <2>1 DEF Rect, Covers
  <2>3. Covers(r, p) /\ Covers(s, p) <=> p[1] \in x0 .. x1 - 1 /\ p[2] \in y0 .. y1 - 1
    BY <1>1, <1>3, <1>5 DEF Covers
  <2> QED BY <1>5, <2>1, <2>2, <2>3, RectIs
<1> QED BY <1>6, <1>7

LEMMA CanvasIsCovered ==
    /\ Bounds(CanvasSize) \in Rects
    /\ \A p \in Canvas : p \in Int \X Int /\ Covers(Bounds(CanvasSize), p)
<1>1. CanvasSize[1] \in Nat /\ CanvasSize[2] \in Nat
  BY BlitAssumption DEF BlitAssumption
<1>2. Bounds(CanvasSize) \in Rects
  BY <1>1, RectIs DEF Bounds
<1>3. ASSUME NEW p \in Canvas PROVE p \in Int \X Int /\ Covers(Bounds(CanvasSize), p)
  <2>1. p[1] \in 0 .. CanvasSize[1] - 1 /\ p[2] \in 0 .. CanvasSize[2] - 1 /\ p = <<p[1], p[2]>>
    BY DEF Canvas
  <2> QED BY <1>1, <2>1 DEF Bounds, Rect, Covers
<1> QED BY <1>2, <1>3

\* Where damage that is named from the corner of r lies.
LEMMA MovedCovers ==
    \A d, r \in Rects, p \in Int \X Int :
        /\ Moved(d, r) \in Rects
        /\ Covers(Moved(d, r), p) <=> Covers(d, <<p[1] - r.x, p[2] - r.y>>)
        /\ Covers(r, p) <=> p[1] - r.x \in 0 .. r.w - 1 /\ p[2] - r.y \in 0 .. r.h - 1
<1> SUFFICES ASSUME NEW d \in Rects, NEW r \in Rects, NEW p \in Int \X Int
             PROVE  /\ Moved(d, r) \in Rects
                    /\ Covers(Moved(d, r), p) <=> Covers(d, <<p[1] - r.x, p[2] - r.y>>)
                    /\ Covers(r, p) <=> p[1] - r.x \in 0 .. r.w - 1 /\ p[2] - r.y \in 0 .. r.h - 1
  OBVIOUS
<1>1. /\ r.x \in Int /\ r.y \in Int /\ r.w \in Int /\ r.h \in Int
      /\ d.x \in Int /\ d.y \in Int /\ d.w \in Int /\ d.h \in Int
      /\ p[1] \in Int /\ p[2] \in Int
  BY DEF Rects
<1>2. /\ Moved(d, r).x = d.x + r.x /\ Moved(d, r).y = d.y + r.y
      /\ Moved(d, r).w = d.w /\ Moved(d, r).h = d.h
  BY DEF Moved, Rect
<1>3. Moved(d, r) \in Rects
  BY <1>1, RectIs DEF Moved
<1>4. Covers(Moved(d, r), p) <=> Covers(d, <<p[1] - r.x, p[2] - r.y>>)
  BY <1>1, <1>2 DEF Covers
<1>5. Covers(r, p) <=> p[1] - r.x \in 0 .. r.w - 1 /\ p[2] - r.y \in 0 .. r.h - 1
  BY <1>1 DEF Covers
<1> QED BY <1>3, <1>4, <1>5

-----------------------------------------------------------------------------
(* Blit: one pixel.                                                        *)

\* The general arm's scale stays in the source.
LEMMA ScaleStays ==
    \A c, d, s \in Int : c \in 0 .. d - 1 /\ s > 0 => Scale(c, d, s) \in 0 .. s - 1
<1> SUFFICES ASSUME NEW c \in Int, NEW d \in Int, NEW s \in Int, c \in 0 .. d - 1, s > 0
             PROVE  Scale(c, d, s) \in 0 .. s - 1
  OBVIOUS
<1>1. CASE d = s
  BY <1>1 DEF Scale
<1>2. CASE d # s
  <2>1. d > 0 /\ d # 0
    OBVIOUS
  <2>2. PICK n : n = c * s /\ n \in Int /\ n >= 0 /\ n <= (d - 1) * s
    <3>1. c * s \in Int /\ c * s >= 0 /\ c * s <= (d - 1) * s
      OBVIOUS
    <3> QED BY <3>1
  <2>3. PICK k : k = n \div d /\ k \in Int /\ d * k <= n /\ n < d * (k + 1)
    <3>1. n \div d \in Int /\ d * (n \div d) <= n /\ n < d * ((n \div d) + 1)
      BY <2>1, <2>2
    <3> QED BY <3>1
  <2>4. Scale(c, d, s) = k
    BY <1>2, <2>1, <2>2, <2>3 DEF Scale
  <2>5. k >= 0
    <3>1. ASSUME k <= -1 PROVE FALSE
      <4>1. d * (k + 1) <= 0
        BY <2>1, <2>3, <3>1
      <4> QED BY <2>2, <2>3, <4>1
    <3> QED BY <2>3, <3>1
  <2>6. k <= s - 1
    <3>1. ASSUME k >= s PROVE FALSE
      <4>1. d * s <= d * k
        BY <2>1, <2>3, <3>1
      <4>2. (d - 1) * s = d * s - s
        OBVIOUS
      <4>3. d * s \in Int /\ d * k \in Int
        BY <2>3
      <4> QED BY <2>2, <2>3, <4>1, <4>2, <4>3
    <3> QED BY <2>3, <3>1
  <2> QED BY <2>3, <2>4, <2>5, <2>6
<1> QED BY <1>1, <1>2

\* A destination mapped back is in the picture, turned or not.
LEMMA MapBackStays ==
    ASSUME NEW t \in Transforms, NEW w \in Int, NEW h \in Int, NEW u \in 0 .. w - 1,
           NEW v \in 0 .. h - 1
    PROVE  /\ Transposes(t) => /\ MapBack(t, u, v, w, h)[1] \in 0 .. h - 1
                               /\ MapBack(t, u, v, w, h)[2] \in 0 .. w - 1
           /\ ~Transposes(t) => /\ MapBack(t, u, v, w, h)[1] \in 0 .. w - 1
                                /\ MapBack(t, u, v, w, h)[2] \in 0 .. h - 1
<1>1. CASE t = "Normal"
  <2>1. MapBack(t, u, v, w, h) = <<u, v>> /\ ~Transposes(t)
    BY <1>1 DEF MapBack, Transposes
  <2> QED BY <2>1
<1>2. CASE t = "Rotate90"
  <2>1. MapBack(t, u, v, w, h) = <<v, w - 1 - u>> /\ Transposes(t)
    BY <1>2 DEF MapBack, Transposes
  <2> QED BY <2>1
<1>3. CASE t = "Rotate180"
  <2>1. MapBack(t, u, v, w, h) = <<w - 1 - u, h - 1 - v>> /\ ~Transposes(t)
    BY <1>3 DEF MapBack, Transposes
  <2> QED BY <2>1
<1>4. CASE t = "Rotate270"
  <2>1. MapBack(t, u, v, w, h) = <<h - 1 - v, u>> /\ Transposes(t)
    BY <1>4 DEF MapBack, Transposes
  <2> QED BY <2>1
<1>5. CASE t = "Flipped"
  <2>1. MapBack(t, u, v, w, h) = <<w - 1 - u, v>> /\ ~Transposes(t)
    BY <1>5 DEF MapBack, Transposes
  <2> QED BY <2>1
<1>6. CASE t = "Flipped90"
  <2>1. MapBack(t, u, v, w, h) = <<v, u>> /\ Transposes(t)
    BY <1>6 DEF MapBack, Transposes
  <2> QED BY <2>1
<1>7. CASE t = "Flipped180"
  <2>1. MapBack(t, u, v, w, h) = <<u, h - 1 - v>> /\ ~Transposes(t)
    BY <1>7 DEF MapBack, Transposes
  <2> QED BY <2>1
<1>8. CASE t = "Flipped270"
  <2>1. MapBack(t, u, v, w, h) = <<h - 1 - v, w - 1 - u>> /\ Transposes(t)
    BY <1>8 DEF MapBack, Transposes
  <2> QED BY <2>1
<1> QED BY <1>1, <1>2, <1>3, <1>4, <1>5, <1>6, <1>7, <1>8 DEF Transforms

LEMMA TexturesHold ==
    ASSUME NEW r \in Rects, WithinTexture(r)
    PROVE  /\ r.w > 0 /\ r.h > 0
           /\ \A x \in r.x .. r.x + r.w - 1, y \in r.y .. r.y + r.h - 1 : <<x, y>> \in Texels
           /\ 0 <= r.x /\ r.x + r.w <= TexSize[1] /\ 0 <= r.y /\ r.y + r.h <= TexSize[2]
<1>1. /\ r.x \in Int /\ r.y \in Int /\ r.w \in Int /\ r.h \in Int
      /\ TexSize[1] \in Nat /\ TexSize[2] \in Nat
  BY BlitAssumption DEF Rects, BlitAssumption
<1>2. /\ r.w > 0 /\ r.h > 0
      /\ \A x \in r.x .. r.x + r.w - 1, y \in r.y .. r.y + r.h - 1 : <<x, y>> \in Texels
  BY DEF WithinTexture
<1>3. <<r.x, r.y>> \in Texels
  <2>1. r.x \in r.x .. r.x + r.w - 1 /\ r.y \in r.y .. r.y + r.h - 1
    BY <1>1, <1>2
  <2> QED BY <1>2, <2>1
<1>4. <<r.x + r.w - 1, r.y + r.h - 1>> \in Texels
  <2>1. r.x + r.w - 1 \in r.x .. r.x + r.w - 1 /\ r.y + r.h - 1 \in r.y .. r.y + r.h - 1
    BY <1>1, <1>2
  <2> QED BY <1>2, <2>1
<1> QED BY <1>1, <1>2, <1>3, <1>4 DEF Texels

\* The general arm finds a texel for every pixel of the destination.
LEMMA SampleIsThere ==
    ASSUME NEW j \in TextureJob, WithinTexture(j.src), NEW p \in Int \X Int, Covers(j.dst, p)
    PROVE  Sample(j, p) \in Texels
<1>1. j.src \in Rects /\ j.dst \in Rects /\ j.transform \in Transforms
  BY DEF TextureJob
<1>2. PICK r, q, t : r = j.src /\ q = j.dst /\ t = j.transform
  OBVIOUS
<1>3. /\ r.x \in Int /\ r.y \in Int /\ r.w \in Int /\ r.h \in Int
      /\ q.x \in Int /\ q.y \in Int /\ q.w \in Int /\ q.h \in Int
  BY <1>1, <1>2 DEF Rects
<1>4. PICK u, v : /\ u = p[1] - q.x /\ v = p[2] - q.y
                  /\ u \in 0 .. q.w - 1 /\ v \in 0 .. q.h - 1
  <2>1. p[1] - q.x \in 0 .. q.w - 1 /\ p[2] - q.y \in 0 .. q.h - 1
    BY <1>1, <1>2, MovedCovers
  <2> QED BY <2>1
<1>5. PICK m : m = MapBack(t, u, v, q.w, q.h)
  OBVIOUS
<1>6. PICK e1, e2 : /\ e1 = IF Transposes(t) THEN q.h ELSE q.w
                    /\ e2 = IF Transposes(t) THEN q.w ELSE q.h
  OBVIOUS
<1>7. m[1] \in 0 .. e1 - 1 /\ m[2] \in 0 .. e2 - 1
  BY <1>1, <1>2, <1>3, <1>4, <1>5, <1>6, MapBackStays
<1>8. Sample(j, p) = <<r.x + Scale(m[1], e1, r.w), r.y + Scale(m[2], e2, r.h)>>
  BY <1>2, <1>4, <1>5, <1>6 DEF Sample
<1>9. /\ r.w > 0 /\ r.h > 0
      /\ \A x \in r.x .. r.x + r.w - 1, y \in r.y .. r.y + r.h - 1 : <<x, y>> \in Texels
  BY <1>1, <1>2, TexturesHold
<1>10. PICK a, b : a = Scale(m[1], e1, r.w) /\ b = Scale(m[2], e2, r.h)
  OBVIOUS
<1>11. a \in 0 .. r.w - 1 /\ b \in 0 .. r.h - 1
  <2>1. e1 \in Int /\ e2 \in Int /\ m[1] \in Int /\ m[2] \in Int
    BY <1>3, <1>6, <1>7
  <2> QED BY <1>3, <1>7, <1>9, <1>10, <2>1, ScaleStays
<1>12. r.x + a \in r.x .. r.x + r.w - 1 /\ r.y + b \in r.y .. r.y + r.h - 1
  BY <1>3, <1>11
<1> QED BY <1>8, <1>9, <1>10, <1>12

\* The texel a pixel of the destination shows.
TexelOf(j, p) == IF OneToOne(j) THEN Straight(j, p[1], p[2]) ELSE Sample(j, p)

\* Under damage d, the pixel is to be drawn.
Due(j, d, p) ==
    LET at == IF j.op = "clear" THEN p ELSE <<p[1] - j.dst.x, p[2] - j.dst.y>>
    IN  /\ Covers(d, at)
        /\ j.op # "clear" => at[1] \in 0 .. j.dst.w - 1 /\ at[2] \in 0 .. j.dst.h - 1

Hows == {"copied", "over", "multiplied"}
Layers == [of : {"fill", "ground"} \cup (Int \X Int), how : Hows]

LEMMA LaidIs ==
    ASSUME NEW under \in Seq(Layers), NEW of \in {"fill", "ground"} \cup (Int \X Int), NEW how \in Hows
    PROVE  /\ Laid(under, of, how) \in Seq(Layers) /\ Laid(under, of, how) # <<>>
           /\ Len(Laid(under, of, how)) <= Len(under) + 1
           /\ (under # <<>> => under[1].of = of) => Laid(under, of, how)[1].of = of
<1>1. PICK layer \in Layers : layer = Layer(of, how) /\ layer.of = of
  <2>1. Layer(of, how) \in Layers /\ Layer(of, how).of = of
    BY DEF Layer, Layers
  <2> QED BY <2>1
<1>2. CASE how = "copied"
  <2>1. Laid(under, of, how) = <<layer>>
    BY <1>1, <1>2 DEF Laid
  <2> QED BY <1>1, <2>1
<1>3. CASE how # "copied"
  <2>1. Laid(under, of, how) = Append(under, layer)
    BY <1>1, <1>3 DEF Laid
  <2>2. /\ Append(under, layer) \in Seq(Layers) /\ Len(Append(under, layer)) = Len(under) + 1
        /\ Len(under) \in Nat
    OBVIOUS
  <2>3. Append(under, layer) # <<>>
    BY <2>2
  <2>4. CASE under = <<>>
    BY <1>1, <2>1, <2>3, <2>4
  <2>5. CASE under # <<>>
    <3>1. Append(under, layer)[1] = under[1]
      BY <2>5
    <3> QED BY <2>1, <2>2, <2>3, <2>5, <3>1
  <2> QED BY <2>4, <2>5
<1> QED BY <1>2, <1>3

\* What one damaged rectangle leaves of a pixel: nothing is put on it, or a
\* layer with its texel.
Put(under, of, after) == after = under \/ \E how \in Hows : after = Laid(under, of, how)

LEMMA GeneralPuts ==
    ASSUME NEW j \in TextureJob, NEW tex, NEW p \in Int \X Int, NEW under
    PROVE  /\ Put(under, Sample(j, p), GeneralPixel(j, tex, p, under))
           /\ GeneralPixel(j, tex, p, under) = under \/ Sample(j, p) \in Texels
           /\ AllOpaque(tex, Texels) /\ j.alpha # "none" /\ Sample(j, p) \in Texels =>
                 \E how \in Hows : GeneralPixel(j, tex, p, under) = Laid(under, Sample(j, p), how)
<1>1. PICK at : at = Sample(j, p)
  OBVIOUS
<1>2. GeneralPixel(j, tex, p, under) =
          IF at \notin Texels \/ j.alpha = "none" \/ tex[at] = "clear" THEN under
          ELSE Laid(under, at, IF tex[at] = "opaque" /\ j.alpha = "full" THEN "copied" ELSE "over")
  BY <1>1 DEF GeneralPixel
<1>3. PICK how \in Hows : how = IF tex[at] = "opaque" /\ j.alpha = "full" THEN "copied" ELSE "over"
  BY DEF Hows
<1>4. AllOpaque(tex, Texels) /\ at \in Texels => tex[at] # "clear"
  BY DEF AllOpaque
<1> QED BY <1>1, <1>2, <1>3, <1>4 DEF Put

LEMMA FastPuts ==
    ASSUME NEW j \in TextureJob, NEW tex, NEW hint, NEW clip, NEW p \in Int \X Int, NEW under
    PROVE  /\ Put(under, Straight(j, p[1], p[2]), FastPixel(j, tex, hint, clip, p, under))
           /\ AllOpaque(tex, Texels) /\ p[1] \in RowOf(j, clip, p[2])
              /\ Straight(j, p[1], p[2]) \in Texels =>
                 \E how \in Hows :
                    FastPixel(j, tex, hint, clip, p, under) = Laid(under, Straight(j, p[1], p[2]), how)
<1>1. PICK at : at = Straight(j, p[1], p[2])
  OBVIOUS
<1>2. CASE p[1] \notin RowOf(j, clip, p[2])
  BY <1>2 DEF FastPixel, Put
<1>3. CASE p[1] \in RowOf(j, clip, p[2])
  <2>1. FastPixel(j, tex, hint, clip, p, under) =
            IF RowIsOpaque(j, tex, hint, clip, p[2]) \/ tex[at] = "opaque" THEN Laid(under, at, "copied")
            ELSE IF tex[at] = "half" THEN Laid(under, at, "multiplied") ELSE under
    BY <1>1, <1>3 DEF FastPixel
  <2>2. "copied" \in Hows /\ "multiplied" \in Hows
    BY DEF Hows
  <2>3. AllOpaque(tex, Texels) /\ at \in Texels => tex[at] = "opaque"
    BY DEF AllOpaque
  <2> QED BY <1>1, <2>1, <2>2, <2>3 DEF Put
<1> QED BY <1>2, <1>3

\* A row of the 1:1 arm holds every pixel of the destination under the damage.
LEMMA RowHolds ==
    ASSUME NEW j \in TextureJob, OneToOne(j), WithinTexture(j.src), NEW clip \in Rects,
           NEW p \in Int \X Int, Covers(clip, p), Covers(j.dst, p),
           Covers(j.dst, <<clip.x, p[2]>>)
    PROVE  p[1] \in RowOf(j, clip, p[2]) /\ Straight(j, p[1], p[2]) \in Texels
<1>1. PICK r, q : r = j.src /\ q = j.dst /\ r \in Rects /\ q \in Rects
  BY DEF TextureJob
<1>2. /\ r.x \in Int /\ r.y \in Int /\ r.w \in Int /\ r.h \in Int
      /\ q.x \in Int /\ q.y \in Int /\ q.w \in Int /\ q.h \in Int
      /\ clip.x \in Int /\ clip.y \in Int /\ clip.w \in Int /\ clip.h \in Int
      /\ p[1] \in Int /\ p[2] \in Int
      /\ TexSize[1] \in Nat /\ TexSize[2] \in Nat
  BY <1>1, BlitAssumption DEF Rects, BlitAssumption
<1>3. r.w = q.w /\ r.h = q.h
  BY <1>1 DEF OneToOne
<1>4. /\ 0 <= r.x /\ r.x + r.w <= TexSize[1] /\ 0 <= r.y /\ r.y + r.h <= TexSize[2]
  BY <1>1, TexturesHold
<1>5. /\ clip.x <= p[1] /\ p[1] < clip.x + clip.w
      /\ q.x <= p[1] /\ p[1] < q.x + q.w /\ q.y <= p[2] /\ p[2] < q.y + q.h
      /\ q.x <= clip.x
  BY <1>1, <1>2 DEF Covers
<1>6. PICK sx0, room : sx0 = r.x + (clip.x - q.x) /\ room = TexSize[1] - sx0
  OBVIOUS
<1>7. PICK n : n = Min({clip.w, room}) /\ n = IF clip.w <= room THEN clip.w ELSE room
  <2>1. clip.w \in Int /\ room \in Int
    BY <1>2, <1>6
  <2> QED BY <2>1, SmallerAndLarger
<1>8. r.y + (p[2] - q.y) \in 0 .. TexSize[2] - 1 /\ sx0 >= 0
  BY <1>2, <1>3, <1>4, <1>5, <1>6
<1>9. RowOf(j, clip, p[2]) = clip.x .. clip.x + n - 1
  BY <1>1, <1>6, <1>7, <1>8 DEF RowOf
<1>10. p[1] \in RowOf(j, clip, p[2])
  <2>1. p[1] < clip.x + clip.w /\ p[1] < clip.x + room
    BY <1>2, <1>3, <1>4, <1>5, <1>6
  <2>2. n \in {clip.w, room} /\ room \in Int
    BY <1>2, <1>6, <1>7
  <2>3. p[1] \in clip.x .. clip.x + n - 1
    BY <1>2, <1>5, <2>1, <2>2
  <2> QED BY <1>9, <2>3
<1>11. r.x + (p[1] - q.x) \in 0 .. TexSize[1] - 1
  BY <1>2, <1>3, <1>4, <1>5
<1> QED BY <1>1, <1>8, <1>10, <1>11 DEF Straight, Texels

LEMMA TexelOfIs ==
    ASSUME NEW j \in TextureJob, NEW p \in Int \X Int
    PROVE  Straight(j, p[1], p[2]) \in Int \X Int
<1>1. PICK r, q : r = j.src /\ q = j.dst /\ r \in Rects /\ q \in Rects
  BY DEF TextureJob
<1>2. r.x \in Int /\ r.y \in Int /\ q.x \in Int /\ q.y \in Int
  BY <1>1 DEF Rects
<1> QED BY <1>1, <1>2 DEF Straight

\* What a damaged rectangle may leave of a pixel, and what it must.
Painted(under, after, due, must, of) ==
    /\ after \in Seq(Layers)
    /\ after = under \/ (after # <<>> /\ Len(after) <= Len(under) + 1 /\ due)
    /\ due /\ must => after # <<>>
    /\ (under # <<>> => under[1].of = of) => (after # <<>> => after[1].of = of)

LEMMA PutPaints ==
    ASSUME NEW under \in Seq(Layers), NEW of, NEW after, NEW due \in BOOLEAN, NEW must \in BOOLEAN,
           Put(under, of, after), after # under => due /\ of \in {"fill", "ground"} \cup (Int \X Int),
           due /\ must => after # <<>>
    PROVE  Painted(under, after, due, must, of)
<1>1. CASE after = under
  BY <1>1 DEF Painted
<1>2. CASE after # under
  <2>1. PICK how \in Hows : after = Laid(under, of, how)
    BY <1>2 DEF Put
  <2>2. /\ after \in Seq(Layers) /\ after # <<>> /\ Len(after) <= Len(under) + 1
        /\ (under # <<>> => under[1].of = of) => after[1].of = of
    BY <1>2, <2>1, LaidIs
  <2> QED BY <1>2, <2>2 DEF Painted
<1> QED BY <1>1, <1>2

\* A rectangle of a texture's damage, pixel by pixel.
LEMMA TexturePaints ==
    ASSUME NEW j \in TextureJob, NEW tex, NEW hint, NEW d \in Rects, NEW p \in Canvas,
           NEW under, under = outputPixels[p], under \in Seq(Layers),
           NEW must \in BOOLEAN,
           must => AllOpaque(tex, Texels) /\ j.alpha # "none" /\ WithinTexture(j.src)
    PROVE  Painted(under, Blitted(j, tex, hint, Moved(d, j.dst))[p], Due(j, d, p), must, TexelOf(j, p))
<1>1. PICK q \in Rects : q = j.dst
  BY DEF TextureJob
<1>2. PICK clip : clip = Intersect(Intersect(Moved(d, q), q), Bounds(CanvasSize))
  OBVIOUS
<1>3. PICK after : after = Blitted(j, tex, hint, Moved(d, q))[p]
  OBVIOUS
<1>4. after = IF ~Covers(clip, p) THEN under
              ELSE IF OneToOne(j) THEN FastPixel(j, tex, hint, clip, p, under)
              ELSE GeneralPixel(j, tex, p, under)
  BY <1>1, <1>2, <1>3 DEF Blitted
<1>5. p \in Int \X Int /\ Covers(Bounds(CanvasSize), p) /\ Bounds(CanvasSize) \in Rects
  BY CanvasIsCovered
<1>6. /\ clip \in Rects
      /\ Covers(clip, p) <=> Covers(Moved(d, q), p) /\ Covers(q, p)
  <2>1. Moved(d, q) \in Rects
    BY <1>5, MovedCovers
  <2>2. PICK m \in Rects : m = Moved(d, q)
    BY <2>1
  <2>3. PICK one \in Rects : one = Intersect(m, q) /\ (Covers(one, p) <=> Covers(m, p) /\ Covers(q, p))
    BY <1>5, OverlapCovers
  <2>4. clip \in Rects /\ (Covers(clip, p) <=> Covers(one, p) /\ Covers(Bounds(CanvasSize), p))
    BY <1>2, <1>5, <2>2, <2>3, OverlapCovers
  <2> QED BY <1>5, <2>2, <2>3, <2>4
<1>12. ASSUME NEW x \in Int \X Int, Covers(clip, x) PROVE Covers(q, x)
  <2>1. PICK m \in Rects : m = Moved(d, q)
    BY <1>5, MovedCovers
  <2>2. PICK one \in Rects : one = Intersect(m, q) /\ (Covers(one, x) <=> Covers(m, x) /\ Covers(q, x))
    BY OverlapCovers
  <2>3. Covers(clip, x) <=> Covers(one, x) /\ Covers(Bounds(CanvasSize), x)
    BY <1>2, <1>5, <2>1, <2>2, OverlapCovers
  <2> QED BY <1>12, <2>2, <2>3
<1>7. Covers(clip, p) <=> Due(j, d, p)
  <2>1. j.op = "texture"
    BY DEF TextureJob
  <2>2. j.op # "clear"
    BY <2>1
  <2>3. Due(j, d, p) <=> /\ Covers(d, <<p[1] - q.x, p[2] - q.y>>)
                         /\ p[1] - q.x \in 0 .. q.w - 1 /\ p[2] - q.y \in 0 .. q.h - 1
    BY <1>1, <2>2 DEF Due
  <2>4. /\ Covers(Moved(d, q), p) <=> Covers(d, <<p[1] - q.x, p[2] - q.y>>)
        /\ Covers(q, p) <=> p[1] - q.x \in 0 .. q.w - 1 /\ p[2] - q.y \in 0 .. q.h - 1
    BY <1>5, MovedCovers
  <2> QED BY <1>6, <2>3, <2>4
<1>8. PICK due \in BOOLEAN : due = Due(j, d, p)
  BY DEF Due
<1>9. CASE ~due
  <2>1. after = under
    BY <1>4, <1>7, <1>8, <1>9
  <2>2. Painted(under, after, due, must, TexelOf(j, p))
    BY <1>9, <2>1 DEF Painted
  <2> QED BY <1>1, <1>3, <1>8, <2>2
<1>10. CASE due /\ OneToOne(j)
  <2>1. PICK of : of = Straight(j, p[1], p[2]) /\ of = TexelOf(j, p) /\ of \in Int \X Int
    BY <1>5, <1>10, TexelOfIs DEF TexelOf
  <2>2. after = FastPixel(j, tex, hint, clip, p, under)
    BY <1>4, <1>7, <1>8, <1>10
  <2>3. /\ Put(under, of, after)
        /\ AllOpaque(tex, Texels) /\ p[1] \in RowOf(j, clip, p[2]) /\ of \in Texels =>
              \E how \in Hows : after = Laid(under, of, how)
    <3>1. PICK at, drawn : at = Straight(j, p[1], p[2]) /\ drawn = FastPixel(j, tex, hint, clip, p, under)
      OBVIOUS
    <3>2. Put(under, at, drawn)
      BY <1>5, <3>1, FastPuts
    <3>3. AllOpaque(tex, Texels) /\ p[1] \in RowOf(j, clip, p[2]) /\ at \in Texels =>
             \E how \in Hows : drawn = Laid(under, at, how)
      BY <1>5, <3>1, FastPuts
    <3> QED BY <2>1, <2>2, <3>1, <3>2, <3>3
  <2>4. must => p[1] \in RowOf(j, clip, p[2]) /\ of \in Texels
    <3>1. Covers(clip, p) /\ Covers(q, p)
      BY <1>6, <1>7, <1>8, <1>10
    <3>2. Covers(q, <<clip.x, p[2]>>)
      <4>1. clip.x \in Int /\ clip.y \in Int /\ clip.w \in Int /\ clip.h \in Int
            /\ p[1] \in Int /\ p[2] \in Int
        BY <1>5, <1>6 DEF Rects
      <4>2. Covers(clip, <<clip.x, p[2]>>) /\ <<clip.x, p[2]>> \in Int \X Int
        BY <3>1, <4>1 DEF Covers
      <4> QED BY <1>12, <4>2
    <3> QED BY <1>1, <1>5, <1>6, <1>10, <2>1, <3>1, <3>2, RowHolds
  <2>5. due /\ must => after # <<>>
    <3>1. ASSUME must PROVE after # <<>>
      <4>1. PICK how \in Hows : after = Laid(under, of, how)
        BY <2>3, <2>4, <3>1
      <4>2. of \in {"fill", "ground"} \cup (Int \X Int)
        BY <2>1
      <4>3. under \in Seq(Layers)
        OBVIOUS
      <4>4. Laid(under, of, how) # <<>>
        BY <4>2, <4>3, LaidIs
      <4> QED BY <4>1, <4>4
    <3> QED BY <3>1
  <2>6. Painted(under, after, due, must, of)
    BY <1>10, <2>1, <2>3, <2>5, PutPaints
  <2> QED BY <1>1, <1>3, <1>8, <2>1, <2>6
<1>11. CASE due /\ ~OneToOne(j)
  <2>1. PICK of : of = Sample(j, p) /\ of = TexelOf(j, p)
    BY <1>11 DEF TexelOf
  <2>2. after = GeneralPixel(j, tex, p, under)
    BY <1>4, <1>7, <1>8, <1>11
  <2>3. /\ Put(under, of, after)
        /\ after = under \/ of \in Texels
        /\ AllOpaque(tex, Texels) /\ j.alpha # "none" /\ of \in Texels =>
              \E how \in Hows : after = Laid(under, of, how)
    <3>1. PICK at, drawn : at = Sample(j, p) /\ drawn = GeneralPixel(j, tex, p, under)
      OBVIOUS
    <3>2. Put(under, at, drawn) /\ (drawn = under \/ at \in Texels)
      BY <1>5, <3>1, GeneralPuts
    <3>3. AllOpaque(tex, Texels) /\ j.alpha # "none" /\ at \in Texels =>
             \E how \in Hows : drawn = Laid(under, at, how)
      BY <1>5, <3>1, GeneralPuts
    <3> QED BY <2>1, <2>2, <3>1, <3>2, <3>3
  <2>4. Texels \subseteq Int \X Int
    BY BlitAssumption DEF Texels, BlitAssumption
  <2>5. must => of \in Texels
    <3>1. Covers(q, p)
      BY <1>6, <1>7, <1>8, <1>11
    <3> QED BY <1>1, <1>5, <2>1, <3>1, SampleIsThere
  <2>6. due /\ must => after # <<>>
    <3>1. ASSUME must PROVE after # <<>>
      <4>1. PICK how \in Hows : after = Laid(under, of, how)
        BY <2>3, <2>5, <3>1
      <4>2. of \in {"fill", "ground"} \cup (Int \X Int)
        BY <2>4, <2>5, <3>1
      <4>3. under \in Seq(Layers)
        OBVIOUS
      <4>4. Laid(under, of, how) # <<>>
        BY <4>2, <4>3, LaidIs
      <4> QED BY <4>1, <4>4
    <3> QED BY <3>1
  <2>7. Painted(under, after, due, must, of)
    BY <1>11, <2>3, <2>4, <2>6, PutPaints
  <2> QED BY <1>1, <1>3, <1>8, <2>1, <2>7
<1> QED BY <1>9, <1>10, <1>11

\* What a job paints a pixel with, and when it must paint all it is given.
Shown(j, p) ==
    CASE j.op = "texture" -> TexelOf(j, p)
      [] j.op = "clear" /\ j.ground -> "ground"
      [] OTHER -> "fill"
Plain(j, texture) ==
    j.op = "texture" => /\ AllOpaque(texture.alpha, Texels) /\ j.alpha # "none"
                        /\ WithinTexture(j.src)

LEMMA FilledIs ==
    ASSUME NEW area \in Rects, NEW alpha, NEW p \in Canvas, NEW under, under = outputPixels[p],
           under \in Seq(Layers), NEW due \in BOOLEAN, due = Covers(area, p), NEW must \in BOOLEAN
    PROVE  Painted(under, Filled(area, alpha)[p], due, must, "fill")
<1>1. PICK r : r = Intersect(area, Bounds(CanvasSize))
  OBVIOUS
<1>2. Covers(r, p) <=> due
  BY <1>1, CanvasIsCovered, OverlapCovers
<1>3. PICK how \in Hows : how = IF alpha = "full" THEN "copied" ELSE "over"
  BY DEF Hows
<1>4. Filled(area, alpha)[p] = IF Covers(r, p) THEN Laid(under, "fill", how) ELSE under
  BY <1>1, <1>3 DEF Filled
<1>5. Laid(under, "fill", how) # <<>>
  BY LaidIs
<1>6. Put(under, "fill", Filled(area, alpha)[p])
  BY <1>3, <1>4 DEF Put
<1> QED BY <1>2, <1>4, <1>5, <1>6, PutPaints

LEMMA SolidPaints ==
    ASSUME NEW j \in SolidJob, NEW d \in Rects, NEW p \in Canvas, NEW under, under = outputPixels[p],
           under \in Seq(Layers), NEW must \in BOOLEAN
    PROVE  Painted(under, Filled(Intersect(j.dst, Moved(d, j.dst)), j.alpha)[p], Due(j, d, p), must,
                   "fill")
<1>1. PICK q \in Rects : q = j.dst
  BY DEF SolidJob
<1>2. p \in Int \X Int
  BY CanvasIsCovered
<1>3. PICK m \in Rects : m = Moved(d, q)
  BY <1>2, MovedCovers
<1>4. PICK area \in Rects : area = Intersect(q, m) /\ (Covers(area, p) <=> Covers(q, p) /\ Covers(m, p))
  BY <1>2, OverlapCovers
<1>5. Covers(area, p) <=> Due(j, d, p)
  <2>1. j.op = "solid"
    BY DEF SolidJob
  <2>2. j.op # "clear"
    BY <2>1
  <2>3. Due(j, d, p) <=> /\ Covers(d, <<p[1] - q.x, p[2] - q.y>>)
                         /\ p[1] - q.x \in 0 .. q.w - 1 /\ p[2] - q.y \in 0 .. q.h - 1
    BY <1>1, <2>2 DEF Due
  <2>4. /\ Covers(m, p) <=> Covers(d, <<p[1] - q.x, p[2] - q.y>>)
        /\ Covers(q, p) <=> p[1] - q.x \in 0 .. q.w - 1 /\ p[2] - q.y \in 0 .. q.h - 1
    BY <1>2, <1>3, MovedCovers
  <2> QED BY <1>4, <2>3, <2>4
<1>6. PICK due \in BOOLEAN : due = Due(j, d, p) /\ due = Covers(area, p)
  BY <1>5 DEF Due, Covers
<1>7. PICK alpha : alpha = j.alpha
  OBVIOUS
<1>8. Painted(under, Filled(area, alpha)[p], due, must, "fill")
  BY <1>6, FilledIs
<1> QED BY <1>1, <1>3, <1>4, <1>6, <1>7, <1>8

LEMMA ClearPaints ==
    ASSUME NEW j \in ClearJob, NEW d \in Rects, NEW p \in Canvas, NEW under, under = outputPixels[p],
           under \in Seq(Layers), NEW must \in BOOLEAN
    PROVE  /\ Painted(under, Filled(d, "full")[p], Due(j, d, p), must, "fill")
           /\ Painted(under, IF Covers(Intersect(d, Bounds(CanvasSize)), p)
                             THEN <<Layer("ground", "copied")>> ELSE under,
                      Due(j, d, p), must, "ground")
<1>1. j.op = "clear"
  BY DEF ClearJob
<1>2. PICK due \in BOOLEAN : due = Due(j, d, p) /\ due = Covers(d, p)
  BY <1>1 DEF Due, Covers
<1>3. Painted(under, Filled(d, "full")[p], due, must, "fill")
  BY <1>2, FilledIs
<1>4. Covers(Intersect(d, Bounds(CanvasSize)), p) <=> due
  BY <1>2, CanvasIsCovered, OverlapCovers
<1>5. PICK after : after = IF due THEN <<Layer("ground", "copied")>> ELSE under
  OBVIOUS
<1>6. "copied" \in Hows
  BY DEF Hows
<1>7. Laid(under, "ground", "copied") = <<Layer("ground", "copied")>>
  BY DEF Laid
<1>8. Put(under, "ground", after)
  BY <1>5, <1>6, <1>7 DEF Put
<1>9. due => after # <<>>
  BY <1>5
<1>10. Painted(under, after, due, must, "ground")
  BY <1>5, <1>8, <1>9, PutPaints
<1> QED BY <1>2, <1>3, <1>4, <1>5, <1>10

-----------------------------------------------------------------------------
(* Blit: the frame.                                                        *)

\* So many rectangles of the damage are painted, and nothing but them.
PaintedUpTo(k) ==
    /\ damageDue = SubSeq(job.damage, k + 1, Len(job.damage))
    /\ Plain(job, cachedTexture) =>
          \A p \in Canvas : outputPixels[p] # <<>> <=> \E i \in 1 .. k : Due(job, job.damage[i], p)

BlitInv ==
    /\ cachedTexture = NoTexture \/ cachedTexture \in Textures
    /\ OpaqueHintIsTrue
    /\ job \in Job \cup {NoJob}
    /\ \A p \in Canvas : outputPixels[p] \in Seq(Layers)
    /\ job = NoJob => \A p \in Canvas : outputPixels[p] = <<>>
    /\ job # NoJob =>
          /\ job.op = "texture" => cachedTexture # NoTexture
          /\ \E k \in 0 .. Len(job.damage) : PaintedUpTo(k)
          /\ \A p \in Canvas : outputPixels[p] # <<>> => outputPixels[p][1].of = Shown(job, p)

\* Whatever the frame draws, a rectangle of damage paints what it should.
LEMMA PaintStep ==
    ASSUME BlitInv, job # NoJob, NEW d \in Rects,
           RenderTextureFrom(d) \/ DrawSolid(d) \/ Clear(d), NEW p \in Canvas
    PROVE  Painted(outputPixels[p], outputPixels'[p], Due(job, d, p), Plain(job, cachedTexture),
                   Shown(job, p))
<1>1. PICK under : under = outputPixels[p] /\ under \in Seq(Layers)
  BY DEF BlitInv
<1>2. PICK must \in BOOLEAN : must = Plain(job, cachedTexture)
  BY DEF Plain
<1>3. PICK j \in Job : j = job
  BY DEF BlitInv
<1>4. CASE RenderTextureFrom(d)
  <2>1. j.op = "texture"
    BY <1>3, <1>4 DEF RenderTextureFrom
  <2>2. j \in TextureJob
    BY <1>3, <2>1 DEF Job, SolidJob, ClearJob
  <2>3. PICK tex, hint : tex = cachedTexture.alpha /\ hint = cachedTexture.opaque
    OBVIOUS
  <2>4. outputPixels' = Blitted(j, tex, hint, Moved(d, j.dst))
    BY <1>3, <1>4, <2>1, <2>3 DEF RenderTextureFrom, Translated
  <2>5. must => AllOpaque(tex, Texels) /\ j.alpha # "none" /\ WithinTexture(j.src)
    BY <1>2, <1>3, <2>1, <2>3 DEF Plain
  <2>6. Painted(under, Blitted(j, tex, hint, Moved(d, j.dst))[p], Due(j, d, p), must, TexelOf(j, p))
    BY <1>1, <2>2, <2>5, TexturePaints
  <2>7. Shown(j, p) = TexelOf(j, p)
    BY <2>1 DEF Shown
  <2> QED BY <1>1, <1>2, <1>3, <2>4, <2>6, <2>7
<1>5. CASE DrawSolid(d)
  <2>1. j.op = "solid"
    BY <1>3, <1>5 DEF DrawSolid
  <2>2. j \in SolidJob
    BY <1>3, <2>1 DEF Job, TextureJob, ClearJob
  <2>3. outputPixels' = Filled(Intersect(j.dst, Moved(d, j.dst)), j.alpha)
    BY <1>3, <1>5, <2>1 DEF DrawSolid, Translated
  <2>4. Painted(under, Filled(Intersect(j.dst, Moved(d, j.dst)), j.alpha)[p], Due(j, d, p), must,
                "fill")
    BY <1>1, <2>2, SolidPaints
  <2>5. Shown(j, p) = "fill"
    BY <2>1 DEF Shown
  <2> QED BY <1>1, <1>2, <1>3, <2>3, <2>4, <2>5
<1>6. CASE Clear(d)
  <2>1. j.op = "clear"
    BY <1>3, <1>6 DEF Clear
  <2>2. j \in ClearJob
    BY <1>3, <2>1 DEF Job, TextureJob, SolidJob
  <2>3. CASE j.ground
    <3>1. outputPixels'[p] = IF Covers(Intersect(d, Bounds(CanvasSize)), p)
                             THEN <<Layer("ground", "copied")>> ELSE under
      BY <1>1, <1>3, <1>6, <2>3 DEF Clear
    <3>2. Painted(under, IF Covers(Intersect(d, Bounds(CanvasSize)), p)
                         THEN <<Layer("ground", "copied")>> ELSE under,
                  Due(j, d, p), must, "ground")
      BY <1>1, <2>2, ClearPaints
    <3>3. Shown(j, p) = "ground"
      BY <2>1, <2>3 DEF Shown
    <3> QED BY <1>1, <1>2, <1>3, <3>1, <3>2, <3>3
  <2>4. CASE ~j.ground
    <3>1. outputPixels' = Filled(d, "full")
      BY <1>3, <1>6, <2>4 DEF Clear
    <3>2. Painted(under, Filled(d, "full")[p], Due(j, d, p), must, "fill")
      BY <1>1, <2>2, ClearPaints
    <3>3. Shown(j, p) = "fill"
      BY <2>1, <2>4 DEF Shown
    <3> QED BY <1>1, <1>2, <1>3, <3>1, <3>2, <3>3
  <2> QED BY <2>3, <2>4
<1> QED BY <1>4, <1>5, <1>6

LEMMA ImportKeepsTheHint ==
    ASSUME BlitInv, NEW b \in Buffers, NEW damage, NEW hasSurface,
           ImportShmBuffer(b, damage, hasSurface)
    PROVE  /\ cachedTexture' \in Textures
           /\ cachedTexture'.opaque => AllOpaque(cachedTexture'.alpha, Texels)
<1>1. b.format \in {"Argb", "Xrgb"} /\ b.alpha \in [Texels -> Alphas]
  BY BlitAssumption DEF BlitAssumption
<1>2. PICK new \in [Texels -> Alphas] : new = CopyNormalising(b)
  <2>1. [t \in Texels |-> "opaque"] \in [Texels -> Alphas]
    BY DEF Alphas
  <2> QED BY <1>1, <2>1 DEF CopyNormalising
<1>3. CASE ImportFull(b)
  <2>1. cachedTexture' = [format |-> b.format, alpha |-> new, opaque |-> AllOpaque(new, Texels)]
    BY <1>2, <1>3 DEF ImportFull
  <2>2. AllOpaque(new, Texels) \in BOOLEAN
    BY DEF AllOpaque
  <2> QED BY <1>1, <2>1, <2>2 DEF Textures
<1>4. CASE ImportDamaged(b, damage) /\ Reusable(b)
  <2>1. PICK hit : hit = {t \in Texels : \E d \in damage : Covers(d, t)}
    OBVIOUS
  <2>2. PICK old \in Textures : old = cachedTexture /\ (old.opaque => AllOpaque(old.alpha, Texels))
    BY <1>4 DEF BlitInv, Reusable, OpaqueHintIsTrue
  <2>3. PICK mixed \in [Texels -> Alphas] :
           mixed = [t \in Texels |-> IF t \in hit THEN new[t] ELSE old.alpha[t]]
    <3>1. old.alpha \in [Texels -> Alphas]
      BY DEF Textures
    <3> QED BY <3>1
  <2>4. PICK flag \in BOOLEAN : flag = (old.opaque /\ AllOpaque(new, hit))
    OBVIOUS
  <2>5. cachedTexture' = [format |-> old.format, alpha |-> mixed, opaque |-> flag]
    BY <1>2, <1>4, <2>1, <2>2, <2>3, <2>4 DEF ImportDamaged, Textures
  <2>6. flag => AllOpaque(mixed, Texels)
    BY <2>1, <2>2, <2>3, <2>4 DEF AllOpaque
  <2>7. old.format \in {"Argb", "Xrgb"}
    BY DEF Textures
  <2> QED BY <2>5, <2>6, <2>7 DEF Textures
<1> QED BY <1>3, <1>4 DEF ImportShmBuffer

LEMMA BlitInitHolds == BlitInit => BlitInv
<1> SUFFICES ASSUME BlitInit PROVE BlitInv
  OBVIOUS
<1>1. /\ cachedTexture = NoTexture /\ job = NoJob
      /\ outputPixels = [p \in Canvas |-> <<>>]
  BY DEF BlitInit
<1>2. NoTexture \notin Textures
  BY BlitAssumption DEF BlitAssumption
<1>3. <<>> \in Seq(Layers)
  OBVIOUS
<1> QED BY <1>1, <1>2, <1>3 DEF BlitInv, OpaqueHintIsTrue

LEMMA BlitStepHolds == BlitInv /\ [BlitNext]_blitVars => BlitInv'
<1> SUFFICES ASSUME BlitInv, [BlitNext]_blitVars PROVE BlitInv'
  OBVIOUS
<1>1. NoJob \notin Job /\ NoTexture \notin Textures /\ Jobs \subseteq Job
  BY BlitAssumption DEF BlitAssumption
<1>2. ASSUME NEW b \in Buffers, NEW damage, NEW hasSurface, ImportShmBuffer(b, damage, hasSurface)
      PROVE  BlitInv'
  <2>1. /\ cachedTexture' \in Textures
        /\ cachedTexture'.opaque => AllOpaque(cachedTexture'.alpha, Texels)
    BY <1>2, ImportKeepsTheHint
  <2>2. job = NoJob /\ UNCHANGED <<job, damageDue, outputPixels>>
    BY <1>2 DEF ImportShmBuffer
  <2> QED BY <2>1, <2>2 DEF BlitInv, OpaqueHintIsTrue
<1>3. ASSUME NEW j \in Jobs, BeginDraw(j) PROVE BlitInv'
  <2>1. /\ job = NoJob /\ (j.op = "texture" => cachedTexture # NoTexture)
        /\ job' = NuriJob(j) /\ damageDue' = j.damage /\ UNCHANGED <<cachedTexture, outputPixels>>
    BY <1>3 DEF BeginDraw
  <2>2. PICK n : n = NuriJob(j) /\ n \in Job /\ n.op = j.op /\ n.damage = j.damage
    <3>1. CASE j.op = "texture"
      <4>1. j \in TextureJob
        BY <1>1, <3>1 DEF Job, SolidJob, ClearJob
      <4>2. Cut(j.src) \in Rects
        <5>1. PICK r \in Rects : r = j.src
          BY <4>1 DEF TextureJob
        <5>2. r.x \div 2 \in Int /\ r.y \div 2 \in Int /\ r.w \div 2 \in Int /\ r.h \div 2 \in Int
          BY DEF Rects
        <5> QED BY <5>1, <5>2, RectIs DEF Cut
      <4>3. NuriJob(j) = [j EXCEPT !.src = Cut(j.src)]
        BY <3>1 DEF NuriJob
      <4>4. [j EXCEPT !.src = Cut(j.src)] \in TextureJob
        BY <4>1, <4>2 DEF TextureJob
      <4>5. NuriJob(j).op = j.op /\ NuriJob(j).damage = j.damage
        BY <4>1, <4>3 DEF TextureJob
      <4> QED BY <4>3, <4>4, <4>5 DEF Job
    <3>2. CASE j.op # "texture"
      <4>1. NuriJob(j) = j
        BY <3>2 DEF NuriJob
      <4> QED BY <1>1, <4>1
    <3> QED BY <3>1, <3>2
  <2>3. n.damage \in Seq(Rects)
    BY <2>2 DEF Job, TextureJob, SolidJob, ClearJob
  <2>4. \A p \in Canvas : outputPixels'[p] = <<>>
    BY <2>1 DEF BlitInv
  <2>5. SubSeq(n.damage, 0 + 1, Len(n.damage)) = n.damage /\ 0 \in 0 .. Len(n.damage)
    BY <2>3
  <2>6. PaintedUpTo(0)'
    BY <2>1, <2>2, <2>4, <2>5 DEF PaintedUpTo
  <2>7. <<>> \in Seq(Layers)
    OBVIOUS
  <2>8. job' # NoJob /\ job' \in Job
    BY <1>1, <2>1, <2>2
  <2>9. \E k \in 0 .. Len(job'.damage) : PaintedUpTo(k)'
    BY <2>1, <2>2, <2>5, <2>6
  <2> QED BY <2>1, <2>2, <2>4, <2>7, <2>8, <2>9 DEF BlitInv, OpaqueHintIsTrue
<1>4. CASE PaintDamage
  <2>1. /\ job # NoJob /\ damageDue # <<>> /\ damageDue' = Tail(damageDue)
        /\ UNCHANGED <<cachedTexture, job>>
    BY <1>4 DEF PaintDamage
  <2>2. PICK all \in Seq(Rects) : all = job.damage
    <3>1. job \in Job
      BY <2>1 DEF BlitInv
    <3> QED BY <3>1 DEF Job, TextureJob, SolidJob, ClearJob
  <2>3. PICK k \in 0 .. Len(all) : PaintedUpTo(k)
    BY <2>1, <2>2 DEF BlitInv
  <2>4. damageDue = SubSeq(all, k + 1, Len(all))
    BY <2>2, <2>3 DEF PaintedUpTo
  <2>5. /\ k + 1 \in 1 .. Len(all) /\ Head(damageDue) = all[k + 1]
        /\ Tail(damageDue) = SubSeq(all, (k + 1) + 1, Len(all))
    <3>1. k # Len(all)
      BY <2>1, <2>4
    <3> QED BY <2>4, <3>1
  <2>6. PICK d \in Rects : d = all[k + 1]
    BY <2>5
  <2>7. RenderTextureFrom(d) \/ DrawSolid(d) \/ Clear(d)
    BY <1>4, <2>5, <2>6 DEF PaintDamage
  <2>8. ASSUME NEW p \in Canvas
        PROVE  Painted(outputPixels[p], outputPixels'[p], Due(job, d, p), Plain(job, cachedTexture),
                       Shown(job, p))
    BY <2>1, <2>7, PaintStep
  <2>9. ASSUME NEW p \in Canvas
        PROVE  /\ outputPixels'[p] \in Seq(Layers)
               /\ outputPixels'[p] # <<>> => outputPixels'[p][1].of = Shown(job, p)
    <3>1. outputPixels[p] # <<>> => outputPixels[p][1].of = Shown(job, p)
      BY <2>1 DEF BlitInv
    <3> QED BY <2>8, <3>1 DEF Painted
  <2>10. ASSUME NEW p \in Canvas, Plain(job, cachedTexture)
         PROVE  outputPixels'[p] # <<>> <=> \E i \in 1 .. k + 1 : Due(job, all[i], p)
    <3>1. outputPixels[p] # <<>> <=> \E i \in 1 .. k : Due(job, all[i], p)
      BY <2>2, <2>3, <2>10 DEF PaintedUpTo
    <3>2. /\ outputPixels'[p] = outputPixels[p] \/ (outputPixels'[p] # <<>> /\ Due(job, all[k + 1], p))
          /\ Due(job, all[k + 1], p) => outputPixels'[p] # <<>>
      BY <2>6, <2>8, <2>10 DEF Painted
    <3>3. (\E i \in 1 .. k + 1 : Due(job, all[i], p))
            <=> (\E i \in 1 .. k : Due(job, all[i], p)) \/ Due(job, all[k + 1], p)
      <4> DEFINE G(i) == Due(job, all[i], p)
      <4> HIDE DEF G
      <4>1. (\E i \in 1 .. k + 1 : G(i)) <=> (\E i \in 1 .. k : G(i)) \/ G(k + 1)
        BY <2>3
      <4> QED BY <4>1 DEF G
    <3> QED BY <3>1, <3>2, <3>3
  <2>11. PaintedUpTo(k + 1)'
    BY <2>1, <2>2, <2>5, <2>10 DEF PaintedUpTo
  <2>12. \E m \in 0 .. Len(job'.damage) : PaintedUpTo(m)'
    <3>1. k + 1 \in 0 .. Len(job'.damage)
      BY <2>1, <2>2, <2>5
    <3> QED BY <2>11, <3>1
  <2> QED BY <2>1, <2>9, <2>12 DEF BlitInv, OpaqueHintIsTrue
<1>5. CASE UNCHANGED blitVars
  BY <1>5 DEF blitVars, BlitInv, OpaqueHintIsTrue, PaintedUpTo
<1> QED BY <1>2, <1>3, <1>4, <1>5 DEF BlitNext

-----------------------------------------------------------------------------
(* Blit: where a texel lands.                                              *)

Mirrored == {"Flipped", "Flipped90", "Flipped180", "Flipped270"}

\* Texel <<a, b>> of a picture of w by h lands at <<u, v>> in dw by dh.
LandsAt(t, w, h, a, b, dw, dh, u, v) ==
    LET m == Turned(Quarters(t), a, b, w, h)
    IN  /\ <<dw, dh>> = IF Quarters(t) % 2 = 1 THEN <<h, w>> ELSE <<w, h>>
        /\ u = IF t \in Mirrored THEN dw - 1 - m[1] ELSE m[1]
        /\ v = m[2]

\* The map back undoes the turn and the mirror.
LEMMA MapBackReturns ==
    ASSUME NEW t \in Transforms, NEW w \in Int, NEW h \in Int, NEW a \in Int, NEW b \in Int,
           NEW dw, NEW dh, NEW u, NEW v, LandsAt(t, w, h, a, b, dw, dh, u, v)
    PROVE  /\ MapBack(t, u, v, dw, dh) = <<a, b>> /\ u \in Int /\ v \in Int
           /\ Transposes(t) => dw = h /\ dh = w
           /\ ~Transposes(t) => dw = w /\ dh = h
<1> DEFINE m == Turned(Quarters(t), a, b, w, h)
<1>9. /\ <<dw, dh>> = IF Quarters(t) % 2 = 1 THEN <<h, w>> ELSE <<w, h>>
      /\ u = (IF t \in Mirrored THEN dw - 1 - m[1] ELSE m[1]) /\ v = m[2]
  BY DEF LandsAt
<1>1. CASE t = "Normal"
  <2>1. Quarters(t) = 0 /\ ~Transposes(t) /\ t \notin Mirrored
    BY <1>1 DEF Quarters, Transposes, Mirrored
  <2>2. m = <<a, b>> /\ dw = w /\ dh = h
    BY <1>9, <2>1 DEF Turned
  <2>3. MapBack(t, u, v, dw, dh) = <<u, v>>
    BY <1>1 DEF MapBack
  <2> QED BY <1>9, <2>1, <2>2, <2>3
<1>2. CASE t = "Rotate90"
  <2>1. Quarters(t) = 1 /\ Transposes(t) /\ t \notin Mirrored
    BY <1>2 DEF Quarters, Transposes, Mirrored
  <2>2. m = <<h - 1 - b, a>> /\ dw = h /\ dh = w
    BY <1>9, <2>1 DEF Turned
  <2>3. MapBack(t, u, v, dw, dh) = <<v, dw - 1 - u>>
    BY <1>2 DEF MapBack
  <2> QED BY <1>9, <2>1, <2>2, <2>3
<1>3. CASE t = "Rotate180"
  <2>1. Quarters(t) = 2 /\ ~Transposes(t) /\ t \notin Mirrored
    BY <1>3 DEF Quarters, Transposes, Mirrored
  <2>2. m = <<w - 1 - a, h - 1 - b>> /\ dw = w /\ dh = h
    BY <1>9, <2>1 DEF Turned
  <2>3. MapBack(t, u, v, dw, dh) = <<dw - 1 - u, dh - 1 - v>>
    BY <1>3 DEF MapBack
  <2> QED BY <1>9, <2>1, <2>2, <2>3
<1>4. CASE t = "Rotate270"
  <2>1. Quarters(t) = 3 /\ Transposes(t) /\ t \notin Mirrored
    BY <1>4 DEF Quarters, Transposes, Mirrored
  <2>2. m = <<b, w - 1 - a>> /\ dw = h /\ dh = w
    BY <1>9, <2>1 DEF Turned
  <2>3. MapBack(t, u, v, dw, dh) = <<dh - 1 - v, u>>
    BY <1>4 DEF MapBack
  <2> QED BY <1>9, <2>1, <2>2, <2>3
<1>5. CASE t = "Flipped"
  <2>1. Quarters(t) = 0 /\ ~Transposes(t) /\ t \in Mirrored
    BY <1>5 DEF Quarters, Transposes, Mirrored
  <2>2. m = <<a, b>> /\ dw = w /\ dh = h
    BY <1>9, <2>1 DEF Turned
  <2>3. MapBack(t, u, v, dw, dh) = <<dw - 1 - u, v>>
    BY <1>5 DEF MapBack
  <2> QED BY <1>9, <2>1, <2>2, <2>3
<1>6. CASE t = "Flipped90"
  <2>1. Quarters(t) = 1 /\ Transposes(t) /\ t \in Mirrored
    BY <1>6 DEF Quarters, Transposes, Mirrored
  <2>2. m = <<h - 1 - b, a>> /\ dw = h /\ dh = w
    BY <1>9, <2>1 DEF Turned
  <2>3. MapBack(t, u, v, dw, dh) = <<v, u>>
    BY <1>6 DEF MapBack
  <2> QED BY <1>9, <2>1, <2>2, <2>3
<1>7. CASE t = "Flipped180"
  <2>1. Quarters(t) = 2 /\ ~Transposes(t) /\ t \in Mirrored
    BY <1>7 DEF Quarters, Transposes, Mirrored
  <2>2. m = <<w - 1 - a, h - 1 - b>> /\ dw = w /\ dh = h
    BY <1>9, <2>1 DEF Turned
  <2>3. MapBack(t, u, v, dw, dh) = <<u, dh - 1 - v>>
    BY <1>7 DEF MapBack
  <2> QED BY <1>9, <2>1, <2>2, <2>3
<1>8. CASE t = "Flipped270"
  <2>1. Quarters(t) = 3 /\ Transposes(t) /\ t \in Mirrored
    BY <1>8 DEF Quarters, Transposes, Mirrored
  <2>2. m = <<b, w - 1 - a>> /\ dw = h /\ dh = w
    BY <1>9, <2>1 DEF Turned
  <2>3. MapBack(t, u, v, dw, dh) = <<dh - 1 - v, dw - 1 - u>>
    BY <1>8 DEF MapBack
  <2> QED BY <1>9, <2>1, <2>2, <2>3
<1> QED BY <1>1, <1>2, <1>3, <1>4, <1>5, <1>6, <1>7, <1>8 DEF Transforms

\* The pixel that turning and mirroring puts a texel on samples that texel.
LEMMA TexelReturns ==
    ASSUME NEW j \in TextureJob, AtItsSize(j), NEW at \in Int \X Int, NEW p, p = Place(j, at)
    PROVE  TexelOf(j, p) = at
<1>1. PICK r, q, t : /\ r = j.src /\ q = j.dst /\ t = j.transform
                     /\ r \in Rects /\ q \in Rects /\ t \in Transforms
  BY DEF TextureJob
<1>2. /\ r.x \in Int /\ r.y \in Int /\ r.w \in Int /\ r.h \in Int
      /\ q.x \in Int /\ q.y \in Int /\ q.w \in Int /\ q.h \in Int
      /\ at[1] \in Int /\ at[2] \in Int /\ at = <<at[1], at[2]>>
  BY <1>1 DEF Rects
<1>3. PICK a, b : a = at[1] - r.x /\ b = at[2] - r.y /\ a \in Int /\ b \in Int
  BY <1>2
<1>4. PICK m : m = Turned(Quarters(t), a, b, r.w, r.h)
  OBVIOUS
<1>5. PICK u, v : u = (IF t \in Mirrored THEN q.w - 1 - m[1] ELSE m[1]) /\ v = m[2]
  OBVIOUS
<1>6. p = <<q.x + u, q.y + v>>
  BY <1>1, <1>3, <1>4, <1>5 DEF Place, Mirrored
<1>7. <<q.w, q.h>> = IF Quarters(t) % 2 = 1 THEN <<r.h, r.w>> ELSE <<r.w, r.h>>
  BY <1>1 DEF AtItsSize
<1>8. /\ MapBack(t, u, v, q.w, q.h) = <<a, b>> /\ u \in Int /\ v \in Int
      /\ Transposes(t) => q.w = r.h /\ q.h = r.w
      /\ ~Transposes(t) => q.w = r.w /\ q.h = r.h
  <2>1. PICK w, h, dw, dh : w = r.w /\ h = r.h /\ dw = q.w /\ dh = q.h /\ w \in Int /\ h \in Int
    BY <1>2
  <2>2. LandsAt(t, w, h, a, b, dw, dh, u, v)
    BY <1>4, <1>5, <1>7, <2>1 DEF LandsAt
  <2>3. t \in Transforms /\ a \in Int /\ b \in Int
    BY <1>1, <1>3
  <2>4. /\ MapBack(t, u, v, dw, dh) = <<a, b>> /\ u \in Int /\ v \in Int
        /\ Transposes(t) => dw = h /\ dh = w
        /\ ~Transposes(t) => dw = w /\ dh = h
    BY <2>1, <2>2, <2>3, MapBackReturns
  <2> QED BY <2>1, <2>4
<1>9. p[1] - q.x = u /\ p[2] - q.y = v
  BY <1>2, <1>6, <1>8
<1>10. CASE OneToOne(j)
  <2>1. t = "Normal"
    BY <1>1, <1>10 DEF OneToOne
  <2>2. u = a /\ v = b
    BY <1>8, <2>1 DEF MapBack
  <2>3. TexelOf(j, p) = <<r.x + a, r.y + b>>
    BY <1>1, <1>9, <1>10, <2>2 DEF TexelOf, Straight
  <2> QED BY <1>2, <1>3, <2>3
<1>11. CASE ~OneToOne(j)
  <2>1. Sample(j, p) = <<r.x + Scale(a, IF Transposes(t) THEN q.h ELSE q.w, r.w),
                         r.y + Scale(b, IF Transposes(t) THEN q.w ELSE q.h, r.h)>>
    BY <1>1, <1>8, <1>9 DEF Sample
  <2>2. Scale(a, r.w, r.w) = a /\ Scale(b, r.h, r.h) = b
    BY DEF Scale
  <2>3. TexelOf(j, p) = <<r.x + a, r.y + b>>
    BY <1>8, <1>11, <2>1, <2>2 DEF TexelOf
  <2> QED BY <1>2, <1>3, <2>3
<1> QED BY <1>10, <1>11

LEMMA AllIsPainted == BlitInv => DamageIsPaintedWhole
<1> SUFFICES ASSUME BlitInv, FrameDone,
                    job.op = "texture" => /\ AllOpaque(cachedTexture.alpha, Texels)
                                          /\ job.alpha # "none" /\ WithinTexture(job.src)
             PROVE  {p \in Canvas : outputPixels[p] # <<>>} =
                       {p \in Canvas : \E i \in DOMAIN job.damage : Due(job, job.damage[i], p)}
  BY DEF DamageIsPaintedWhole, Due
<1>1. job # NoJob /\ damageDue = <<>> /\ Plain(job, cachedTexture)
  BY DEF FrameDone, Plain
<1>2. PICK all \in Seq(Rects) : all = job.damage
  <2>1. job \in Job
    BY <1>1 DEF BlitInv
  <2> QED BY <2>1 DEF Job, TextureJob, SolidJob, ClearJob
<1>3. PICK k \in 0 .. Len(all) : PaintedUpTo(k)
  BY <1>1, <1>2 DEF BlitInv
<1>4. k = Len(all)
  <2>1. SubSeq(all, k + 1, Len(all)) = <<>>
    BY <1>1, <1>2, <1>3 DEF PaintedUpTo
  <2> QED BY <1>3, <2>1
<1>5. DOMAIN job.damage = 1 .. k
  BY <1>2, <1>4
<1>6. \A p \in Canvas : outputPixels[p] # <<>> <=> \E i \in 1 .. k : Due(job, job.damage[i], p)
  BY <1>1, <1>3 DEF PaintedUpTo
<1> QED BY <1>5, <1>6

LEMMA TexelsAreInPlace == BlitInv => TexelsLandInPlace
<1> SUFFICES ASSUME BlitInv, job # NoJob, job.op = "texture", AtItsSize(job), NEW at \in Texels,
                    NEW p, p = Place(job, at), p \in Canvas, outputPixels[p] # <<>>
             PROVE  outputPixels[p][1].of = at
  BY DEF TexelsLandInPlace, FrameDone
<1>1. PICK j \in TextureJob : j = job
  BY DEF BlitInv, Job, SolidJob, ClearJob
<1>2. at \in Int \X Int
  BY BlitAssumption DEF Texels, BlitAssumption
<1>3. outputPixels[p][1].of = Shown(job, p)
  BY DEF BlitInv
<1>4. Shown(job, p) = TexelOf(job, p)
  BY DEF Shown
<1>5. TexelOf(j, p) = at
  BY <1>1, <1>2, TexelReturns
<1> QED BY <1>1, <1>3, <1>4, <1>5

\* Blit: for any texture, output and jobs, a blit paints the damage it is given
\* and nothing else, puts every texel where the transform says, and trusts no
\* opaque hint that is not true.
THEOREM BlitAlwaysPaintsTheDamage == BlitSpec => []BlitPaintsTheDamage
<1>1. BlitInv => BlitPaintsTheDamage
  BY AllIsPainted, TexelsAreInPlace DEF BlitInv, BlitPaintsTheDamage
<1> QED BY <1>1, BlitInitHolds, BlitStepHolds, PTL DEF BlitSpec

-----------------------------------------------------------------------------
(* The scene of a frame, and what of it stays on the glass.                *)

\* Leaving windows out of a list keeps the others, each where it was once.
LEMMA WithoutKeeps ==
    ASSUME NEW S, NEW s \in Seq(S), NEW gone
    PROVE  /\ Without(s, gone) \in Seq(S)
           /\ Range(Without(s, gone)) = Range(s) \ gone
           /\ IsInjective(s) => IsInjective(Without(s, gone))
<1> DEFINE keep == Range(s) \ gone
           t == Sift(s, keep)
<1>1. t \in Seq(S) /\ ToSet(t) = ToSet(s) \cap keep
  BY SiftTyped, SiftElements
<1>2. Range(t) = ToSet(t) /\ Range(s) = ToSet(s)
  BY Zenon DEF ToSet, Range
<1>3. ToSet(t) = Range(s) \ gone
  <2> HIDE DEF t
  <2> QED BY <1>1, <1>2
<1>4. ASSUME IsInjective(s) PROVE IsInjective(t)
  <2>1. PICK f : Places(f, t, s)
    BY SiftPlaces
  <2> HIDE DEF t
  <2>2. DOMAIN t = 1..Len(t) /\ DOMAIN s = 1..Len(s) /\ Len(t) \in Nat
    BY <1>1
  <2>3. ASSUME NEW i \in DOMAIN t, NEW j \in DOMAIN t, t[i] = t[j] PROVE i = j
    <3>1. /\ f[i] \in DOMAIN s /\ f[j] \in DOMAIN s
          /\ t[i] = s[f[i]] /\ t[j] = s[f[j]]
          /\ (i < j => f[i] < f[j]) /\ (j < i => f[j] < f[i])
      BY <2>1, <2>2 DEF Places
    <3>2. f[i] = f[j]
      BY <1>4, <2>3, <3>1 DEF IsInjective
    <3>3. f[i] \in Int /\ f[j] \in Int /\ i \in Int /\ j \in Int
      BY <2>2, <3>1
    <3> QED BY <3>1, <3>2, <3>3
  <2> QED BY <2>3 DEF IsInjective
<1> HIDE DEF t
<1>5. Without(s, gone) = t
  BY DEF Without, t
<1> QED BY <1>1, <1>2, <1>3, <1>4, <1>5

\* What is appended comes last, and once if it was not there.
LEMMA AppendKeeps ==
    ASSUME NEW S, NEW s \in Seq(S), NEW w \in S
    PROVE  /\ Append(s, w) \in Seq(S)
           /\ Range(Append(s, w)) = Range(s) \cup {w}
           /\ IsInjective(s) /\ w \notin Range(s) => IsInjective(Append(s, w))
<1> DEFINE t == Append(s, w)
<1>1. t \in Seq(S)
  OBVIOUS
<1>2. Range(t) = Range(s) \cup {w}
  <2>1. ToSet(t) = ToSet(s) \cup {w}
    BY AppendElements
  <2>2. Range(t) = ToSet(t) /\ Range(s) = ToSet(s)
    BY Zenon DEF ToSet, Range
  <2> HIDE DEF t
  <2> QED BY <2>1, <2>2
<1>3. ASSUME IsInjective(s), w \notin Range(s) PROVE IsInjective(t)
  <2>1. /\ DOMAIN t = 1..(Len(s) + 1) /\ DOMAIN s = 1..Len(s) /\ Len(s) \in Nat
        /\ t[Len(s) + 1] = w /\ \A i \in DOMAIN s : t[i] = s[i] /\ s[i] # w
    BY <1>3 DEF Range
  <2> HIDE DEF t
  <2>2. ASSUME NEW i \in DOMAIN t, NEW j \in DOMAIN t, t[i] = t[j] PROVE i = j
    <3>1. (i = Len(s) + 1 \/ i \in DOMAIN s) /\ (j = Len(s) + 1 \/ j \in DOMAIN s)
      BY <2>1
    <3> QED BY <1>3, <2>1, <2>2, <3>1 DEF IsInjective
  <2> QED BY <2>2 DEF IsInjective
<1> QED BY <1>1, <1>2, <1>3

\* Raising a window puts it last and loses none.
LEMMA RaisedKeeps ==
    ASSUME NEW S, NEW s \in Seq(S), NEW w \in S
    PROVE  /\ Raised(s, w) \in Seq(S)
           /\ Range(Raised(s, w)) = Range(s) \cup {w}
           /\ IsInjective(s) => IsInjective(Raised(s, w))
<1>1. PICK t \in Seq(S) : /\ t = Without(s, {w}) /\ Range(t) = Range(s) \ {w}
                          /\ IsInjective(s) => IsInjective(t)
  BY WithoutKeeps
<1>2. /\ Append(t, w) \in Seq(S) /\ Range(Append(t, w)) = Range(t) \cup {w}
      /\ IsInjective(t) /\ w \notin Range(t) => IsInjective(Append(t, w))
  BY AppendKeeps
<1>3. Raised(s, w) = Append(t, w)
  BY <1>1 DEF Raised
<1> QED BY <1>1, <1>2, <1>3

-----------------------------------------------------------------------------
(* The invariant.                                                          *)

\* No window is listed twice.
OnceEach ==
    /\ roster \in Seq(Win) /\ IsInjective(roster)
    /\ stack \in Seq(Win) /\ IsInjective(stack)

\* The notes the render loop keeps are those of its generation, as many as the
\* world they were drawn under lets on screen.
NotesOfTheirGeneration ==
    /\ shelf.generation \in Nat /\ cache.generation \in Int
    /\ cache.generation <= shelf.generation
    /\ cache.generation = shelf.generation =>
           cache.notes.shown = ShownNotes(shelf.notes, cache.notes.most)

\* The timer never runs ahead of the clock.
ToldInTime ==
    /\ words \in [file : Line \cup {"none"}, status : Line \cup {"none"},
                  cells : Line \cup {"none"}, readings : BOOLEAN, minute : Nat, told : Nat]
    /\ words.told <= words.minute

\* The ground the next frame draws is that of the file the timer last looked at.
GroundAsSeen ==
    /\ wallpaper \in [file : Pictures, stamp : Nat, seen : Int, shown : BOOLEAN,
                      pending : Picture \cup {"none", "flat"}]
    /\ wallpaper.seen <= wallpaper.stamp
    /\ ~wallpaper.shown => Ground = "flat"
    /\ wallpaper.shown /\ wallpaper.seen = wallpaper.stamp => Ground = wallpaper.file

\* At most one window in the strip is marked.
OneMarked(marks) == \A i, j \in DOMAIN marks : marks[i] /\ marks[j] => i = j

StripMarksOne ==
    glass.hidden = "no" =>
    /\ glass.bar.state.parcels \in Seq(BOOLEAN)
    /\ OneMarked(glass.bar.state.parcels)

\* The glass has what a frame drawn now would have, in all that is promised.
GlassIsTheScene ==
    /\ Range(glass.windows) = Range(stack)
    /\ glass.mode = look.mode
    /\ {c.shape : c \in glass.cursor} = {pointer} \ {"hidden"}
    /\ glass.notes.shown = ShownNotes(shelf.notes, glass.notes.most)
    /\ glass.bar.state.status = words.status
    /\ glass.bar.state.cells = words.cells
    /\ glass.bar.state.hidden = Cardinality(minimised)
    /\ glass.bar.state.accent = look.accent
    /\ glass.bar.state.minute >= words.told
    /\ glass.ground = Ground

ShownAsItStands ==
    /\ owed \in BOOLEAN
    /\ ~owed => glass.hidden = hiding /\ (hiding = "no" => GlassIsTheScene)

SceneInv == /\ OnceEach /\ NotesOfTheirGeneration /\ ToldInTime /\ GroundAsSeen
            /\ StripMarksOne /\ ShownAsItStands

-----------------------------------------------------------------------------
(* Each step keeps each part.                                              *)

\* What a step does to the lists of windows.
DeskSteps ==
    \/ UNCHANGED <<roster, stack>>
    \/ \E w \in Win : /\ w \notin Range(roster)
                      /\ roster' = Append(roster, w) /\ stack' = Without(roster', minimised)
    \/ \E m, w : roster' = Without(roster, {w}) /\ stack' = Without(roster', m)
    \/ \E m : roster' = roster /\ stack' = Without(roster, m)
    \/ \E w \in Win : roster' = roster /\ stack' = Raised(stack, w)

LEMMA EachDeskStep == SceneNext => DeskSteps
<1> SUFFICES ASSUME SceneNext PROVE DeskSteps
  OBVIOUS
<1>1. CASE \E w \in Win : NewToplevel(w)
  BY <1>1 DEF NewToplevel, ApplyLayout, DeskSteps
<1>2. CASE \E w \in Win : ToplevelDestroyed(w)
  BY <1>2 DEF ToplevelDestroyed, ApplyLayout, DeskSteps
<1>3. CASE \E w \in Win : Click(w) \/ FocusDeed(w)
  BY <1>3 DEF Click, FocusDeed, DeskSteps
<1>4. CASE \E w \in Win : Commit(w)
  BY <1>4 DEF Commit, ApplyLayout, DeskSteps
<1>5. CASE Minimise
  BY <1>5 DEF Minimise, ApplyLayout, DeskSteps
<1>6. CASE \E l \in Look : AdoptWorld(l)
  BY <1>6 DEF AdoptWorld, ApplyLayout, DeskSteps
<1>7. CASE UNCHANGED <<roster, stack>>
  BY <1>7 DEF DeskSteps
<1>8. ASSUME NEW w \in Win, NEW t \in Title, SetTitle(w, t) PROVE UNCHANGED <<roster, stack>>
  BY <1>8 DEF SetTitle
<1>9. ASSUME \/ \E h \in {"no", "lock", "dark"} : SceneHides(h)
             \/ \E p \in Shapes \cup {"hidden"} : PointerMoves(p)
             \/ \E n \in {1, 2} : NoteAdded(n) \/ NoteGone(n)
             \/ \E s \in Line : StatusSaved(s) \/ CellSet(s)
             \/ ReadingsRead \/ MinutePasses \/ SecondTimer
             \/ \E p \in Pictures : WallpaperSaved(p)
             \/ \E presented \in BOOLEAN : RenderFrame(presented)
      PROVE  UNCHANGED <<roster, stack>>
  BY <1>9 DEF SceneHides, PointerMoves, NoteAdded, NoteGone, StatusSaved, CellSet, ReadingsRead,
     MinutePasses, SecondTimer, WallpaperSaved, RenderFrame, desk
<1> QED BY <1>1, <1>2, <1>3, <1>4, <1>5, <1>6, <1>7, <1>8, <1>9, Zenon DEF SceneNext

\* A new window is listed once, and what is left out or raised was.
LEMMA OnceEachStays == OnceEach /\ SceneNext => OnceEach'
<1> SUFFICES ASSUME OnceEach, DeskSteps PROVE OnceEach'
  BY EachDeskStep
<1>1. PICK r \in Seq(Win), s \in Seq(Win) :
          r = roster /\ s = stack /\ IsInjective(r) /\ IsInjective(s)
  BY DEF OnceEach
<1>2. \A t \in Seq(Win) : IsInjective(t) => \A m :
          Without(t, m) \in Seq(Win) /\ IsInjective(Without(t, m))
  BY WithoutKeeps
<1>3. CASE UNCHANGED <<roster, stack>>
  BY <1>3 DEF OnceEach
<1>4. CASE \E w \in Win : /\ w \notin Range(roster)
                          /\ roster' = Append(roster, w) /\ stack' = Without(roster', minimised)
  <2>1. PICK w \in Win : /\ w \notin Range(r)
                         /\ roster' = Append(r, w) /\ stack' = Without(roster', minimised)
    BY <1>1, <1>4
  <2>2. Append(r, w) \in Seq(Win) /\ IsInjective(Append(r, w))
    BY <1>1, <2>1, AppendKeeps
  <2> QED BY <1>2, <2>1, <2>2 DEF OnceEach
<1>5. CASE \E m, w : roster' = Without(roster, {w}) /\ stack' = Without(roster', m)
  <2>1. PICK m, w : roster' = Without(r, {w}) /\ stack' = Without(roster', m)
    BY <1>1, <1>5
  <2>2. roster' \in Seq(Win) /\ IsInjective(roster')
    BY <1>1, <1>2, <2>1
  <2> QED BY <1>2, <2>1, <2>2 DEF OnceEach
<1>6. CASE \E m : roster' = roster /\ stack' = Without(roster, m)
  BY <1>1, <1>2, <1>6 DEF OnceEach
<1>7. CASE \E w \in Win : roster' = roster /\ stack' = Raised(stack, w)
  <2>1. PICK w \in Win : roster' = r /\ stack' = Raised(s, w)
    BY <1>1, <1>7
  <2>2. Raised(s, w) \in Seq(Win) /\ IsInjective(Raised(s, w))
    BY <1>1, RaisedKeeps
  <2> QED BY <1>1, <2>1, <2>2 DEF OnceEach
<1> QED BY <1>3, <1>4, <1>5, <1>6, <1>7 DEF DeskSteps

\* What a step does to the notes and to what the loop keeps.
LEMMA EachNoteStep ==
    SceneNext => \/ UNCHANGED <<shelf, cache>>
                 \/ cache' = cache /\ \E notes : shelf' = Shelved(notes)
                 \/ cache' = Kept /\ shelf' = shelf
<1> DEFINE goal == \/ UNCHANGED <<shelf, cache>>
                   \/ cache' = cache /\ \E notes : shelf' = Shelved(notes)
                   \/ cache' = Kept /\ shelf' = shelf
<1> SUFFICES ASSUME SceneNext PROVE goal
  OBVIOUS
<1>1. CASE \E n \in {1, 2} : NoteAdded(n) \/ NoteGone(n)
  BY <1>1 DEF NoteAdded, NoteGone
<1>2. CASE \E presented \in BOOLEAN : RenderFrame(presented)
  BY <1>2 DEF RenderFrame
<1>3. ASSUME NEW w \in Win,
             \/ NewToplevel(w) \/ ToplevelDestroyed(w) \/ Click(w) \/ FocusDeed(w) \/ Commit(w)
             \/ \E t \in Title : SetTitle(w, t)
      PROVE  UNCHANGED <<shelf, cache>>
  BY <1>3 DEF NewToplevel, ToplevelDestroyed, Click, FocusDeed, Commit, SetTitle, facts
<1>4. ASSUME \/ Minimise
             \/ \E l \in Look : AdoptWorld(l)
             \/ \E h \in {"no", "lock", "dark"} : SceneHides(h)
             \/ \E p \in Shapes \cup {"hidden"} : PointerMoves(p)
             \/ \E s \in Line : StatusSaved(s) \/ CellSet(s)
             \/ ReadingsRead \/ MinutePasses \/ SecondTimer
             \/ \E p \in Pictures : WallpaperSaved(p)
      PROVE  UNCHANGED <<shelf, cache>>
  BY <1>4 DEF Minimise, AdoptWorld, SceneHides, PointerMoves, StatusSaved, CellSet, ReadingsRead,
     MinutePasses, SecondTimer, WallpaperSaved, facts
<1> QED BY <1>1, <1>2, <1>3, <1>4, Zenon DEF SceneNext

\* Drawn now or kept, the notes of a frame are those on the shelf.
LEMMA BuffersAreOfTheirShelf ==
    NotesOfTheirGeneration => NoteBuffers.shown = ShownNotes(shelf.notes, NoteBuffers.most)
<1>1. CASE cache.generation = shelf.generation
  BY <1>1 DEF NoteBuffers, NotesOfTheirGeneration
<1>2. CASE cache.generation # shelf.generation
  BY <1>2 DEF NoteBuffers
<1> QED BY <1>1, <1>2

LEMMA NotesOfTheirGenerationStay ==
    NotesOfTheirGeneration /\ SceneNext => NotesOfTheirGeneration'
<1> SUFFICES ASSUME NotesOfTheirGeneration, SceneNext PROVE NotesOfTheirGeneration'
  OBVIOUS
<1>1. CASE UNCHANGED <<shelf, cache>>
  BY <1>1 DEF NotesOfTheirGeneration, ShownNotes
<1>2. CASE cache' = cache /\ \E notes : shelf' = Shelved(notes)
  BY <1>2 DEF NotesOfTheirGeneration, Shelved
<1>3. CASE cache' = Kept /\ shelf' = shelf
  <2>1. cache'.generation = shelf.generation /\ cache'.notes = NoteBuffers
    BY <1>3 DEF Kept
  <2>2. NoteBuffers.shown = ShownNotes(shelf.notes, NoteBuffers.most)
    BY BuffersAreOfTheirShelf
  <2>3. ShownNotes(shelf.notes, cache.notes.most)' = ShownNotes(shelf.notes, NoteBuffers.most)
    BY <1>3, <2>1 DEF ShownNotes
  <2>4. cache'.notes.shown = ShownNotes(shelf.notes, cache.notes.most)'
    BY <2>1, <2>2, <2>3
  <2> QED BY <1>3, <2>1, <2>4 DEF NotesOfTheirGeneration
<1> QED BY <1>1, <1>2, <1>3, EachNoteStep

\* What a step does to the words of the bar.
WordSteps ==
    \/ words' = words
    \/ \E s \in Line : words' = [words EXCEPT !.cells = s]
    \/ \E s \in Line : words' = [words EXCEPT !.file = s]
    \/ words' = [words EXCEPT !.readings = ~@]
    \/ words' = [words EXCEPT !.minute = @ + 1]
    \/ words' = [words EXCEPT !.told = words.minute, !.status = words.file]

LEMMA EachWordStep == SceneNext => WordSteps
<1> SUFFICES ASSUME SceneNext PROVE WordSteps
  OBVIOUS
<1>1. CASE \E s \in Line : StatusSaved(s) \/ CellSet(s)
  BY <1>1 DEF StatusSaved, CellSet, WordSteps
<1>2. CASE ReadingsRead
  BY <1>2 DEF ReadingsRead, WordSteps
<1>3. CASE MinutePasses
  BY <1>3 DEF MinutePasses, WordSteps
<1>4. CASE SecondTimer
  BY <1>4 DEF SecondTimer, WordSteps
<1>5. ASSUME NEW w \in Win,
             \/ NewToplevel(w) \/ ToplevelDestroyed(w) \/ Click(w) \/ FocusDeed(w) \/ Commit(w)
             \/ \E t \in Title : SetTitle(w, t)
      PROVE  words' = words
  BY <1>5 DEF NewToplevel, ToplevelDestroyed, Click, FocusDeed, Commit, SetTitle, facts
<1>6. ASSUME \/ Minimise
             \/ \E l \in Look : AdoptWorld(l)
             \/ \E h \in {"no", "lock", "dark"} : SceneHides(h)
             \/ \E p \in Shapes \cup {"hidden"} : PointerMoves(p)
             \/ \E n \in {1, 2} : NoteAdded(n) \/ NoteGone(n)
             \/ \E p \in Pictures : WallpaperSaved(p)
             \/ \E presented \in BOOLEAN : RenderFrame(presented)
      PROVE  words' = words
  BY <1>6 DEF Minimise, AdoptWorld, SceneHides, PointerMoves, NoteAdded, NoteGone,
     WallpaperSaved, RenderFrame, facts
<1> QED BY <1>1, <1>2, <1>3, <1>4, <1>5, <1>6, Zenon DEF SceneNext, WordSteps

LEMMA ToldInTimeStays == ToldInTime /\ SceneNext => ToldInTime'
<1> SUFFICES ASSUME ToldInTime, WordSteps PROVE ToldInTime'
  BY EachWordStep
<1>1. /\ words.file \in Line \cup {"none"} /\ words.status \in Line \cup {"none"}
      /\ words.cells \in Line \cup {"none"} /\ words.readings \in BOOLEAN
      /\ words.minute \in Nat /\ words.told \in Nat /\ words.told <= words.minute
  BY DEF ToldInTime
<1>2. words = [file |-> words.file, status |-> words.status, cells |-> words.cells,
               readings |-> words.readings, minute |-> words.minute, told |-> words.told]
  BY DEF ToldInTime
<1>3. CASE words' = words
  BY <1>3 DEF ToldInTime
<1>4. CASE \E s \in Line : words' = [words EXCEPT !.cells = s]
  <2>1. PICK s \in Line : words' = [words EXCEPT !.cells = s]
    BY <1>4
  <2>2. words' = [file |-> words.file, status |-> words.status, cells |-> s,
                  readings |-> words.readings, minute |-> words.minute, told |-> words.told]
    BY <1>2, <2>1
  <2> QED BY <1>1, <2>2 DEF ToldInTime
<1>5. CASE \E s \in Line : words' = [words EXCEPT !.file = s]
  <2>1. PICK s \in Line : words' = [words EXCEPT !.file = s]
    BY <1>5
  <2>2. words' = [file |-> s, status |-> words.status, cells |-> words.cells,
                  readings |-> words.readings, minute |-> words.minute, told |-> words.told]
    BY <1>2, <2>1
  <2> QED BY <1>1, <2>2 DEF ToldInTime
<1>6. CASE words' = [words EXCEPT !.readings = ~@]
  <2>1. words' = [file |-> words.file, status |-> words.status, cells |-> words.cells,
                  readings |-> ~words.readings, minute |-> words.minute, told |-> words.told]
    BY <1>2, <1>6
  <2> QED BY <1>1, <2>1 DEF ToldInTime
<1>7. CASE words' = [words EXCEPT !.minute = @ + 1]
  <2>1. words' = [file |-> words.file, status |-> words.status, cells |-> words.cells,
                  readings |-> words.readings, minute |-> words.minute + 1, told |-> words.told]
    BY <1>2, <1>7
  <2> QED BY <1>1, <2>1 DEF ToldInTime
<1>8. CASE words' = [words EXCEPT !.told = words.minute, !.status = words.file]
  <2>1. words' = [file |-> words.file, status |-> words.file, cells |-> words.cells,
                  readings |-> words.readings, minute |-> words.minute, told |-> words.minute]
    BY <1>2, <1>8
  <2> QED BY <1>1, <2>1 DEF ToldInTime
<1> QED BY <1>3, <1>4, <1>5, <1>6, <1>7, <1>8 DEF WordSteps

-----------------------------------------------------------------------------
(* The wallpaper.                                                          *)

Wallpapers == [file : Pictures, stamp : Nat, seen : Int, shown : BOOLEAN,
               pending : Picture \cup {"none", "flat"}]

\* A wallpaper is the record of its fields.
LEMMA WallpaperIs ==
    ASSUME NEW g \in Wallpapers
    PROVE  /\ g = [file |-> g.file, stamp |-> g.stamp, seen |-> g.seen, shown |-> g.shown,
                   pending |-> g.pending]
           /\ g.stamp \in Nat /\ g.seen \in Int /\ g.shown \in BOOLEAN /\ g.file \in Pictures
           /\ g.pending \in Picture \cup {"none", "flat"}
  BY DEF Wallpapers

LEMMA GoesFlat ==
    ASSUME NEW g \in Wallpapers
    PROVE  /\ GoFlat(g) \in Wallpapers
           /\ GoFlat(g).file = g.file /\ GoFlat(g).stamp = g.stamp /\ GoFlat(g).seen = g.seen
           /\ ~GoFlat(g).shown
           /\ GoFlat(g).pending = IF g.shown THEN "flat" ELSE g.pending
<1>0. /\ g = [file |-> g.file, stamp |-> g.stamp, seen |-> g.seen, shown |-> g.shown,
              pending |-> g.pending]
      /\ g.stamp \in Nat /\ g.seen \in Int /\ g.file \in Pictures
  BY WallpaperIs
<1>1. CASE g.shown
  <2>1. GoFlat(g) = [file |-> g.file, stamp |-> g.stamp, seen |-> g.seen, shown |-> FALSE,
                     pending |-> "flat"]
    BY <1>0, <1>1 DEF GoFlat
  <2>2. GoFlat(g) \in Wallpapers
    BY <1>0, <2>1 DEF Wallpapers
  <2> QED BY <1>1, <2>1, <2>2
<1>2. CASE ~g.shown
  BY <1>2 DEF GoFlat
<1> QED BY <1>1, <1>2

\* A refresh changes nothing, goes flat, or shows the file it just looked at.
LEMMA RefreshedOutcomes ==
    ASSUME NEW g \in Wallpapers, g.seen <= g.stamp
    PROVE  /\ Refreshed(g) \in Wallpapers
           /\ Refreshed(g).file = g.file /\ Refreshed(g).stamp = g.stamp
           /\ Refreshed(g).seen <= g.stamp
           /\ \/ Refreshed(g) = g
              \/ /\ ~Refreshed(g).shown
                 /\ Refreshed(g).pending = (IF g.shown THEN "flat" ELSE g.pending)
              \/ /\ Refreshed(g).shown /\ Refreshed(g).seen = g.stamp
                 /\ Refreshed(g).pending = g.file /\ g.file \in Picture
<1>0. /\ g = [file |-> g.file, stamp |-> g.stamp, seen |-> g.seen, shown |-> g.shown,
              pending |-> g.pending]
      /\ g.stamp \in Nat /\ g.seen \in Int /\ g.shown \in BOOLEAN /\ g.file \in Pictures
      /\ g.pending \in Picture \cup {"none", "flat"} /\ Absent \in Int /\ Absent <= g.stamp
  BY WallpaperIs DEF Absent
<1>1. CASE g.file = "absent" /\ g.seen = Absent
  BY <1>0, <1>1 DEF Refreshed
<1>2. CASE g.file = "absent" /\ g.seen # Absent
  <2> DEFINE h == [g EXCEPT !.seen = Absent]
  <2>1. Refreshed(g) = GoFlat(h)
    BY <1>2 DEF Refreshed
  <2>2. /\ h \in Wallpapers /\ h.file = g.file /\ h.stamp = g.stamp /\ h.seen = Absent
        /\ h.shown = g.shown /\ h.pending = g.pending
    BY <1>0 DEF Wallpapers
  <2> HIDE DEF h
  <2> QED BY <1>0, <2>1, <2>2, GoesFlat
<1>3. CASE g.file # "absent" /\ g.seen = g.stamp
  BY <1>0, <1>3 DEF Refreshed
<1>4. CASE g.file = "unreadable" /\ g.seen # g.stamp
  <2> DEFINE h == [g EXCEPT !.seen = g.stamp]
  <2>1. Refreshed(g) = GoFlat(h)
    BY <1>4 DEF Refreshed
  <2>2. /\ h \in Wallpapers /\ h.file = g.file /\ h.stamp = g.stamp /\ h.seen = g.stamp
        /\ h.shown = g.shown /\ h.pending = g.pending
    BY <1>0 DEF Wallpapers
  <2> HIDE DEF h
  <2> QED BY <1>0, <2>1, <2>2, GoesFlat
<1>5. CASE g.file \notin {"absent", "unreadable"} /\ g.seen # g.stamp
  <2>1. Refreshed(g) = [g EXCEPT !.seen = g.stamp, !.shown = TRUE, !.pending = g.file]
    BY <1>5 DEF Refreshed
  <2>2. g.file \in Picture
    BY <1>0, <1>5 DEF Pictures
  <2>3. Refreshed(g) = [file |-> g.file, stamp |-> g.stamp, seen |-> g.stamp, shown |-> TRUE,
                        pending |-> g.file]
    BY <1>0, <2>1
  <2>4. Refreshed(g) \in Wallpapers
    BY <1>0, <2>2, <2>3 DEF Wallpapers
  <2> QED BY <1>0, <2>2, <2>3, <2>4
<1> QED BY <1>1, <1>2, <1>3, <1>4, <1>5

\* What a step does to the wallpaper and to the ground the loop keeps.
GroundSteps ==
    \/ UNCHANGED <<wallpaper, cache>>
    \/ cache' = cache /\ wallpaper' = Refreshed(wallpaper)
    \/ /\ cache' = cache
       /\ \E p \in Pictures : wallpaper' = [wallpaper EXCEPT !.file = p, !.stamp = @ + 1]
    \/ cache' = Kept /\ wallpaper' = [wallpaper EXCEPT !.pending = "none"]

LEMMA EachGroundStep == SceneNext => GroundSteps
<1> SUFFICES ASSUME SceneNext PROVE GroundSteps
  OBVIOUS
<1>1. CASE SecondTimer
  BY <1>1 DEF SecondTimer, GroundSteps
<1>2. CASE \E p \in Pictures : WallpaperSaved(p)
  BY <1>2 DEF WallpaperSaved, GroundSteps
<1>3. CASE \E presented \in BOOLEAN : RenderFrame(presented)
  BY <1>3 DEF RenderFrame, GroundSteps
<1>4. ASSUME NEW w \in Win,
             \/ NewToplevel(w) \/ ToplevelDestroyed(w) \/ Click(w) \/ FocusDeed(w) \/ Commit(w)
             \/ \E t \in Title : SetTitle(w, t)
      PROVE  UNCHANGED <<wallpaper, cache>>
  BY <1>4 DEF NewToplevel, ToplevelDestroyed, Click, FocusDeed, Commit, SetTitle, facts
<1>5. ASSUME \/ Minimise
             \/ \E l \in Look : AdoptWorld(l)
             \/ \E h \in {"no", "lock", "dark"} : SceneHides(h)
             \/ \E p \in Shapes \cup {"hidden"} : PointerMoves(p)
             \/ \E n \in {1, 2} : NoteAdded(n) \/ NoteGone(n)
             \/ \E s \in Line : StatusSaved(s) \/ CellSet(s)
             \/ ReadingsRead \/ MinutePasses
      PROVE  UNCHANGED <<wallpaper, cache>>
  BY <1>5 DEF Minimise, AdoptWorld, SceneHides, PointerMoves, NoteAdded, NoteGone, StatusSaved,
     CellSet, ReadingsRead, MinutePasses, facts
<1> QED BY <1>1, <1>2, <1>3, <1>4, <1>5, Zenon DEF SceneNext, GroundSteps

LEMMA GroundAsSeenStays == GroundAsSeen /\ SceneNext => GroundAsSeen'
<1> SUFFICES ASSUME GroundAsSeen, GroundSteps PROVE GroundAsSeen'
  BY EachGroundStep
<1>1. PICK g \in Wallpapers : g = wallpaper /\ g.seen <= g.stamp
  BY DEF GroundAsSeen, Wallpapers
<1>2. /\ g = [file |-> g.file, stamp |-> g.stamp, seen |-> g.seen, shown |-> g.shown,
              pending |-> g.pending]
      /\ g.stamp \in Nat /\ g.seen \in Int /\ g.shown \in BOOLEAN /\ g.file \in Pictures
      /\ g.pending \in Picture \cup {"none", "flat"}
  BY WallpaperIs
<1>3. CASE UNCHANGED <<wallpaper, cache>>
  BY <1>3 DEF GroundAsSeen, Ground
<1>4. CASE cache' = cache /\ wallpaper' = Refreshed(wallpaper)
  <2>1. PICK h : h = Refreshed(g)
    OBVIOUS
  <2>2. /\ h \in Wallpapers /\ h.file = g.file /\ h.stamp = g.stamp /\ h.seen <= g.stamp
        /\ \/ h = g
           \/ ~h.shown /\ h.pending = (IF g.shown THEN "flat" ELSE g.pending)
           \/ h.shown /\ h.seen = g.stamp /\ h.pending = g.file /\ g.file \in Picture
    BY <1>1, <2>1, RefreshedOutcomes
  <2>3. "none" \notin Picture
    BY SceneAssumption
  <2>4. wallpaper' = h /\ cache' = cache
    BY <1>1, <1>4, <2>1
  <2>5. h \in [file : Pictures, stamp : Nat, seen : Int, shown : BOOLEAN,
               pending : Picture \cup {"none", "flat"}]
    BY <2>2 DEF Wallpapers
  <2> QED BY <1>1, <1>2, <2>2, <2>3, <2>4, <2>5 DEF GroundAsSeen, Ground
<1>5. CASE /\ cache' = cache
           /\ \E p \in Pictures : wallpaper' = [wallpaper EXCEPT !.file = p, !.stamp = @ + 1]
  <2>1. PICK p \in Pictures : wallpaper' = [g EXCEPT !.file = p, !.stamp = @ + 1]
    BY <1>1, <1>5
  <2>2. /\ wallpaper' \in Wallpapers
        /\ wallpaper'.stamp = g.stamp + 1 /\ wallpaper'.seen = g.seen
        /\ wallpaper'.shown = g.shown /\ wallpaper'.pending = g.pending
    <3>1. wallpaper' = [file |-> p, stamp |-> g.stamp + 1, seen |-> g.seen, shown |-> g.shown,
                        pending |-> g.pending]
      BY <1>2, <2>1
    <3> QED BY <1>2, <3>1 DEF Wallpapers
  <2>3. Ground' = Ground
    BY <1>1, <1>5, <2>2 DEF Ground
  <2>4. ~(wallpaper'.seen = wallpaper'.stamp) /\ wallpaper'.seen <= wallpaper'.stamp
    BY <1>1, <1>2, <2>2
  <2> QED BY <1>1, <2>2, <2>3, <2>4 DEF GroundAsSeen, Wallpapers
<1>6. CASE cache' = Kept /\ wallpaper' = [wallpaper EXCEPT !.pending = "none"]
  <2>1. wallpaper' = [g EXCEPT !.pending = "none"]
    BY <1>1, <1>6
  <2>2. /\ wallpaper' \in Wallpapers
        /\ wallpaper'.stamp = g.stamp /\ wallpaper'.seen = g.seen /\ wallpaper'.file = g.file
        /\ wallpaper'.shown = g.shown /\ wallpaper'.pending = "none"
    BY <1>2, <2>1 DEF Wallpapers
  <2>3. Ground' = Ground
    <3>1. cache'.ground = Ground
      BY <1>6 DEF Kept
    <3>2. Ground' = cache'.ground
      BY <2>2 DEF Ground
    <3> QED BY <3>1, <3>2
  <2> QED BY <1>1, <2>2, <2>3 DEF GroundAsSeen, Wallpapers
<1> QED BY <1>3, <1>4, <1>5, <1>6 DEF GroundSteps

-----------------------------------------------------------------------------
(* The glass.                                                              *)

\* Whatever was kept, the bar a frame draws says what is so.
LEMMA BarIsOfNow == BarBuffer.state = BarState
BY DEF BarBuffer

LEMMA EachGlassStep == SceneNext => glass' = glass \/ glass' = Elements
<1> SUFFICES ASSUME SceneNext PROVE glass' = glass \/ glass' = Elements
  OBVIOUS
<1>1. CASE \E presented \in BOOLEAN : RenderFrame(presented)
  BY <1>1 DEF RenderFrame
<1>2. ASSUME NEW w \in Win,
             \/ NewToplevel(w) \/ ToplevelDestroyed(w) \/ Click(w) \/ FocusDeed(w) \/ Commit(w)
             \/ \E t \in Title : SetTitle(w, t)
      PROVE  glass' = glass
  BY <1>2 DEF NewToplevel, ToplevelDestroyed, Click, FocusDeed, Commit, SetTitle
<1>3. ASSUME \/ Minimise
             \/ \E l \in Look : AdoptWorld(l)
             \/ \E h \in {"no", "lock", "dark"} : SceneHides(h)
             \/ \E p \in Shapes \cup {"hidden"} : PointerMoves(p)
             \/ \E n \in {1, 2} : NoteAdded(n) \/ NoteGone(n)
             \/ \E s \in Line : StatusSaved(s) \/ CellSet(s)
             \/ ReadingsRead \/ MinutePasses \/ SecondTimer
             \/ \E p \in Pictures : WallpaperSaved(p)
      PROVE  glass' = glass
  BY <1>3 DEF Minimise, AdoptWorld, SceneHides, PointerMoves, NoteAdded, NoteGone, StatusSaved,
     CellSet, ReadingsRead, MinutePasses, SecondTimer, WallpaperSaved
<1> QED BY <1>1, <1>2, <1>3, Zenon DEF SceneNext

\* What a frame draws while nothing hides the desktop.
LEMMA DrawnInTheOpen ==
    ASSUME hiding = "no"
    PROVE  /\ Elements.hidden = "no" /\ Elements.cursor = Cursor /\ Elements.bar = BarBuffer
           /\ Elements.notes = NoteBuffers /\ Elements.titlebars = Titlebars(Chrome)
           /\ Elements.windows = stack /\ Elements.mode = look.mode /\ Elements.ground = Ground
BY DEF Elements

LEMMA StripMarksOneStays == OnceEach /\ StripMarksOne /\ SceneNext => StripMarksOne'
<1> SUFFICES ASSUME OnceEach, StripMarksOne, SceneNext PROVE StripMarksOne'
  OBVIOUS
<1>1. CASE glass' = glass
  BY <1>1 DEF StripMarksOne
<1>2. CASE glass' = Elements /\ hiding # "no"
  BY <1>2 DEF StripMarksOne, Elements
<1>3. CASE glass' = Elements /\ hiding = "no"
  <2>1. glass'.bar.state = BarState
    BY <1>3, BarIsOfNow, DrawnInTheOpen
  <2> DEFINE marks == [i \in DOMAIN stack |-> published /= NoWin /\ stack[i] = published]
  <2>2. glass'.bar.state.parcels = marks
    BY <2>1 DEF BarState
  <2>3. DOMAIN stack = 1..Len(stack) /\ Len(stack) \in Nat
    BY DEF OnceEach
  <2>4. marks \in Seq(BOOLEAN)
    BY <2>3
  <2>5. OneMarked(marks)
    BY DEF OnceEach, IsInjective, OneMarked
  <2> QED BY <2>2, <2>4, <2>5 DEF StripMarksOne, OneMarked
<1> QED BY <1>1, <1>2, <1>3, EachGlassStep

\* A step after which no frame is owed: one that changes nothing whose change
\* owes a frame, the timer of one second with nothing new, or a presented frame.
QuietSteps ==
    \/ owed' = TRUE
    \/ /\ UNCHANGED <<minimised, look, shelf, pointer, hiding, owed, cache, glass>>
       /\ \/ stack' = stack
          \/ \E w \in Range(stack) : stack' = Raised(stack, w)
       /\ \/ words' = words
          \/ \E s \in Line : words' = [words EXCEPT !.file = s]
          \/ words' = [words EXCEPT !.readings = ~@]
          \/ words' = [words EXCEPT !.minute = @ + 1]
       /\ \/ wallpaper' = wallpaper
          \/ \E p \in Pictures : wallpaper' = [wallpaper EXCEPT !.file = p, !.stamp = @ + 1]
    \/ SecondTimer
    \/ RenderFrame(TRUE)

LEMMA EachQuietStep == SceneNext => QuietSteps
<1> SUFFICES ASSUME SceneNext PROVE QuietSteps
  OBVIOUS
<1>1. ASSUME NEW w \in Win, NewToplevel(w) \/ ToplevelDestroyed(w) \/ Click(w)
      PROVE  owed' = TRUE
  BY <1>1 DEF NewToplevel, ToplevelDestroyed, Click, ApplyLayout
<1>2. ASSUME NEW w \in Win, Commit(w)
      PROVE  owed' = TRUE
  BY <1>2 DEF Commit, ApplyLayout
<1>3. ASSUME \/ Minimise
             \/ \E l \in Look : AdoptWorld(l)
             \/ \E h \in {"no", "lock", "dark"} : SceneHides(h)
             \/ \E p \in Shapes \cup {"hidden"} : PointerMoves(p)
             \/ \E n \in {1, 2} : NoteAdded(n) \/ NoteGone(n)
             \/ \E s \in Line : CellSet(s)
             \/ RenderFrame(FALSE)
      PROVE  owed' = TRUE
  BY <1>3 DEF Minimise, AdoptWorld, SceneHides, PointerMoves, NoteAdded, NoteGone, CellSet,
     ApplyLayout, RenderFrame, Spent
<1>4. ASSUME NEW w \in Win, FocusDeed(w) PROVE QuietSteps
  BY <1>4 DEF FocusDeed, facts, QuietSteps
<1>5. ASSUME NEW w \in Win, NEW t \in Title, SetTitle(w, t) PROVE QuietSteps
  BY <1>5 DEF SetTitle, facts, QuietSteps
<1>6. ASSUME NEW s \in Line, StatusSaved(s) PROVE QuietSteps
  BY <1>6 DEF StatusSaved, desk, QuietSteps
<1>7. CASE ReadingsRead
  BY <1>7 DEF ReadingsRead, desk, QuietSteps
<1>8. CASE MinutePasses
  BY <1>8 DEF MinutePasses, desk, QuietSteps
<1>9. ASSUME NEW p \in Pictures, WallpaperSaved(p) PROVE QuietSteps
  BY <1>9 DEF WallpaperSaved, desk, QuietSteps
<1>10. CASE owed' = TRUE \/ SecondTimer \/ RenderFrame(TRUE)
  BY <1>10 DEF QuietSteps
<1>11. \A presented \in BOOLEAN :
           RenderFrame(presented) => RenderFrame(TRUE) \/ RenderFrame(FALSE)
  <2> SUFFICES ASSUME NEW presented \in BOOLEAN, RenderFrame(presented)
               PROVE  RenderFrame(TRUE) \/ RenderFrame(FALSE)
    OBVIOUS
  <2>1. CASE presented = TRUE
    BY <2>1
  <2>2. CASE presented = FALSE
    BY <2>2
  <2> QED BY <2>1, <2>2
<1> QED BY <1>1, <1>2, <1>3, <1>4, <1>5, <1>6, <1>7, <1>8, <1>9, <1>10, <1>11, Zenon DEF SceneNext

\* A frame that is presented has all that is promised.
LEMMA FrameShowsTheScene ==
    ASSUME NotesOfTheirGeneration, ToldInTime, RenderFrame(TRUE)
    PROVE  ShownAsItStands'
<1>1. /\ glass' = Elements /\ cache' = Kept /\ wallpaper' = [wallpaper EXCEPT !.pending = "none"]
      /\ UNCHANGED <<stack, minimised, look, shelf, words, pointer, hiding>>
  BY DEF RenderFrame, desk
<1>2. owed' = FALSE
  BY DEF RenderFrame, Spent
<1>3. CASE hiding # "no"
  BY <1>1, <1>2, <1>3 DEF Elements, ShownAsItStands
<1>4. CASE hiding = "no"
  <2>1. /\ glass'.hidden = "no" /\ glass'.cursor = Cursor /\ glass'.bar = BarBuffer
        /\ glass'.notes = NoteBuffers /\ glass'.windows = stack /\ glass'.mode = look.mode
        /\ glass'.ground = Ground
    BY <1>1, <1>4, DrawnInTheOpen
  <2>2. glass'.bar.state = BarState
    BY <2>1, BarIsOfNow
  <2>3. /\ glass'.bar.state.status = words.status /\ glass'.bar.state.cells = words.cells
        /\ glass'.bar.state.hidden = Cardinality(minimised)
        /\ glass'.bar.state.accent = look.accent
        /\ glass'.bar.state.minute = words.minute
    BY <2>2 DEF BarState
  <2>4. glass'.bar.state.minute >= words.told
    BY <2>3 DEF ToldInTime
  <2>5. glass'.notes.shown = ShownNotes(shelf.notes, glass'.notes.most)
    BY <2>1, BuffersAreOfTheirShelf
  <2>6. {c.shape : c \in glass'.cursor} = {pointer} \ {"hidden"}
    <3>1. CASE pointer = "hidden"
      BY <2>1, <3>1 DEF Cursor
    <3>2. CASE pointer # "hidden"
      <4>0. PICK c : c = [shape |-> pointer, scale |-> Bitmaps[pointer], hotspot |-> look.scale]
        OBVIOUS
      <4>1. c.shape = pointer
        BY <4>0
      <4>2. glass'.cursor = {c}
        BY <2>1, <3>2, <4>0 DEF Cursor
      <4>3. {d.shape : d \in {c}} = {c.shape}
        OBVIOUS
      <4> QED BY <3>2, <4>1, <4>2, <4>3
    <3> QED BY <3>1, <3>2
  <2>7. Ground' = Ground
    <3>1. cache'.ground = Ground
      BY <1>1 DEF Kept
    <3>2. Ground' = IF wallpaper'.pending = "none" THEN cache'.ground ELSE wallpaper'.pending
      BY DEF Ground
    <3>3. wallpaper'.pending = "none" \/ wallpaper'.pending = wallpaper.pending
      BY <1>1
    <3> QED BY <3>1, <3>2, <3>3 DEF Ground
  <2>8. ShownNotes(shelf.notes, glass.notes.most)' = ShownNotes(shelf.notes, glass'.notes.most)
    BY <1>1 DEF ShownNotes
  <2>9. GlassIsTheScene'
    BY <1>1, <2>1, <2>3, <2>4, <2>5, <2>6, <2>7, <2>8 DEF GlassIsTheScene
  <2> QED BY <1>1, <1>2, <1>4, <2>1, <2>9 DEF ShownAsItStands
<1> QED BY <1>3, <1>4

LEMMA ShownAsItStandsStays ==
    /\ OnceEach /\ NotesOfTheirGeneration /\ ToldInTime /\ GroundAsSeen /\ ShownAsItStands
    /\ SceneNext
    => ShownAsItStands'
<1> SUFFICES ASSUME OnceEach, NotesOfTheirGeneration, ToldInTime, GroundAsSeen, ShownAsItStands,
                    QuietSteps
             PROVE  ShownAsItStands'
  BY EachQuietStep
<1>1. CASE owed' = TRUE
  BY <1>1 DEF ShownAsItStands
<1>2. CASE RenderFrame(TRUE)
  BY <1>2, FrameShowsTheScene
<1>3. ASSUME UNCHANGED <<minimised, look, shelf, pointer, hiding, cache, glass>>,
             Range(stack') = Range(stack),
             words'.status = words.status, words'.cells = words.cells, words'.told = words.told,
             wallpaper'.pending = wallpaper.pending, owed' = owed
      PROVE  ShownAsItStands'
  <2>1. Ground' = Ground
    BY <1>3 DEF Ground
  <2>2. ShownNotes(shelf.notes, glass.notes.most)' = ShownNotes(shelf.notes, glass.notes.most)
    BY <1>3 DEF ShownNotes
  <2>3. GlassIsTheScene => GlassIsTheScene'
    BY <1>3, <2>1, <2>2 DEF GlassIsTheScene
  <2> QED BY <1>3, <2>3 DEF ShownAsItStands
<1>4. CASE SecondTimer
  <2>1. PICK g : g = Refreshed(wallpaper)
    OBVIOUS
  <2>2. /\ wallpaper' = g
        /\ words' = [words EXCEPT !.told = words.minute, !.status = words.file]
        /\ owed' = (owed \/ words.told /= words.minute \/ Repaints(g)
                         \/ words.status /= words.file)
        /\ UNCHANGED <<stack, minimised, look, shelf, pointer, hiding, cache, glass>>
    BY <1>4, <2>1 DEF SecondTimer, desk
  <2>3. CASE owed' = TRUE
    BY <2>3, <1>1
  <2>4. CASE owed' # TRUE
    <3>1. /\ owed = FALSE /\ owed' = FALSE /\ words.told = words.minute
          /\ words.status = words.file /\ ~Repaints(g)
      BY <2>2, <2>4 DEF ShownAsItStands
    <3>2. wallpaper'.pending = wallpaper.pending
      BY <2>2, <3>1 DEF Repaints
    <3>3. words'.status = words.status /\ words'.cells = words.cells /\ words'.told = words.told
      BY <2>2, <3>1 DEF ToldInTime
    <3> QED BY <1>3, <2>2, <3>1, <3>2, <3>3
  <2> QED BY <2>3, <2>4
<1>5. ASSUME UNCHANGED <<minimised, look, shelf, pointer, hiding, owed, cache, glass>>,
             stack' = stack \/ \E w \in Range(stack) : stack' = Raised(stack, w),
             \/ words' = words
             \/ \E s \in Line : words' = [words EXCEPT !.file = s]
             \/ words' = [words EXCEPT !.readings = ~@]
             \/ words' = [words EXCEPT !.minute = @ + 1],
             \/ wallpaper' = wallpaper
             \/ \E p \in Pictures : wallpaper' = [wallpaper EXCEPT !.file = p, !.stamp = @ + 1]
      PROVE  ShownAsItStands'
  <2>1. Range(stack') = Range(stack)
    <3>1. CASE stack' = stack
      BY <3>1
    <3>2. ASSUME NEW w \in Range(stack), stack' = Raised(stack, w)
          PROVE  Range(stack') = Range(stack)
      <4>1. PICK s \in Seq(Win) : s = stack
        BY DEF OnceEach
      <4>2. w \in Win
        BY <4>1 DEF Range
      <4>3. Range(Raised(s, w)) = Range(s) \cup {w}
        BY <4>2, RaisedKeeps
      <4> QED BY <3>2, <4>1, <4>3
    <3> QED BY <1>5, <3>1, <3>2
  <2>2. words'.status = words.status /\ words'.cells = words.cells /\ words'.told = words.told
    BY <1>5 DEF ToldInTime
  <2>3. wallpaper'.pending = wallpaper.pending
    BY <1>5 DEF GroundAsSeen
  <2> QED BY <1>3, <1>5, <2>1, <2>2, <2>3
<1> QED BY <1>1, <1>2, <1>4, <1>5, Zenon DEF QuietSteps

-----------------------------------------------------------------------------
(* The invariant, and what follows from it.                                *)

LEMMA ScenePartsAtFirst == SceneInit => SceneInv
<1> SUFFICES ASSUME SceneInit PROVE SceneInv
  OBVIOUS
<1>1. OnceEach
  BY DEF SceneInit, OnceEach, IsInjective
<1>2. NotesOfTheirGeneration
  <2>1. shelf.generation = 0 /\ cache.generation = -1
    BY DEF SceneInit, Never
  <2> QED BY <2>1 DEF NotesOfTheirGeneration
<1>3. ToldInTime
  BY DEF SceneInit, ToldInTime
<1>4. GroundAsSeen
  <2>1. /\ wallpaper \in [file : Pictures, stamp : {0}, seen : {Never}, shown : {FALSE},
                          pending : {"none"}]
        /\ cache.ground = "flat"
    BY DEF SceneInit
  <2>2. /\ wallpaper.stamp = 0 /\ wallpaper.seen = -1 /\ wallpaper.shown = FALSE
        /\ wallpaper.pending = "none" /\ wallpaper.file \in Pictures
    BY <2>1 DEF Never
  <2>3. wallpaper \in [file : Pictures, stamp : Nat, seen : Int, shown : BOOLEAN,
                       pending : Picture \cup {"none", "flat"}]
    <3>1. PICK file \in Pictures : wallpaper = [file |-> file, stamp |-> 0, seen |-> Never,
                                               shown |-> FALSE, pending |-> "none"]
      BY <2>1
    <3>2. Never \in Int
      BY DEF Never
    <3> QED BY <3>1, <3>2
  <2>4. Ground = "flat"
    BY <2>1, <2>2 DEF Ground
  <2> QED BY <2>2, <2>3, <2>4 DEF GroundAsSeen
<1>5. StripMarksOne
  BY DEF SceneInit, Blank, StripMarksOne
<1>6. ShownAsItStands
  BY DEF SceneInit, ShownAsItStands
<1> QED BY <1>1, <1>2, <1>3, <1>4, <1>5, <1>6 DEF SceneInv

LEMMA ScenePartsStay == SceneInv /\ [SceneNext]_sceneVars => SceneInv'
<1> SUFFICES ASSUME SceneInv, [SceneNext]_sceneVars PROVE SceneInv'
  OBVIOUS
<1>1. CASE SceneNext
  BY <1>1, OnceEachStays, NotesOfTheirGenerationStay, ToldInTimeStays, GroundAsSeenStays,
     StripMarksOneStays, ShownAsItStandsStays DEF SceneInv
<1>2. CASE UNCHANGED sceneVars
  <2>1. UNCHANGED <<roster, stack, minimised, look, shelf, words, wallpaper, pointer, hiding,
                    owed, cache, glass>>
    BY <1>2 DEF sceneVars, desk, facts
  <2>2. OnceEach' /\ ToldInTime' /\ StripMarksOne'
    BY <2>1 DEF SceneInv, OnceEach, ToldInTime, StripMarksOne
  <2>3. Ground' = Ground
    BY <2>1 DEF Ground
  <2>4. /\ ShownNotes(shelf.notes, glass.notes.most)' = ShownNotes(shelf.notes, glass.notes.most)
        /\ ShownNotes(shelf.notes, cache.notes.most)' = ShownNotes(shelf.notes, cache.notes.most)
    BY <2>1 DEF ShownNotes
  <2>5. GroundAsSeen' /\ NotesOfTheirGeneration'
    BY <2>1, <2>3, <2>4 DEF SceneInv, GroundAsSeen, NotesOfTheirGeneration
  <2>6. GlassIsTheScene => GlassIsTheScene'
    BY <2>1, <2>3, <2>4 DEF GlassIsTheScene
  <2>7. ShownAsItStands'
    BY <2>1, <2>6 DEF SceneInv, ShownAsItStands
  <2> QED BY <2>2, <2>5, <2>7 DEF SceneInv
<1> QED BY <1>1, <1>2

LEMMA NothingStale == SceneInv => NothingOwedNothingStale
<1> SUFFICES ASSUME SceneInv, ~owed PROVE NothingOwedNothingStale
  BY DEF NothingOwedNothingStale
<1>1. glass.hidden = hiding /\ (hiding = "no" => GlassIsTheScene)
  BY DEF SceneInv, ShownAsItStands
<1>2. wallpaper.seen = wallpaper.stamp => Ground \in GroundOfTheFile
  BY DEF SceneInv, GroundAsSeen, GroundOfTheFile
<1> QED BY <1>1, <1>2 DEF NothingOwedNothingStale, GlassIsTheScene

\* The strip has as many cells as it has room for, the marked one among them.
LEMMA StripShowsTheMarked ==
    ASSUME NEW b, b.parcels \in Seq(BOOLEAN), OneMarked(b.parcels)
    PROVE  /\ Cardinality(Parcels(b)) <= ParcelCells
           /\ \A i \in DOMAIN b.parcels : b.parcels[i] => i \in Parcels(b)
<1> DEFINE n == Len(b.parcels)
           far == {i \in DOMAIN b.parcels : b.parcels[i] /\ i > ParcelCells}
<1>1. ParcelCells \in Nat /\ ParcelCells > 0
  BY SceneAssumption
<1>2. n \in Nat /\ DOMAIN b.parcels = 1..n
  OBVIOUS
<1>3. CASE n <= ParcelCells
  <2>1. Parcels(b) = 1..n
    BY <1>3 DEF Parcels
  <2>2. Cardinality(1..n) = n
    BY <1>2, FS_Interval
  <2> QED BY <1>2, <1>3, <2>1, <2>2
<1>4. CASE ~(n <= ParcelCells) /\ far = {}
  <2>1. Parcels(b) = 1..ParcelCells
    BY <1>4 DEF Parcels
  <2>2. Cardinality(1..ParcelCells) = ParcelCells
    BY <1>1, FS_Interval
  <2>3. \A i \in DOMAIN b.parcels : b.parcels[i] => ~(i > ParcelCells)
    BY <1>4
  <2> QED BY <1>1, <1>2, <2>1, <2>2, <2>3
<1>5. CASE ~(n <= ParcelCells) /\ far # {}
  <2>1. PICK x : x = (CHOOSE i \in far : TRUE) /\ x \in far
    BY <1>5
  <2>2. Parcels(b) = 1..(ParcelCells - 1) \cup {x}
    BY <1>5, <2>1 DEF Parcels
  <2>3. IsFiniteSet(1..(ParcelCells - 1)) /\ Cardinality(1..(ParcelCells - 1)) = ParcelCells - 1
    BY <1>1, FS_Interval
  <2>4. Cardinality(1..(ParcelCells - 1) \cup {x}) <= ParcelCells
    <3>1. x \notin 1..(ParcelCells - 1)
      BY <1>1, <1>2, <2>1
    <3>2. Cardinality(1..(ParcelCells - 1) \cup {x}) = Cardinality(1..(ParcelCells - 1)) + 1
      BY <2>3, <3>1, FS_AddElement
    <3> QED BY <1>1, <2>3, <3>2
  <2>5. ASSUME NEW i \in DOMAIN b.parcels, b.parcels[i] PROVE i = x
    BY <2>1, <2>5 DEF OneMarked
  <2> QED BY <2>2, <2>4, <2>5
<1> QED BY <1>3, <1>4, <1>5

LEMMA GlassUpToDate == SceneInv => GlassIsUpToDate
<1> SUFFICES ASSUME SceneInv PROVE FocusedParcelIsShown
  BY NothingStale DEF GlassIsUpToDate
<1>1. CASE glass.hidden # "no"
  BY <1>1 DEF FocusedParcelIsShown
<1>2. CASE glass.hidden = "no"
  <2>1. PICK b : b = glass.bar.state /\ b.parcels \in Seq(BOOLEAN) /\ OneMarked(b.parcels)
    BY <1>2 DEF SceneInv, StripMarksOne
  <2>2. /\ Cardinality(Parcels(b)) <= ParcelCells
        /\ \A i \in DOMAIN b.parcels : b.parcels[i] => i \in Parcels(b)
    BY <2>1, StripShowsTheMarked
  <2> QED BY <2>1, <2>2 DEF FocusedParcelIsShown
<1> QED BY <1>1, <1>2

\* Only a presented frame spends what is owed.
LEMMA FrameGivesTitlebars ==
    ASSUME ShownAsItStands, SceneNext, owed, ~owed', hiding = "no", look.mode = "floating"
    PROVE  \A w \in Win : glass'.titlebars[w] =
               IF w \in Range(stack) THEN ChromeKey(w) ELSE NoTitlebar
<1>1. RenderFrame(TRUE)
  BY EachQuietStep DEF QuietSteps, SecondTimer
<1>2. glass'.titlebars = Titlebars(Chrome)
  BY <1>1, DrawnInTheOpen DEF RenderFrame
<1>3. \A w \in Win : w \in Range(stack) => Chrome[w] = ChromeKey(w) /\ Chrome[w].width = Width(w)
  BY DEF Chrome, ChromeKey
<1> QED BY <1>2, <1>3 DEF Titlebars

\* Scene: for any windows, worlds and changes, while no frame is owed the glass has of
\* today what NothingOwedNothingStale names, whatever earlier frames kept or failed at
\* (not the look of the notes, the bar's height, the cursor's scale, the readings, the
\* order of the windows or the marked one, see there); the strip of the bar has the cell
\* of the window marked in it; and every frame that is presented in the floating mode
\* gives each window the titlebar of its own title, width and mark.
THEOREM ScreenIsAlwaysCurrent == SceneSpec => ScreenIsCurrent
<1>1. SceneInit => SceneInv
  BY ScenePartsAtFirst
<1>2. SceneInv /\ [SceneNext]_sceneVars => SceneInv'
  BY ScenePartsStay
<1>3. SceneInv => GlassIsUpToDate
  BY GlassUpToDate
<1>4. SceneInv /\ [SceneNext]_sceneVars =>
        [owed /\ ~owed' /\ hiding = "no" /\ look.mode = "floating" =>
            \A w \in Win : glass'.titlebars[w] =
                IF w \in Range(stack) THEN ChromeKey(w) ELSE NoTitlebar]_sceneVars
  <2> SUFFICES ASSUME SceneInv, SceneNext, owed, ~owed', hiding = "no", look.mode = "floating"
               PROVE  \A w \in Win : glass'.titlebars[w] =
                          IF w \in Range(stack) THEN ChromeKey(w) ELSE NoTitlebar
    OBVIOUS
  <2> QED BY FrameGivesTitlebars DEF SceneInv
<1> QED BY <1>1, <1>2, <1>3, <1>4, PTL DEF SceneSpec, ScreenIsCurrent, EveryWindowItsTitlebar

-----------------------------------------------------------------------------
(* The types of the pixels.                                                *)

\* What the types of the pixels are, whatever the ledger leaves.
PixelsTyped ==
    /\ PixelsShape /\ Len(past) <= 2
    /\ wallpaperDue \in BOOLEAN /\ shotsDue \in BOOLEAN /\ pixelsOwed \in BOOLEAN

LEMMA SomePaint == (CHOOSE p \in Paint : TRUE) \in Paint
  BY PixelsAssumption DEF PixelsAssumption

LEMMA PixelsTypedStart == PixelsInit => PixelsTyped
<1> SUFFICES ASSUME PixelsInit PROVE PixelsTyped
  OBVIOUS
<1>1. PICK c \in Paint : c = CHOOSE p \in Paint : TRUE
  BY SomePaint
<1>2. wallpaperPaint = c /\ ground = c /\ surfaceTexture = [r \in Row |-> c] /\ shadowCopy = [s \in Strip |-> c]
  BY <1>1 DEF PixelsInit
<1>3. surfaceTexture \in Image /\ shadowCopy \in Pixels
  BY <1>2 DEF Image, Pixels
<1>4. slot \in [{0, 1} -> Pixels]
  BY <1>3 DEF PixelsInit
<1>5. past \in Seq(SUBSET Strip) /\ Len(past) <= 2
  BY DEF PixelsInit
<1>6. copy \in Image \cup {NoCopy} /\ behind \in [{0, 1} -> SUBSET Strip]
  BY DEF PixelsInit
<1> QED BY <1>2, <1>3, <1>4, <1>5, <1>6 DEF PixelsInit, PixelsTyped, PixelsShape

LEMMA GatheredTyped ==
    ASSUME PixelsTyped, Gathered
    PROVE  /\ surfaceTexture' \in Image /\ unimported' = {} /\ ground' \in Paint /\ wallpaperDue' = FALSE
           /\ UNCHANGED <<buffer, copy, authority, wallpaperPaint, flush, missed>>
<1>1. Imported \in Image
  BY DEF Imported, Image, PixelsTyped, PixelsShape
<1>2. GroundPaint \in Paint
  BY DEF GroundPaint, PixelsTyped, PixelsShape
<1> QED BY <1>1, <1>2 DEF Gathered

LEMMA PastTyped == PixelsTyped => Past \in Seq(SUBSET Strip) /\ Len(Past) <= 2
<1> SUFFICES ASSUME PixelsTyped PROVE Past \in Seq(SUBSET Strip) /\ Len(Past) <= 2
  OBVIOUS
<1>1. past \in Seq(SUBSET Strip) /\ Len(past) <= 2
  BY DEF PixelsTyped, PixelsShape
<1>2. <<>> \in Seq(SUBSET Strip) /\ Len(<<>>) = 0
  OBVIOUS
<1> QED BY <1>1, <1>2 DEF Past

LEMMA MinOfTwo ==
    ASSUME NEW n \in Nat
    PROVE  Min({2, n + 1}) \in Nat /\ Min({2, n + 1}) <= 2 /\ Min({2, n + 1}) <= n + 1
<1>1. CASE n = 0
  <2>1. Min({2, n + 1}) = 1
    BY <1>1 DEF Min
  <2> QED BY <1>1, <2>1
<1>2. CASE n >= 1
  <2>1. Min({2, n + 1}) = 2
    BY <1>2 DEF Min
  <2> QED BY <1>2, <2>1
<1> QED BY <1>1, <1>2

LEMMA RenderedTyped ==
    ASSUME PixelsTyped, Rendered
    PROVE  /\ past' \in Seq(SUBSET Strip) /\ Len(past') <= 2 /\ undrawn' = {}
           /\ shadowCopy' \in Pixels /\ slot' \in [{0, 1} -> Pixels] /\ shotsDue' = FALSE
           /\ OwnDamage \in SUBSET Strip
<1>1. PICK t \in Seq(SUBSET Strip) : t = Past
  BY PastTyped
<1>2. PICK own \in SUBSET Strip : own = OwnDamage
  <2>1. \A r \in Row : r \in Strip
    BY PixelsAssumption DEF Strip, Row, PixelsAssumption
  <2>2. undrawn \subseteq Row
    BY DEF PixelsTyped, PixelsShape
  <2>3. undrawn \in SUBSET Strip
    BY <2>1, <2>2
  <2>4. OwnDamage = Strip \/ OwnDamage = undrawn
    BY DEF OwnDamage
  <2> QED BY <2>3, <2>4
<1>3. PICK n \in Nat : n = Len(t)
  OBVIOUS
<1>4. past' = SubSeq(<<own>> \o t, 1, Min({2, n + 1}))
  BY <1>1, <1>2, <1>3 DEF Rendered
<1>5. PICK u \in Seq(SUBSET Strip) : u = <<own>> \o t /\ Len(u) = n + 1
  <2>1. <<own>> \in Seq(SUBSET Strip) /\ Len(<<own>>) = 1
    BY <1>2
  <2>2. PICK h \in Seq(SUBSET Strip) : h = <<own>> /\ Len(h) = 1
    BY <2>1
  <2>3. h \o t \in Seq(SUBSET Strip) /\ Len(h \o t) = 1 + n
    BY <2>2, <1>1, <1>3, ConcatProperties
  <2>4. 1 + n = n + 1
    OBVIOUS
  <2>5. /\ <<own>> \o t \in Seq(SUBSET Strip) /\ Len(<<own>> \o t) = n + 1
    BY <2>2, <2>3, <2>4, Zenon
  <2> QED BY <2>5, Zenon
<1>6. past' \in Seq(SUBSET Strip) /\ Len(past') <= 2
  <2>1. PICK m \in Nat : m = Min({2, n + 1}) /\ m <= 2 /\ m <= n + 1
    BY <1>3, MinOfTwo
  <2>2. past' = SubSeq(u, 1, m)
    BY <1>4, <1>5, <2>1
  <2>3. \A i \in 1..m : u[i] \in SUBSET Strip
    BY <1>3, <1>5, <2>1
  <2>4. SubSeq(u, 1, m) \in Seq(SUBSET Strip) /\ Len(SubSeq(u, 1, m)) = m
    <3>1. PICK v : v = SubSeq(u, 1, m)
      OBVIOUS
    <3>2. v \in Seq(SUBSET Strip)
      <4>1. 1 \in Int /\ m \in Int
        BY <2>1
      <4>2. SubSeq(u, 1, m) \in Seq(SUBSET Strip)
        BY <4>1, <2>3, SubSeqProperties, Zenon
      <4> QED BY <4>2, <3>1, Zenon
    <3>3. Len(v) = m
      BY <3>1, <2>1, <1>3, <1>5, SubSeqProperties
    <3> QED BY <3>1, <3>2, <3>3, Zenon
  <2> QED BY <2>1, <2>2, <2>4
<1>7. Scene \in Pixels
  <2>1. Imported \in Image /\ GroundPaint \in Paint
    BY DEF Imported, Image, GroundPaint, PixelsTyped, PixelsShape
  <2>2. \A s \in Strip : s = 0 \/ s \in Row
    BY PixelsAssumption DEF Strip, Row, PixelsAssumption
  <2> QED BY <2>1, <2>2 DEF Scene, Pixels, Image
<1>8. Composed \in Pixels
  BY <1>7 DEF Composed, Pixels, PixelsTyped, PixelsShape
<1>9. Flushed \in Pixels
  <2>1. slot[back] \in Pixels
    BY DEF PixelsTyped, PixelsShape
  <2> QED BY <1>8, <2>1 DEF Flushed, Pixels
<1>10. slot' \in [{0, 1} -> Pixels]
  BY <1>9 DEF Rendered, PixelsTyped, PixelsShape
<1> QED BY <1>2, <1>6, <1>8, <1>10 DEF Rendered

LEMMA PixelsTypedStep == PixelsTyped /\ [PixelsNext]_pixelVars => PixelsTyped'
<1> SUFFICES ASSUME PixelsTyped, [PixelsNext]_pixelVars PROVE PixelsTyped'
  OBVIOUS
<1> USE DEF clientVars, groundVars, slotVars
<1>1. ASSUME NEW next \in Image, NEW declared \in SUBSET Row, CommitBuffer(next, declared)
      PROVE  PixelsTyped'
  <2>1. Refined(next) \subseteq Row
    BY DEF Refined, ChangedRows, PixelsTyped, PixelsShape
  <2>2. /\ copy' \in Image \cup {NoCopy} /\ unpresented' \subseteq Row
        /\ unimported' \subseteq Row /\ undrawn' \subseteq Row
    BY <1>1, <2>1 DEF CommitBuffer, Damaged, PixelsTyped, PixelsShape
  <2>3. missed' \subseteq Row
    <3>1. ChangedRows(buffer, buffer') \subseteq Row /\ missed \subseteq Row
      BY DEF ChangedRows, PixelsTyped, PixelsShape
    <3>2. missed' = (missed \cup ChangedRows(buffer, buffer')) \ unimported'
      BY <1>1 DEF CommitBuffer, Damaged
    <3> QED BY <3>1, <3>2
  <2> QED BY <1>1, <2>2, <2>3 DEF CommitBuffer, PixelsTyped, PixelsShape
<1>2. ASSUME NEW next \in Image, CommitResized(next) PROVE PixelsTyped'
  <2>1. missed' \subseteq Row
    BY <1>2 DEF CommitResized, Damaged, ChangedRows, PixelsTyped, PixelsShape
  <2> QED BY <1>2, <2>1 DEF CommitResized, Damaged, PixelsTyped, PixelsShape
<1>3. CASE \E mode \in Authorities : SetAuthority(mode)
  BY <1>3 DEF SetAuthority, PixelsTyped, PixelsShape
<1>4. CASE \E paint \in Paint : RefreshGround(paint)
  BY <1>4 DEF RefreshGround, PixelsTyped, PixelsShape
<1>5. CASE AskForShot
  BY <1>5 DEF AskForShot, PixelsTyped, PixelsShape
<1>6. CASE ResumeScanout
  BY <1>6 DEF ResumeScanout, PixelsTyped, PixelsShape
<1>7. CASE FrameNotBound
  BY <1>7, GatheredTyped, PastTyped DEF FrameNotBound, PixelsTyped, PixelsShape
<1>8. CASE FrameSkipped
  <2>1. /\ surfaceTexture' \in Image /\ unimported' = {} /\ ground' \in Paint /\ wallpaperDue' = FALSE
        /\ UNCHANGED <<buffer, copy, authority, wallpaperPaint, flush, missed>>
    BY <1>8, GatheredTyped DEF FrameSkipped
  <2>2. /\ pixelsOwed' = FALSE
        /\ UNCHANGED <<past, unpresented, undrawn, shadowCopy, slotVars, shotsDue, behind>>
    BY <1>8 DEF FrameSkipped
  <2>3. PixelsShape'
    BY <2>1, <2>2 DEF PixelsTyped, PixelsShape
  <2> QED BY <2>1, <2>2, <2>3 DEF PixelsTyped
<1>9. CASE FrameFlipped
  <2>1. behind' \in [{0, 1} -> SUBSET Strip]
    BY <1>9 DEF FrameFlipped, PixelsTyped, PixelsShape
  <2>2. Gathered /\ Rendered
    BY <1>9 DEF FrameFlipped, Rendered
  <2>3. back' \in {0, 1} /\ front' \in {0, 1, NoSlot} /\ fresh' \subseteq {0, 1}
    <3>1. back = 0 \/ back = 1
      BY DEF PixelsTyped, PixelsShape
    <3>2. back' = 1 - back
      BY <1>9 DEF FrameFlipped, NextSlot
    <3>3. back' \in {0, 1}
      BY <3>1, <3>2
    <3> QED BY <1>9, <3>1, <3>3 DEF FrameFlipped, PixelsTyped, PixelsShape
  <2>4. pixelsOwed' = FALSE /\ unpresented' = {}
    BY <1>9 DEF FrameFlipped
  <2>5. /\ surfaceTexture' \in Image /\ unimported' = {} /\ ground' \in Paint /\ wallpaperDue' = FALSE
        /\ UNCHANGED <<buffer, copy, authority, wallpaperPaint, flush, missed>>
    BY <2>2, GatheredTyped
  <2>6. /\ past' \in Seq(SUBSET Strip) /\ Len(past') <= 2 /\ undrawn' = {}
        /\ shadowCopy' \in Pixels /\ slot' \in [{0, 1} -> Pixels] /\ shotsDue' = FALSE
    BY <2>2, RenderedTyped
  <2>7. PixelsShape'
    BY <2>1, <2>3, <2>4, <2>5, <2>6 DEF PixelsTyped, PixelsShape
  <2> QED BY <2>4, <2>5, <2>6, <2>7 DEF PixelsTyped
<1>10. CASE FrameRefused
  <2>1. Gathered /\ Rendered
    BY <1>10 DEF FrameRefused, Rendered
  <2>2. behind' \in [{0, 1} -> SUBSET Strip]
    BY <1>10, <2>1, RenderedTyped DEF FrameRefused, PixelsTyped, PixelsShape
  <2> QED BY <1>10, <2>1, <2>2, GatheredTyped, RenderedTyped DEF FrameRefused, PixelsTyped, PixelsShape
<1>11. CASE UNCHANGED pixelVars
  BY <1>11 DEF pixelVars, PixelsTyped, PixelsShape
<1> QED BY <1>1, <1>2, <1>3, <1>4, <1>5, <1>6, <1>7, <1>8, <1>9, <1>10, <1>11 DEF PixelsNext

LEMMA PixelsTypeHolds == PixelsTyped => PixelsTypeOK
  BY DEF PixelsTyped, PixelsShape, PixelsTypeOK

-----------------------------------------------------------------------------
(* The types of the scan and of the objects.                               *)

\* A verdict on the flush is one of the three.
VerdictTyped == flushCheck # NotChecked => flushCheck.verdict \in {"blind", "clean", "lost"}

LEMMA VerdictStep == VerdictTyped /\ [StaleNext]_staleVars => VerdictTyped'
<1> SUFFICES ASSUME VerdictTyped, [StaleNext]_staleVars PROVE VerdictTyped'
  OBVIOUS
<1>1. ASSUME NEW readback \in BOOLEAN, NEW flushed \in 0..ScanHeight, NEW mappedRows \in 0..ScanHeight,
             NEW lostRows \in {{}, {ScanHeight - 1}}, Report(readback, flushed, mappedRows, lostRows)
      PROVE  VerdictTyped'
  <2>1. CheckFlush(readback, flushed, mappedRows, lostRows) \in {"blind", "clean", "lost"}
    BY DEF CheckFlush, CompareFlush
  <2>2. flushCheck'.verdict = CheckFlush(readback, flushed, mappedRows, lostRows)
    BY <1>1 DEF Report
  <2> QED BY <2>1, <2>2 DEF VerdictTyped
<1>2. CASE ScanBlind \/ ScanOneRow \/ Attribute
  BY <1>2 DEF ScanBlind, ScanOneRow, Attribute, VerdictTyped
<1>3. CASE UNCHANGED staleVars
  BY <1>3 DEF staleVars, VerdictTyped
<1> QED BY <1>1, <1>2, <1>3 DEF StaleNext

LEMMA StaleTypeHolds == StaleInv /\ VerdictTyped => StaleTypeOK
  BY DEF StaleInv, VerdictTyped, StaleTypeOK

-----------------------------------------------------------------------------
\* What the objects' own invariant leaves out of their types.
LossesTyped ==
    /\ stranded \subseteq Kinds \X Parts
    /\ texels \subseteq Tex \X TexelRows
    /\ refused \in 0..MaxRefused
    /\ frameDraws = NoFrame \/ frameDraws \in Seq(Tex)

LEMMA PipelinesMake ==
    Len(PipelinesCalls) = 8 /\ \A n \in 1 .. 8 : PipelinesCalls[n].makes \subseteq Parts
<1> DEFINE order == <<"module", "setLayout", "layout", "nearest", "linear", "textured",
                      "solid", "descriptorPool">>
           before(n) == {order[j] : j \in 1 .. n - 1}
<1>1. /\ Len(order) = 8 /\ Len(PipelinesCalls) = 8
      /\ \A n \in 1 .. 8 : PipelinesCalls[n] = Create(order[n], Sift(PipelinesDrop, before(n)))
  BY DEF PipelinesCalls
<1>2. \A n \in 1 .. 8 : order[n] \in Parts
  BY PartsAre
<1> HIDE DEF order
<1>3. \A n \in 1 .. 8 : PipelinesCalls[n].makes = {order[n]}
  BY <1>1 DEF Create
<1> QED BY <1>1, <1>2, <1>3

\* What each call makes is a part.
LEMMA MakesParts ==
    ASSUME NEW k \in Kinds, NEW validated \in BOOLEAN, NEW n \in 1..Len(CallsOf(k, validated))
    PROVE  CallsOf(k, validated)[n].makes \subseteq Parts
<1>1. CASE k = "gpu"
  <2>1. CallsOf(k, validated) = GpuCalls(validated)
    BY <1>1 DEF CallsOf
  <2>2. n \in {1, 2, 3}
    BY <2>1 DEF GpuCalls
  <2> QED BY <2>1, <2>2, PartsAre DEF GpuCalls, InstanceCall, Create
<1>2. CASE k = "pipelines"
  <2>1. CallsOf(k, validated) = PipelinesCalls
    BY <1>2 DEF CallsOf
  <2> QED BY <2>1, PipelinesMake
<1>3. CASE k = "owned"
  <2>1. CallsOf(k, validated) = OwnedCalls
    BY <1>3 DEF CallsOf
  <2>2. n \in {1, 2, 3, 4, 5, 6, 7, 8, 9}
    BY <2>1, OwnedCallsAre
  <2> QED BY <2>1, <2>2, OwnedCallsAre, PartsAre DEF Create, Ask
<1>4. CASE k = "imported"
  <2>1. CallsOf(k, validated) = ImportCalls
    BY <1>4 DEF CallsOf
  <2>2. /\ ImportCalls[1].makes = {"fd"} /\ ImportCalls[2].makes = {}
        /\ \A i \in {3, 4, 5, 6, 7, 8} : ImportCalls[i] = ImportLinearCalls[i - 1]
    BY DEF ImportCalls, Create, Ask
  <2>3. n \in {1, 2, 3, 4, 5, 6, 7, 8}
    BY <2>1 DEF ImportCalls
  <2>4. \A i \in {3, 4, 5, 6, 7, 8} : ImportLinearCalls[i - 1].makes \subseteq Parts
    BY PartsAre DEF ImportLinearCalls, Create, Ask, Absorb
  <2> QED BY <2>1, <2>2, <2>3, <2>4, PartsAre
<1>5. CASE k = "uploaded"
  <2>1. CallsOf(k, validated) = UploadCalls
    BY <1>5 DEF CallsOf
  <2>2. n \in {1, 2, 3, 4, 5, 6, 7, 8, 9, 10}
    BY <2>1 DEF UploadCalls
  <2> QED BY <2>1, <2>2, PartsAre DEF UploadCalls, Create, Ask
<1>6. CASE k = "readback"
  <2>1. CallsOf(k, validated) = ReadbackCalls(<<>>, <<"buffer">>)
    BY <1>6 DEF CallsOf
  <2>2. n \in {1, 2, 3, 4}
    BY <2>1 DEF ReadbackCalls
  <2> QED BY <2>1, <2>2, PartsAre DEF ReadbackCalls, Create, Ask
<1>7. CASE k = "exported"
  <2>1. CallsOf(k, validated) = ExportCalls
    BY <1>7 DEF CallsOf
  <2>2. n \in {1, 2, 3, 4, 5, 6}
    BY <2>1 DEF ExportCalls
  <2> QED BY <2>1, <2>2, PartsAre DEF ExportCalls, Create, Ask
<1> QED BY <1>1, <1>2, <1>3, <1>4, <1>5, <1>6, <1>7 DEF Kinds

LEMMA RefusedStrands ==
    ASSUME LossesTyped, NEW t, NEW k \in Kinds, NEW validated \in BOOLEAN, Refused(t, k, validated)
    PROVE  stranded' \subseteq Kinds \X Parts /\ refused' \in 0..MaxRefused
<1> DEFINE calls == CallsOf(k, validated)
<1>1. PICK n \in 1..Len(calls) :
         stranded' = stranded \cup ({k} \X (After(calls, n - 1) \ ToSet(calls[n].undo)))
  BY DEF Refused
<1>2. Len(calls) \in Nat
  BY AllFit DEF CallsFit
<1>3. \A i \in 1..n - 1 : i \in 1..Len(calls)
  BY <1>2
<1>4. \A i \in 1..n - 1 : calls[i].makes \subseteq Parts
  BY <1>3, MakesParts
<1>5. After(calls, n - 1) \subseteq Parts
  BY <1>4 DEF After
<1>6. refused' \in 0..MaxRefused
  BY KasaneAssumption DEF Refused, LossesTyped
<1> HIDE DEF calls
<1> QED BY <1>1, <1>5, <1>6 DEF LossesTyped

LEMMA LossesStart == KasaneInit => LossesTyped
  BY KasaneAssumption DEF KasaneInit, LossesTyped

LEMMA LossesStep == KasaneInv /\ LossesTyped /\ [KasaneNext]_kasaneVars => LossesTyped'
<1> SUFFICES ASSUME KasaneInv, LossesTyped, [KasaneNext]_kasaneVars PROVE LossesTyped'
  OBVIOUS
<1>0. FALSE \in BOOLEAN /\ {"gpu", "pipelines", "imported", "exported", "readback", "owned", "uploaded"} \subseteq Kinds
  BY DEF Kinds
<1>1. CASE OpenGpu
  <2>1. frameDraws' = frameDraws /\ texels' = texels
    BY <1>1 DEF OpenGpu
  <2>2. stranded' \subseteq Kinds \X Parts /\ refused' \in 0..MaxRefused
    <3>1. PICK validated \in BOOLEAN : Built("gpu", "gpu", validated) \/ Refused("gpu", "gpu", validated)
      BY <1>1 DEF OpenGpu
    <3>2. CASE Built("gpu", "gpu", validated)
      BY <3>2 DEF Built, LossesTyped
    <3>3. CASE Refused("gpu", "gpu", validated)
      BY <1>0, <3>3, RefusedStrands
    <3> QED BY <3>1, <3>2, <3>3
  <2> QED BY <2>1, <2>2 DEF LossesTyped
<1>2. CASE BuildPipelines
  <2>1. frameDraws' = frameDraws /\ texels' = texels
    BY <1>2 DEF BuildPipelines
  <2>2. stranded' = stranded /\ (refused' = refused \/ (refused < MaxRefused /\ refused' = refused + 1))
    <3>1. CASE Built("pipes", "pipelines", FALSE)
      BY <3>1 DEF Built
    <3>2. CASE ~Built("pipes", "pipelines", FALSE)
      BY <1>2, <3>2 DEF BuildPipelines
    <3> QED BY <3>1, <3>2
  <2>3. refused' \in 0..MaxRefused
    BY <2>2, KasaneAssumption DEF LossesTyped
  <2> QED BY <2>1, <2>2, <2>3 DEF LossesTyped
<1>3. CASE BindDmabuf
  <2>1. frameDraws' = frameDraws /\ texels' = texels
    BY <1>3 DEF BindDmabuf
  <2>2. CASE Refused("bound", "imported", FALSE)
    BY <1>0, <2>1, <2>2, RefusedStrands DEF LossesTyped
  <2>3. CASE Built("bound", "imported", FALSE)
    BY <2>1, <2>3 DEF Built, LossesTyped
  <2> QED BY <1>3, <2>2, <2>3 DEF BindDmabuf
<1>4. CASE ExportLinear
  <2>1. frameDraws' = frameDraws /\ texels' = texels
    BY <1>4 DEF ExportLinear
  <2>2. CASE Refused("export", "exported", FALSE)
    BY <1>0, <2>1, <2>2, RefusedStrands DEF LossesTyped
  <2>3. CASE Built("export", "exported", FALSE)
    BY <2>1, <2>3 DEF Built, LossesTyped
  <2> QED BY <1>4, <2>2, <2>3 DEF ExportLinear
<1>5. ASSUME NEW t \in Tex, NEW source \in {"imported", "uploaded"}, MakeTexture(t, source) PROVE LossesTyped'
  <2>1. frameDraws' = frameDraws
    BY <1>5 DEF MakeTexture
  <2>2. texels' = texels \/ texels' = texels \cup ({t} \X TexelRows)
    BY <1>5 DEF MakeTexture
  <2>3. texels' \subseteq Tex \X TexelRows
    BY <2>2 DEF LossesTyped
  <2>4. stranded' \subseteq Kinds \X Parts /\ refused' \in 0..MaxRefused
    <3>1. CASE Refused(t, source, FALSE)
      BY <1>0, <3>1, RefusedStrands
    <3>2. CASE Built(t, source, FALSE)
      BY <3>2 DEF Built, LossesTyped
    <3> QED BY <1>5, <3>1, <3>2 DEF MakeTexture
  <2> QED BY <2>1, <2>3, <2>4 DEF LossesTyped
<1>6. ASSUME NEW thing, NEW k \in Kinds, CopyOut(thing, k) PROVE LossesTyped'
  <2>1. frameDraws' = frameDraws /\ texels' = texels
    BY <1>6 DEF CopyOut
  <2>2. CASE Refused(thing, k, FALSE)
    BY <1>0, <2>1, <2>2, RefusedStrands DEF LossesTyped
  <2>3. CASE UNCHANGED <<kind, stranded, refused>>
    BY <2>1, <2>3 DEF LossesTyped
  <2> QED BY <1>6, <2>2, <2>3 DEF CopyOut
<1>7. CASE Unbind \/ TakeFd \/ DropExport \/ CloseRenderer \/ DestroyNext
  BY <1>7 DEF Unbind, TakeFd, DropExport, CloseRenderer, DestroyNext, LossesTyped
<1>8. CASE BeginFrame
  <2>1. <<>> \in Seq(Tex)
    OBVIOUS
  <2> QED BY <1>8, <2>1 DEF BeginFrame, LossesTyped
<1>9. CASE FinishFrame
  <2>1. frameDraws' = NoFrame /\ UNCHANGED <<stranded, refused>>
    BY <1>9 DEF FinishFrame
  <2>2. texels' \subseteq texels
    BY <1>9 DEF FinishFrame
  <2> QED BY <2>1, <2>2 DEF LossesTyped
<1>10. ASSUME NEW t \in Tex, NEW region \in SUBSET TexelRows, UpdateMemory(t, region) PROVE LossesTyped'
  <2>1. PICK kept \in SUBSET TexelRows : texels' = {x \in texels : x[1] # t} \cup ({t} \X (region \cup kept))
    BY <1>10 DEF UpdateMemory
  <2>2. UNCHANGED <<stranded, refused, frameDraws>>
    BY <1>10 DEF UpdateMemory
  <2> QED BY <2>1, <2>2 DEF LossesTyped
<1>11. ASSUME NEW t \in Tex, RenderTexture(t) PROVE LossesTyped'
  <2>1. PICK d \in Seq(Tex) : d = frameDraws
    BY <1>11 DEF RenderTexture, Recording, LossesTyped
  <2>2. Append(d, t) \in Seq(Tex)
    OBVIOUS
  <2>3. frameDraws' \in Seq(Tex)
    BY <1>11, <2>1, <2>2 DEF RenderTexture
  <2> QED BY <1>11, <2>3 DEF RenderTexture, LossesTyped
<1>12. ASSUME NEW t \in Tex, LetGo(t) PROVE LossesTyped'
  <2>1. texels' \subseteq texels
    BY <1>12 DEF LetGo
  <2> QED BY <1>12, <2>1 DEF LetGo, LossesTyped
<1>13. CASE UNCHANGED kasaneVars
  BY <1>13 DEF kasaneVars, LossesTyped
<1> QED
  BY <1>0, <1>1, <1>2, <1>3, <1>4, <1>5, <1>6, <1>7, <1>8, <1>9, <1>10, <1>11, <1>12, <1>13
     DEF KasaneNext, ImportTexture, UploadTexture, CopyFramebuffer, CopyTexture

LEMMA KasaneTypeHolds == KasaneInv /\ LossesTyped => KasaneTypeOK
<1> SUFFICES ASSUME KasaneInv, LossesTyped PROVE KasaneTypeOK
  OBVIOUS
<1>1. kind \in [Thing -> Kinds \cup {"none"}] /\ objects \subseteq Thing \X Parts
  BY DEF KasaneInv, ObjectsHold, KindsFit, Object
<1>2. dying \in Seq(Thing \X Parts)
  BY DEF KasaneInv, ObjectsHold, GoodDrop, Object
<1> QED BY <1>1, <1>2 DEF KasaneInv, HoldersStand, LossesTyped, KasaneTypeOK

-----------------------------------------------------------------------------
(* The types of the blit.                                                  *)

\* The damage of a job names no pixel twice.
Apart(damage) ==
    \A i, k \in DOMAIN damage : i # k =>
        \A at \in Int \X Int : ~(Covers(damage[i], at) /\ Covers(damage[k], at))
DamageApart == \A j \in Jobs : Apart(j.damage)

Tallies == [copied : Nat, blended : Nat, general : Nat]

\* The pixels that have a layer have one, and it came with a rectangle that is
\* behind.
LayersOnce ==
    /\ DOMAIN outputPixels = Canvas /\ tally \in Tallies
    /\ \A p \in Canvas : Len(outputPixels[p]) <= 1
    /\ job # NoJob =>
          /\ Apart(job.damage)
          /\ \E k \in 0 .. Len(job.damage) :
                /\ damageDue = SubSeq(job.damage, k + 1, Len(job.damage))
                /\ \A p \in Canvas : outputPixels[p] # <<>> =>
                      \E i \in 1 .. k : Due(job, job.damage[i], p)

LEMMA LayersStart == BlitInit => LayersOnce
<1> SUFFICES ASSUME BlitInit PROVE LayersOnce
  OBVIOUS
<1>1. outputPixels = [p \in Canvas |-> <<>>] /\ job = NoJob
  BY DEF BlitInit
<1>2. tally \in Tallies
  BY DEF BlitInit, Tallies
<1>3. Len(<<>>) <= 1
  OBVIOUS
<1> QED BY <1>1, <1>2, <1>3 DEF LayersOnce

\* A rectangle of damage goes one way.
LEMMA PaintsCanvas ==
    ASSUME DOMAIN outputPixels = Canvas, NEW d, RenderTextureFrom(d) \/ DrawSolid(d) \/ Clear(d)
    PROVE  DOMAIN outputPixels' = Canvas
<1>1. CASE RenderTextureFrom(d)
  BY <1>1 DEF RenderTextureFrom, Blitted
<1>2. CASE DrawSolid(d)
  BY <1>2 DEF DrawSolid, Filled
<1>3. CASE Clear(d)
  BY <1>3 DEF Clear, Filled
<1> QED BY <1>1, <1>2, <1>3

\* No rectangle has less than nothing, when two overlap or not.
LEMMA OverlapIsSome ==
    ASSUME NEW r \in Rects, NEW s \in Rects
    PROVE  Intersect(r, s) \in Rects /\ Intersect(r, s).w \in Nat /\ Intersect(r, s).h \in Nat
<1>1. PICK x0, y0, x1, y1 : /\ x0 = Max({r.x, s.x}) /\ y0 = Max({r.y, s.y})
                            /\ x1 = Min({r.x + r.w, s.x + s.w}) /\ y1 = Min({r.y + r.h, s.y + s.h})
  OBVIOUS
<1>2. /\ r.x \in Int /\ s.x \in Int /\ r.y \in Int /\ s.y \in Int
      /\ r.x + r.w \in Int /\ s.x + s.w \in Int /\ r.y + r.h \in Int /\ s.y + s.h \in Int
  BY DEF Rects
<1>3. x0 \in Int /\ y0 \in Int /\ x1 \in Int /\ y1 \in Int
  <2>1. PICK a, b, c, e \in Int : a = r.x /\ b = s.x /\ c = r.x + r.w /\ e = s.x + s.w
    BY <1>2
  <2>2. PICK f, g, h, i \in Int : f = r.y /\ g = s.y /\ h = r.y + r.h /\ i = s.y + s.h
    BY <1>2
  <2>3. x0 = Max({a, b}) /\ x1 = Min({c, e}) /\ y0 = Max({f, g}) /\ y1 = Min({h, i})
    BY <1>1, <2>1, <2>2
  <2>4. Max({a, b}) \in Int /\ Max({f, g}) \in Int /\ Min({c, e}) \in Int /\ Min({h, i}) \in Int
    <3>1. \A m, n \in Int : Max({m, n}) \in Int /\ Min({m, n}) \in Int
      <4> SUFFICES ASSUME NEW m \in Int, NEW n \in Int PROVE Max({m, n}) \in Int /\ Min({m, n}) \in Int
        OBVIOUS
      <4>1. Max({m, n}) = (IF m >= n THEN m ELSE n) /\ Min({m, n}) = (IF m <= n THEN m ELSE n)
        BY SmallerAndLarger
      <4> QED BY <4>1
    <3> QED BY <3>1
  <2> QED BY <2>3, <2>4
<1>4. Intersect(r, s) = IF x1 <= x0 \/ y1 <= y0 THEN Empty ELSE Rect(x0, y0, x1 - x0, y1 - y0)
  BY <1>1 DEF Intersect
<1>5. CASE x1 <= x0 \/ y1 <= y0
  BY <1>4, <1>5 DEF Empty, Rect, Rects
<1>6. CASE ~(x1 <= x0 \/ y1 <= y0)
  <2>1. Intersect(r, s) = Rect(x0, y0, x1 - x0, y1 - y0)
    BY <1>4, <1>6
  <2>2. x1 - x0 \in Nat /\ y1 - y0 \in Nat
    BY <1>3, <1>6
  <2> QED BY <1>3, <2>1, <2>2 DEF Rect, Rects
<1> QED BY <1>5, <1>6

LEMMA CountsUp ==
    ASSUME tally \in Tallies, NEW j \in TextureJob, NEW tex, NEW hint, NEW d \in Rects
    PROVE  Counted(j, tex, hint, d) \in Tallies
<1>1. PICK clip \in Rects : /\ clip = Intersect(Intersect(d, j.dst), Bounds(CanvasSize))
                            /\ clip.w \in Nat /\ clip.h \in Nat
  <2>1. j.dst \in Rects /\ Bounds(CanvasSize) \in Rects
    BY CanvasIsCovered DEF TextureJob
  <2>2. Intersect(d, j.dst) \in Rects
    BY <2>1, OverlapIsSome
  <2> QED BY <2>1, <2>2, OverlapIsSome
<1>2. PICK ys : ys = clip.y .. clip.y + clip.h - 1
  OBVIOUS
<1>3. PICK rows : rows = {y \in ys : RowOf(j, clip, y) # {}}
  OBVIOUS
<1>4. PICK copied : copied = {y \in rows : RowIsOpaque(j, tex, hint, clip, y)}
  OBVIOUS
<1>5. Counted(j, tex, hint, d) =
        IF OneToOne(j) THEN [tally EXCEPT !.copied = @ + Cardinality(copied),
                                          !.blended = @ + Cardinality(rows \ copied)]
        ELSE [tally EXCEPT !.general = @ + clip.w * clip.h]
  BY <1>1, <1>2, <1>3, <1>4 DEF Counted
<1>6. IsFiniteSet(ys)
  <2>1. clip.y \in Int /\ clip.y + clip.h - 1 \in Int
    BY <1>1 DEF Rects
  <2> QED BY <1>2, <2>1, FS_Interval
<1>7. Cardinality(copied) \in Nat /\ Cardinality(rows \ copied) \in Nat
  <2>1. copied \subseteq ys /\ rows \ copied \subseteq ys
    BY <1>3, <1>4
  <2>2. IsFiniteSet(copied) /\ IsFiniteSet(rows \ copied)
    BY <1>6, <2>1, FS_Subset
  <2> QED BY <2>2, FS_CardinalityType
<1>8. PICK a, b, c \in Nat : tally = [copied |-> a, blended |-> b, general |-> c]
  BY DEF Tallies
<1>9. PICK m, n \in Nat : m = Cardinality(copied) /\ n = Cardinality(rows \ copied)
  BY <1>7
<1>10. PICK area \in Nat : area = clip.w * clip.h
  BY <1>1
<1>11. CASE OneToOne(j)
  <2>1. Counted(j, tex, hint, d) = [copied |-> a + m, blended |-> b + n, general |-> c]
    BY <1>5, <1>8, <1>9, <1>11
  <2> QED BY <2>1 DEF Tallies
<1>12. CASE ~OneToOne(j)
  <2>1. Counted(j, tex, hint, d) = [copied |-> a, blended |-> b, general |-> c + area]
    BY <1>5, <1>8, <1>10, <1>12
  <2> QED BY <2>1 DEF Tallies
<1> QED BY <1>11, <1>12

LEMMA TallyStep ==
    ASSUME tally \in Tallies, job \in Job, NEW d \in Rects,
           RenderTextureFrom(d) \/ DrawSolid(d) \/ Clear(d)
    PROVE  tally' \in Tallies
<1>1. PICK j \in Job : j = job
  OBVIOUS
<1>2. CASE RenderTextureFrom(d)
  <2>1. j \in TextureJob
    BY <1>1, <1>2 DEF RenderTextureFrom, Job, SolidJob, ClearJob
  <2>2. PICK tex, hint : tex = cachedTexture.alpha /\ hint = cachedTexture.opaque
    OBVIOUS
  <2>3. PICK m \in Rects : m = Moved(d, j.dst)
    <3>1. j.dst \in Rects
      BY <2>1 DEF TextureJob
    <3>2. <<0, 0>> \in Int \X Int
      OBVIOUS
    <3> QED BY <3>1, <3>2, MovedCovers
  <2>4. tally' = Counted(j, tex, hint, m)
    <3>1. j.op = "texture"
      BY <2>1 DEF TextureJob
    <3>2. tally' = Counted(j, tex, hint, Translated(j, d))
      BY <1>1, <1>2, <2>2 DEF RenderTextureFrom
    <3>3. Translated(j, d) = m
      BY <2>3, <3>1 DEF Translated
    <3> QED BY <3>2, <3>3
  <2> QED BY <2>1, <2>4, CountsUp
<1>3. CASE DrawSolid(d)
  BY <1>3 DEF DrawSolid
<1>4. CASE Clear(d)
  <2>1. CASE job.ground
    <3>1. PICK clip \in Rects : clip = Intersect(d, Bounds(CanvasSize)) /\ clip.h \in Nat
      BY CanvasIsCovered, OverlapIsSome
    <3>2. tally' = [tally EXCEPT !.copied = @ + clip.h]
      BY <1>4, <2>1, <3>1 DEF Clear
    <3>3. PICK a, b, c \in Nat : tally = [copied |-> a, blended |-> b, general |-> c]
      BY DEF Tallies
    <3>4. PICK h \in Nat : h = clip.h
      BY <3>1
    <3>5. tally' = [copied |-> a + h, blended |-> b, general |-> c]
      BY <3>2, <3>3, <3>4
    <3> QED BY <3>5 DEF Tallies
  <2>2. CASE ~job.ground
    BY <1>4, <2>2 DEF Clear
  <2> QED BY <2>1, <2>2
<1> QED BY <1>2, <1>3, <1>4

LEMMA LayersStep ==
    ASSUME DamageApart, BlitInv, LayersOnce, [BlitNext]_blitVars
    PROVE  LayersOnce'
<1>1. NoJob \notin Job /\ Jobs \subseteq Job
  BY BlitAssumption DEF BlitAssumption
<1>2. ASSUME NEW b \in Buffers, NEW damage, NEW hasSurface, ImportShmBuffer(b, damage, hasSurface)
      PROVE  LayersOnce'
  BY <1>2 DEF ImportShmBuffer, LayersOnce
<1>3. ASSUME NEW j \in Jobs, BeginDraw(j) PROVE LayersOnce'
  <2>1. /\ job = NoJob /\ job' = NuriJob(j) /\ damageDue' = j.damage /\ UNCHANGED <<outputPixels, tally>>
    BY <1>3 DEF BeginDraw
  <2>2. PICK all \in Seq(Rects) : all = j.damage
    <3>1. j \in Job
      BY <1>1
    <3> QED BY <3>1 DEF Job, TextureJob, SolidJob, ClearJob
  <2>3. job'.damage = all
    <3>1. CASE j.op = "texture"
      <4>1. j \in TextureJob
        BY <1>1, <3>1 DEF Job, SolidJob, ClearJob
      <4>2. NuriJob(j) = [j EXCEPT !.src = Cut(j.src)]
        BY <3>1 DEF NuriJob
      <4>3. [j EXCEPT !.src = Cut(j.src)].damage = j.damage
        BY <4>1 DEF TextureJob
      <4> QED BY <2>1, <2>2, <4>2, <4>3
    <3>2. CASE j.op # "texture"
      BY <2>1, <2>2, <3>2 DEF NuriJob
    <3> QED BY <3>1, <3>2
  <2>4. Apart(all)
    BY <2>2 DEF DamageApart
  <2>5. \A p \in Canvas : outputPixels'[p] = <<>>
    BY <2>1 DEF BlitInv
  <2>6. SubSeq(all, 0 + 1, Len(all)) = all /\ 0 \in 0 .. Len(all)
    OBVIOUS
  <2>7. /\ Apart(job'.damage)
        /\ \E k \in 0 .. Len(job'.damage) :
              /\ damageDue' = SubSeq(job'.damage, k + 1, Len(job'.damage))
              /\ \A p \in Canvas : outputPixels'[p] # <<>> =>
                    \E i \in 1 .. k : Due(job', job'.damage[i], p)
    BY <2>1, <2>2, <2>3, <2>4, <2>5, <2>6
  <2> QED BY <2>1, <2>7 DEF LayersOnce
<1>4. CASE PaintDamage
  <2>1. /\ job # NoJob /\ damageDue # <<>> /\ damageDue' = Tail(damageDue) /\ job' = job
    BY <1>4 DEF PaintDamage
  <2>2. PICK all \in Seq(Rects) : all = job.damage
    <3>1. job \in Job
      BY <2>1 DEF BlitInv
    <3> QED BY <3>1 DEF Job, TextureJob, SolidJob, ClearJob
  <2>3. PICK k \in 0 .. Len(all) :
           /\ damageDue = SubSeq(all, k + 1, Len(all))
           /\ \A p \in Canvas : outputPixels[p] # <<>> => \E i \in 1 .. k : Due(job, all[i], p)
    BY <2>1, <2>2 DEF LayersOnce
  <2>4. /\ k + 1 \in 1 .. Len(all) /\ Head(damageDue) = all[k + 1]
        /\ Tail(damageDue) = SubSeq(all, (k + 1) + 1, Len(all))
    <3>1. damageDue = SubSeq(all, k + 1, Len(all))
      BY <2>3
    <3>2. k # Len(all)
      BY <2>1, <3>1
    <3> QED BY <3>1, <3>2
  <2>5. PICK d \in Rects : d = all[k + 1]
    BY <2>4
  <2>6. RenderTextureFrom(d) \/ DrawSolid(d) \/ Clear(d)
    BY <1>4, <2>4, <2>5 DEF PaintDamage
  <2>7. Apart(all)
    BY <2>1, <2>2 DEF LayersOnce
  <2>8. ASSUME NEW p \in Canvas, Due(job, d, p) PROVE outputPixels[p] = <<>>
    <3>1. SUFFICES ASSUME NEW i \in 1 .. k, Due(job, all[i], p) PROVE FALSE
      BY <2>3
    <3>2. PICK at \in Int \X Int : Covers(all[i], at) /\ Covers(d, at)
      <4>1. p \in Int \X Int
        BY CanvasIsCovered
      <4>2. CASE job.op = "clear"
        BY <2>8, <3>1, <4>1, <4>2 DEF Due
      <4>3. CASE job.op # "clear"
        <5>1. job.dst \in Rects
          BY <2>1, <4>3 DEF BlitInv, Job, TextureJob, SolidJob, ClearJob
        <5>2. PICK q \in Rects : q = job.dst
          BY <5>1
        <5>3. <<p[1] - q.x, p[2] - q.y>> \in Int \X Int
          <6>1. p[1] \in Int /\ p[2] \in Int
            BY <4>1
          <6>2. q.x \in Int /\ q.y \in Int
            BY DEF Rects
          <6>3. p[1] - q.x \in Int /\ p[2] - q.y \in Int
            BY <6>1, <6>2
          <6> QED BY <6>3
        <5> QED BY <2>8, <3>1, <4>3, <5>2, <5>3 DEF Due
      <4> QED BY <4>2, <4>3
    <3>3. i \in DOMAIN all /\ k + 1 \in DOMAIN all /\ i # k + 1
      BY <2>4
    <3> QED BY <2>5, <2>7, <3>2, <3>3 DEF Apart
  <2>9. ASSUME NEW p \in Canvas
        PROVE  /\ Len(outputPixels'[p]) <= 1
               /\ outputPixels'[p] # <<>> => outputPixels[p] # <<>> \/ Due(job, d, p)
    <3>1. Painted(outputPixels[p], outputPixels'[p], Due(job, d, p), Plain(job, cachedTexture),
                  Shown(job, p))
      BY <2>1, <2>6, PaintStep
    <3>2. PICK old, new : old = outputPixels[p] /\ new = outputPixels'[p]
      OBVIOUS
    <3>3. new = old \/ (Len(new) <= Len(old) + 1 /\ Due(job, d, p))
      BY <3>1, <3>2 DEF Painted
    <3>4. CASE new = old
      BY <3>2, <3>4 DEF LayersOnce
    <3>5. CASE new # old
      <4>1. Due(job, d, p) /\ old = <<>> /\ Len(new) <= Len(old) + 1
        BY <2>8, <3>2, <3>3, <3>5
      <4>2. Len(new) <= 1
        BY <4>1
      <4> QED BY <3>2, <4>1, <4>2
    <3> QED BY <3>4, <3>5
  <2>10. ASSUME NEW p \in Canvas, outputPixels'[p] # <<>>
         PROVE  \E i \in 1 .. k + 1 : Due(job, all[i], p)
    <3>1. CASE Due(job, d, p)
      BY <2>4, <2>5, <3>1
    <3>2. CASE outputPixels[p] # <<>>
      <4>1. PICK i \in 1 .. k : Due(job, all[i], p)
        BY <2>3, <3>2
      <4>2. i \in 1 .. k + 1
        OBVIOUS
      <4> QED BY <4>1, <4>2
    <3> QED BY <2>9, <2>10, <3>1, <3>2
  <2>11. DOMAIN outputPixels' = Canvas /\ tally' \in Tallies
    BY <2>1, <2>6, PaintsCanvas, TallyStep DEF LayersOnce, BlitInv
  <2>12. /\ Apart(job'.damage)
         /\ \E m \in 0 .. Len(job'.damage) :
              /\ damageDue' = SubSeq(job'.damage, m + 1, Len(job'.damage))
              /\ \A p \in Canvas : outputPixels'[p] # <<>> =>
                    \E i \in 1 .. m : Due(job', job'.damage[i], p)
    <3>1. k + 1 \in 0 .. Len(all)
      BY <2>4
    <3>2. job'.damage = all /\ damageDue' = SubSeq(all, (k + 1) + 1, Len(all))
      BY <2>1, <2>2, <2>4
    <3>3. \A p \in Canvas : outputPixels'[p] # <<>> => \E i \in 1 .. k + 1 : Due(job', all[i], p)
      BY <2>1, <2>10
    <3> QED BY <2>7, <3>1, <3>2, <3>3
  <2> QED BY <2>9, <2>11, <2>12 DEF LayersOnce
<1>5. CASE UNCHANGED blitVars
  BY <1>5 DEF blitVars, LayersOnce
<1> QED BY <1>2, <1>3, <1>4, <1>5 DEF BlitNext

LEMMA BlitTypeHolds == BlitInv /\ LayersOnce => BlitTypeOK
  BY DEF BlitInv, LayersOnce, Tallies, BlitTypeOK

-----------------------------------------------------------------------------
(* The types of the scene.                                                 *)

\* What of the types of the desk is not in the lists themselves.
DeskTyped ==
    /\ Range(stack) \subseteq Range(roster) /\ minimised \subseteq Range(roster)
    /\ focus \in Win \cup {NoWin} /\ published \in Win \cup {NoWin}
    /\ title \in [Win -> Title]

\* And of the facts a frame reads.
FactsTyped ==
    /\ look \in Look /\ pointer \in Shapes \cup {"hidden"} /\ hiding \in {"no", "lock", "dark"}
    /\ shelf.notes \in Seq({1, 2}) /\ shelf.generation \in Nat
    /\ changes \in Nat /\ shelf.generation <= changes /\ changes <= MaxChanges

ChromeTyped == \A w \in Win : cache.chrome[w].title \in Title \cup {"none"}

SceneTyped == DeskTyped /\ FactsTyped /\ ChromeTyped

LEMMA ListedOf == OnceEach => Range(roster) \subseteq Win /\ Range(stack) \subseteq Win
  BY DEF OnceEach, Range

LEMMA LastOf ==
    ASSUME NEW S, NEW s \in Seq(S), s # <<>>
    PROVE  Last(s) \in S /\ Last(s) \in Range(s)
<1>1. Len(s) \in DOMAIN s
  OBVIOUS
<1> QED BY <1>1 DEF Last, Range

LEMMA SceneTypedStart == SceneInit => SceneTyped
<1> SUFFICES ASSUME SceneInit PROVE SceneTyped
  OBVIOUS
<1>1. MaxChanges \in Nat
  BY SceneAssumption DEF SceneAssumption
<1>2. (CHOOSE t \in Title : TRUE) \in Title
  BY SceneAssumption DEF SceneAssumption
<1>3. Range(<<>>) = {}
  BY DEF Range
<1>4. DeskTyped
  BY <1>2, <1>3 DEF SceneInit, DeskTyped
<1>5. FactsTyped
  <2>1. <<>> \in Seq({1, 2})
    OBVIOUS
  <2> QED BY <1>1, <2>1 DEF SceneInit, FactsTyped, Shapes
<1>6. ChromeTyped
  <2>1. cache.chrome = [w \in Win |-> NoTitlebar] /\ NoTitlebar.title = "none"
    BY DEF SceneInit, NoTitlebar
  <2> QED BY <2>1 DEF ChromeTyped
<1> QED BY <1>4, <1>5, <1>6 DEF SceneTyped

\* The keyboard goes to a window of the stack, or stays.
LEMMA FocusOf ==
    ASSUME DeskTyped, NEW s \in Seq(Win)
    PROVE  FocusAnyVisible(s) \in Win \cup {NoWin}
<1>1. CASE s = <<>>
  BY <1>1 DEF FocusAnyVisible, DeskTyped
<1>2. CASE s # <<>>
  <2>1. Last(s) \in Win
    BY <1>2, LastOf
  <2> QED BY <1>2, <2>1 DEF FocusAnyVisible
<1> QED BY <1>1, <1>2

\* What is mapped are windows of the roster.
LEMMA LaidOut ==
    ASSUME NEW r \in Seq(Win), NEW m, NEW f \in Win \cup {NoWin}, ApplyLayout(r, m, f)
    PROVE  /\ stack' \in Seq(Win) /\ Range(stack') \subseteq Range(r)
           /\ published' \in Win \cup {NoWin}
<1>1. Without(r, m) \in Seq(Win) /\ Range(Without(r, m)) = Range(r) \ m
  BY WithoutKeeps
<1> QED BY <1>1 DEF ApplyLayout

LEMMA DeskTypedStep == OnceEach /\ DeskTyped /\ SceneNext => DeskTyped'
<1> SUFFICES ASSUME OnceEach, DeskTyped, SceneNext PROVE DeskTyped'
  OBVIOUS
<1>1. PICK r \in Seq(Win), s \in Seq(Win) : r = roster /\ s = stack
  BY DEF OnceEach
<1>2. focus \in Win \cup {NoWin} /\ minimised \subseteq Range(r) /\ Range(s) \subseteq Range(r)
  BY <1>1 DEF DeskTyped
<1>3. ASSUME NEW w \in Win, NewToplevel(w) PROVE DeskTyped'
  <2>1. PICK t \in Seq(Win) : t = Append(r, w) /\ Range(t) = Range(r) \cup {w}
    BY AppendKeeps
  <2>2. roster' = t /\ minimised' = minimised /\ title' = title /\ focus' \in {focus, w}
    BY <1>1, <1>3, <2>1 DEF NewToplevel
  <2>3. ApplyLayout(t, minimised, focus)
    BY <1>3, <2>2 DEF NewToplevel
  <2>4. Range(stack') \subseteq Range(t) /\ published' \in Win \cup {NoWin}
    BY <1>2, <2>3, LaidOut
  <2> QED BY <1>2, <2>1, <2>2, <2>4 DEF DeskTyped
<1>4. ASSUME NEW w \in Win, ToplevelDestroyed(w) PROVE DeskTyped'
  <2>1. PICK t \in Seq(Win) : t = Without(r, {w}) /\ Range(t) = Range(r) \ {w}
    BY WithoutKeeps
  <2>2. /\ roster' = t /\ minimised' = minimised \ {w} /\ title' = title
        /\ focus' = IF hiding = "lock" THEN focus ELSE FocusAnyVisible(stack')
    BY <1>1, <1>4, <2>1 DEF ToplevelDestroyed
  <2>3. ApplyLayout(t, minimised \ {w}, focus)
    BY <1>4, <2>2 DEF ToplevelDestroyed
  <2>4. /\ stack' \in Seq(Win) /\ Range(stack') \subseteq Range(t)
        /\ published' \in Win \cup {NoWin}
    BY <1>2, <2>3, LaidOut
  <2>5. focus' \in Win \cup {NoWin}
    <3>1. PICK z \in Seq(Win) : z = stack'
      BY <2>4
    <3>2. FocusAnyVisible(z) \in Win \cup {NoWin}
      BY FocusOf
    <3> QED BY <1>2, <2>2, <3>1, <3>2
  <2> QED BY <1>2, <2>1, <2>2, <2>4, <2>5 DEF DeskTyped
<1>5. ASSUME NEW w \in Win, Click(w) \/ FocusDeed(w) PROVE DeskTyped'
  <2>1. Range(Raised(s, w)) = Range(s) \cup {w}
    BY RaisedKeeps
  <2>2. /\ w \in Range(s) /\ stack' = Raised(s, w) /\ focus' = w
        /\ UNCHANGED <<roster, minimised, published, title>>
    BY <1>1, <1>5 DEF Click, FocusDeed
  <2> QED BY <1>1, <1>2, <2>1, <2>2 DEF DeskTyped
<1>6. ASSUME NEW w \in Win, Commit(w) PROVE DeskTyped'
  <2>1. UNCHANGED <<roster, minimised, focus, title>>
    BY <1>6 DEF Commit
  <2>2. CASE UNCHANGED <<stack, published>>
    BY <2>1, <2>2 DEF DeskTyped
  <2>3. CASE ApplyLayout(r, minimised, focus)
    <3>1. Range(stack') \subseteq Range(r) /\ published' \in Win \cup {NoWin}
      BY <1>2, <2>3, LaidOut
    <3> QED BY <1>1, <1>2, <2>1, <3>1 DEF DeskTyped
  <2> QED BY <1>1, <1>6, <2>2, <2>3 DEF Commit
<1>7. ASSUME NEW w \in Win, NEW t \in Title, SetTitle(w, t) PROVE DeskTyped'
  <2>1. title' \in [Win -> Title]
    BY <1>7 DEF SetTitle, DeskTyped
  <2> QED BY <1>7, <2>1 DEF SetTitle, DeskTyped
<1>8. CASE Minimise
  <2>1. /\ roster' = r /\ title' = title /\ minimised' = minimised \cup {focus}
        /\ focus \in Range(s) /\ focus' = FocusAnyVisible(Without(s, {focus}))
        /\ ApplyLayout(r, minimised \cup {focus}, focus')
    BY <1>1, <1>8 DEF Minimise
  <2>2. PICK z \in Seq(Win) : z = Without(s, {focus})
    BY WithoutKeeps
  <2>3. PICK g \in Win \cup {NoWin} : g = focus'
    <3>1. FocusAnyVisible(z) \in Win \cup {NoWin}
      BY FocusOf
    <3> QED BY <2>1, <2>2, <3>1
  <2>4. Range(stack') \subseteq Range(r) /\ published' \in Win \cup {NoWin}
    <3>1. ApplyLayout(r, minimised \cup {focus}, g)
      BY <2>1, <2>3
    <3> QED BY <3>1, LaidOut
  <2> QED BY <1>2, <2>1, <2>3, <2>4 DEF DeskTyped
<1>9. ASSUME NEW l \in Look, AdoptWorld(l) PROVE DeskTyped'
  <2>1. UNCHANGED <<roster, minimised, focus, title>> /\ ApplyLayout(r, minimised, focus)
    BY <1>1, <1>9 DEF AdoptWorld
  <2>2. Range(stack') \subseteq Range(r) /\ published' \in Win \cup {NoWin}
    BY <1>2, <2>1, LaidOut
  <2> QED BY <1>1, <1>2, <2>1, <2>2 DEF DeskTyped
<1>10. ASSUME \/ \E h \in {"no", "lock", "dark"} : SceneHides(h)
              \/ \E p \in Shapes \cup {"hidden"} : PointerMoves(p)
              \/ \E n \in {1, 2} : NoteAdded(n) \/ NoteGone(n)
              \/ \E i \in Line : StatusSaved(i) \/ CellSet(i)
              \/ ReadingsRead \/ MinutePasses \/ SecondTimer
              \/ \E p \in Pictures : WallpaperSaved(p)
              \/ \E presented \in BOOLEAN : RenderFrame(presented)
       PROVE  DeskTyped'
  <2>1. UNCHANGED desk
    BY <1>10 DEF SceneHides, PointerMoves, NoteAdded, NoteGone, StatusSaved, CellSet, ReadingsRead,
       MinutePasses, SecondTimer, WallpaperSaved, RenderFrame
  <2> QED BY <2>1 DEF desk, DeskTyped
<1> QED BY <1>3, <1>4, <1>5, <1>6, <1>7, <1>8, <1>9, <1>10, Zenon DEF SceneNext

LEMMA OneMore == FactsTyped /\ Change => changes' \in Nat /\ changes' = changes + 1 /\ changes' <= MaxChanges
  BY SceneAssumption DEF SceneAssumption, FactsTyped, Change

LEMMA FactsTypedStep == FactsTyped /\ SceneNext => FactsTyped'
<1> SUFFICES ASSUME FactsTyped, SceneNext PROVE FactsTyped'
  OBVIOUS
<1>1. ASSUME UNCHANGED <<look, shelf, pointer, hiding>>, changes' = changes \/ Change
      PROVE  FactsTyped'
  <2>1. PICK g, c \in Nat : g = shelf.generation /\ c = changes /\ g <= c /\ c <= MaxChanges
    BY DEF FactsTyped
  <2>2. changes' \in Nat /\ (changes' = c \/ changes' = c + 1) /\ changes' <= MaxChanges
    BY <1>1, <2>1, OneMore
  <2>3. g <= changes'
    BY <2>1, <2>2
  <2> QED BY <1>1, <2>1, <2>2, <2>3 DEF FactsTyped
<1>2. ASSUME NEW notes \in Seq({1, 2}), Change, shelf' = Shelved(notes), UNCHANGED <<look, pointer, hiding>>
      PROVE  FactsTyped'
  <2>1. PICK g, c \in Nat : g = shelf.generation /\ c = changes /\ g <= c
    BY DEF FactsTyped
  <2>2. shelf'.notes = notes /\ shelf'.generation = g + 1
    BY <1>2, <2>1 DEF Shelved
  <2>3. changes' = c + 1 /\ changes' <= MaxChanges
    BY <1>2, <2>1, OneMore
  <2>4. g + 1 <= c + 1 /\ g + 1 \in Nat /\ c + 1 \in Nat
    BY <2>1
  <2> QED BY <1>2, <2>2, <2>3, <2>4 DEF FactsTyped
<1>3. PICK s \in Seq({1, 2}) : s = shelf.notes
  BY DEF FactsTyped
<1>4. ASSUME NEW n \in {1, 2}, NoteAdded(n) PROVE FactsTyped'
  <2>1. Raised(s, n) \in Seq({1, 2})
    BY RaisedKeeps
  <2>2. Change /\ shelf' = Shelved(Raised(s, n)) /\ UNCHANGED <<look, pointer, hiding>>
    BY <1>3, <1>4 DEF NoteAdded
  <2> QED BY <1>2, <2>1, <2>2
<1>5. ASSUME NEW n \in {1, 2}, NoteGone(n) PROVE FactsTyped'
  <2>1. Without(s, {n}) \in Seq({1, 2})
    BY WithoutKeeps
  <2>2. Change /\ shelf' = Shelved(Without(s, {n})) /\ UNCHANGED <<look, pointer, hiding>>
    BY <1>3, <1>5 DEF NoteGone
  <2> QED BY <1>2, <2>1, <2>2
<1>6. ASSUME NEW l \in Look, AdoptWorld(l) PROVE FactsTyped'
  <2>1. Change /\ look' \in Look /\ UNCHANGED <<shelf, pointer, hiding>>
    BY <1>6 DEF AdoptWorld
  <2> QED BY <2>1, OneMore DEF FactsTyped
<1>7. ASSUME NEW p \in Shapes \cup {"hidden"}, PointerMoves(p) PROVE FactsTyped'
  <2>1. Change /\ pointer' \in Shapes \cup {"hidden"} /\ UNCHANGED <<shelf, look, hiding>>
    BY <1>7 DEF PointerMoves
  <2> QED BY <2>1, OneMore DEF FactsTyped
<1>8. ASSUME NEW h \in {"no", "lock", "dark"}, SceneHides(h) PROVE FactsTyped'
  <2>1. Change /\ hiding' \in {"no", "lock", "dark"} /\ UNCHANGED <<shelf, look, pointer>>
    BY <1>8 DEF SceneHides
  <2> QED BY <2>1, OneMore DEF FactsTyped
<1>9. ASSUME NEW w \in Win,
             \/ NewToplevel(w) \/ ToplevelDestroyed(w) \/ Click(w) \/ FocusDeed(w) \/ Commit(w)
             \/ \E t \in Title : SetTitle(w, t)
      PROVE  FactsTyped'
  <2>1. UNCHANGED <<look, shelf, pointer, hiding>> /\ (changes' = changes \/ Change)
    BY <1>9 DEF NewToplevel, ToplevelDestroyed, Click, FocusDeed, Commit, SetTitle, facts
  <2> QED BY <1>1, <2>1
<1>10. ASSUME \/ Minimise
              \/ \E i \in Line : StatusSaved(i) \/ CellSet(i)
              \/ ReadingsRead \/ MinutePasses \/ SecondTimer
              \/ \E p \in Pictures : WallpaperSaved(p)
              \/ \E presented \in BOOLEAN : RenderFrame(presented)
       PROVE  FactsTyped'
  <2>1. UNCHANGED <<look, shelf, pointer, hiding>> /\ (changes' = changes \/ Change)
    BY <1>10 DEF Minimise, StatusSaved, CellSet, ReadingsRead, MinutePasses, SecondTimer,
       WallpaperSaved, RenderFrame, facts
  <2> QED BY <1>1, <2>1
<1> QED BY <1>4, <1>5, <1>6, <1>7, <1>8, <1>9, <1>10, Zenon DEF SceneNext

LEMMA ChromeTypedStep == DeskTyped /\ ChromeTyped /\ SceneNext => ChromeTyped'
<1> SUFFICES ASSUME DeskTyped, ChromeTyped, SceneNext PROVE ChromeTyped'
  OBVIOUS
<1>1. cache' = cache \/ cache' = Kept
  BY EachNoteStep
<1>2. ASSUME NEW w \in Win PROVE Chrome[w].title \in Title \cup {"none"}
  <2>1. ChromeKey(w).title \in Title
    BY DEF ChromeKey, DeskTyped
  <2>2. NoTitlebar.title = "none"
    BY DEF NoTitlebar
  <2> QED BY <2>1, <2>2 DEF Chrome, ChromeTyped
<1>3. Kept.chrome = Chrome
  BY DEF Kept
<1> QED BY <1>1, <1>2, <1>3 DEF ChromeTyped

LEMMA SceneTypedStep == SceneInv /\ SceneTyped /\ [SceneNext]_sceneVars => SceneTyped'
<1> SUFFICES ASSUME SceneInv, SceneTyped, [SceneNext]_sceneVars PROVE SceneTyped'
  OBVIOUS
<1>1. CASE SceneNext
  BY <1>1, DeskTypedStep, FactsTypedStep, ChromeTypedStep DEF SceneInv, SceneTyped
<1>2. CASE UNCHANGED sceneVars
  BY <1>2 DEF sceneVars, desk, facts, SceneTyped, DeskTyped, FactsTyped, ChromeTyped
<1> QED BY <1>1, <1>2

LEMMA SceneTypeHolds == SceneInv /\ SceneTyped => SceneTypeOK
<1> SUFFICES ASSUME SceneInv, SceneTyped PROVE SceneTypeOK
  OBVIOUS
<1>1. Range(roster) \subseteq Win
  BY ListedOf DEF SceneInv
<1>2. Range(shelf.notes) \subseteq {1, 2}
  <2>1. PICK s \in Seq({1, 2}) : s = shelf.notes
    BY DEF SceneTyped, FactsTyped
  <2>2. Range(s) \subseteq {1, 2}
    BY DEF Range
  <2> QED BY <2>1, <2>2
<1>3. shelf.generation \in 0 .. MaxChanges /\ changes \in 0 .. MaxChanges
  <2>1. PICK g, c, m \in Nat : g = shelf.generation /\ c = changes /\ m = MaxChanges /\ g <= c /\ c <= m
    BY SceneAssumption DEF SceneTyped, FactsTyped, SceneAssumption
  <2>2. g \in 0..m /\ c \in 0..m
    BY <2>1
  <2> QED BY <2>1, <2>2
<1>4. wallpaper.file \in Pictures /\ wallpaper.pending \in Picture \cup {"none", "flat"}
  BY DEF SceneInv, GroundAsSeen
<1>5. owed \in BOOLEAN
  BY DEF SceneInv, ShownAsItStands
<1> QED BY <1>1, <1>2, <1>3, <1>4, <1>5 DEF SceneTyped, DeskTyped, FactsTyped, ChromeTyped, SceneTypeOK

-----------------------------------------------------------------------------
(* The five together.                                                      *)

\* What is proved of the five, and what it lacks of the types.
GlassInv ==
    /\ PixelsTyped /\ StaleInv /\ VerdictTyped /\ KasaneInv /\ LossesTyped
    /\ BlitInv /\ LayersOnce /\ SceneInv /\ SceneTyped

LEMMA GlassInvInit == GlassInit => GlassInv
<1> SUFFICES ASSUME GlassInit PROVE GlassInv
  OBVIOUS
<1>1. SceneInit /\ PixelsInit /\ BlitInit /\ KasaneInit /\ StaleInit
  BY DEF GlassInit
<1>2. VerdictTyped
  BY <1>1 DEF StaleInit, VerdictTyped
<1> QED BY <1>1, <1>2, PixelsTypedStart, StaleStarts, KasaneStarts, LossesStart, BlitInitHolds,
           LayersStart, ScenePartsAtFirst, SceneTypedStart DEF GlassInv

LEMMA GlassInvStep ==
    ASSUME DamageApart, GlassInv, [GlassNext]_glassVars
    PROVE  GlassInv'
<1>1. /\ [SceneNext]_sceneVars /\ [PixelsNext]_pixelVars /\ [BlitNext]_blitVars
      /\ [KasaneNext]_kasaneVars /\ [StaleNext]_staleVars
  <2>1. CASE UNCHANGED glassVars
    BY <2>1 DEF glassVars
  <2>2. CASE GlassNext
    BY <2>2 DEF GlassNext
  <2> QED BY <2>1, <2>2
<1>2. StaleInv' /\ VerdictTyped'
  BY <1>1, StaleSteps, VerdictStep DEF GlassInv
<1>3. KasaneInv' /\ LossesTyped'
  BY <1>1, KasaneSteps, LossesStep DEF GlassInv
<1>4. BlitInv' /\ LayersOnce'
  BY <1>1, BlitStepHolds, LayersStep DEF GlassInv
<1>5. SceneInv' /\ SceneTyped'
  BY <1>1, ScenePartsStay, SceneTypedStep DEF GlassInv
<1>6. PixelsTyped'
  BY <1>1, PixelsTypedStep DEF GlassInv
<1> QED BY <1>2, <1>3, <1>4, <1>5, <1>6 DEF GlassInv

\* Whichever of the five runs, every variable of it stays in its type, as long
\* as no job's damage names a pixel twice (smithay's tracker shapes it so before
\* a frame is drawn): then no pixel is painted over itself, what is dying or
\* stranded are parts of the renderer's things, and no list of the desk names
\* what is not a window of it.
THEOREM GlassAlwaysTyped == DamageApart => (GlassSpec => []GlassTypeOK)
<1>1. GlassInv => GlassTypeOK
  BY PixelsTypeHolds, StaleTypeHolds, KasaneTypeHolds, BlitTypeHolds, SceneTypeHolds
     DEF GlassInv, GlassTypeOK
<1>2. CASE DamageApart
  <2>1. GlassInv /\ [GlassNext]_glassVars => GlassInv'
    BY <1>2, GlassInvStep
  <2> QED BY <1>1, <2>1, GlassInvInit, PTL DEF GlassSpec
<1> QED BY <1>2
=============================================================================
