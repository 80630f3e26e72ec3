------------------------------- MODULE Capture -------------------------------
(***************************************************************************)
(* Pictures of the screen: the copies clients ask for                      *)
(* (crates/omoya/src/screencopy.rs), the screenshot deed, and the capture  *)
(* and the stale scan that another thread leaves as notes for the frame    *)
(* loop (introspect.rs).  The frame loop (drm.rs) answers all four in the  *)
(* middle of a frame, and a frame can end early at several places.         *)
(*                                                                         *)
(* The query thread and the frame loop share the slots of the introspection*)
(* and nothing else; each step below is what one of them does between two  *)
(* locks.  Clients, deeds, the lock and the panel act between frames: they *)
(* run on the loop's own thread.                                           *)
(***************************************************************************)
EXTENDS Integers, FiniteSets, Sequences

CONSTANTS
    Shot,           \* frame objects of the screencopy protocol
    Region,         \* the regions asked for: <<x, y, w, h>>
    OutputSize,     \* <<w, h>> of the output
    MaxAsked,       \* bound: captures and scans asked over the socket
    MaxFailures,    \* bound: frames that end early
    MaxScenes       \* bound: locks, darkenings, VT switches and refusals

ASSUME CaptureAssumption ==
    /\ Region \subseteq Int \X Int \X Int \X Int
    /\ OutputSize \in (Nat \ {0}) \X (Nat \ {0})
    /\ MaxAsked \in Nat /\ MaxFailures \in Nat /\ MaxScenes \in Nat

VARIABLES
    frameShot,      \* what each frame object is: new, announced, or the last answer it got
    announced,      \* the region each announced
    pendingShots,   \* ScreenShots::pending
    toFile,         \* ScreenShots::to_file
    gate,           \* what settle finds: present, away or refused
    scenes,         \* how often the scene changed
    shotPanel, shotHidden,      \* the panel; hides_desktop of the lock
    shotOwed,       \* the ledger: a frame is owed
    flipPending,
    frameAt,        \* where the frame loop is in a frame
    shotsDue,       \* shots_due, read where the damage age is chosen
    captureSlot,    \* capture_request: the id, or 0
    inFlight,       \* CaptureInFlight: the id, or 0
    captureResult,  \* capture_result: the id it is stamped with, or 0
    requestSeq,
    scanSlot, scanInFlight, scanResult, scanArmedAt, scanAsked,
    presentedFrames,
    queryAt,        \* where the query thread is
    failedFrames

clientVars == <<frameShot, announced, pendingShots, toFile>>
gateVars == <<gate, shotPanel, shotHidden, scenes>>
captureVars2 == <<captureSlot, inFlight, captureResult, requestSeq>>
scanVars == <<scanSlot, scanInFlight, scanResult, scanArmedAt, scanAsked>>
loopVars == <<shotOwed, flipPending, frameAt, shotsDue, presentedFrames, failedFrames>>
captureVars == <<clientVars, gateVars, captureVars2, scanVars, loopVars, queryAt>>

-----------------------------------------------------------------------------
(* Clients and deeds.                                                      *)

Between == frameAt = "idle"

\* Region::inside: the part of a region that lies on the output.
Pin(v, low, high) == IF v < low THEN low ELSE IF v > high THEN high ELSE v
Inside(r) ==
    LET x == Pin(r[1], 0, OutputSize[1])
        y == Pin(r[2], 0, OutputSize[2])
        right == Pin(r[1] + r[3], x, OutputSize[1])
        bottom == Pin(r[2] + r[4], y, OutputSize[2])
    IN  <<x, y, right - x, bottom - y>>

\* The whole output, or a region of it: a frame object that announces a buffer,
\* or fails at once.
CaptureOutput(s, r) ==
    /\ Between /\ frameShot[s] = "new"
    /\ announced' = [announced EXCEPT ![s] = r]
    /\ frameShot' = [frameShot EXCEPT ![s] =
            IF shotHidden \/ r[3] <= 0 \/ r[4] <= 0 THEN "failed" ELSE "announced"]
    /\ UNCHANGED <<pendingShots, toFile, queryAt>>
    /\ UNCHANGED <<gateVars, captureVars2, scanVars, loopVars>>

AskCopy(s) ==
    \/ CaptureOutput(s, <<0, 0, OutputSize[1], OutputSize[2]>>)
    \/ \E r \in Region : CaptureOutput(s, Inside(r))

\* copy and copy_with_damage: a buffer that is not what the frame announced is
\* a protocol error and the client is gone.  The object is not marked as used.
CopyShot(s, fits) ==
    /\ Between /\ frameShot[s] \in {"announced", "queued"}
    /\ Len(pendingShots) <= Cardinality(Shot)        \* bound: copies queued at once
    /\ LET queues == fits /\ ~shotHidden
       IN  /\ frameShot' = [frameShot EXCEPT ![s] =
                CASE queues -> "queued" [] ~fits -> "gone" [] OTHER -> "failed"]
           /\ pendingShots' = IF queues THEN Append(pendingShots, s) ELSE pendingShots
           /\ shotOwed' = (shotOwed \/ queues)
    /\ UNCHANGED <<announced, toFile, queryAt, flipPending, frameAt, shotsDue, presentedFrames,
                   failedFrames>>
    /\ UNCHANGED <<gateVars, captureVars2, scanVars>>

\* screenshot, the deed.
Screenshot ==
    /\ Between
    /\ toFile' = TRUE
    /\ shotOwed' = TRUE
    /\ UNCHANGED <<frameShot, announced, pendingShots, queryAt, flipPending, frameAt, shotsDue,
                   presentedFrames, failedFrames>>
    /\ UNCHANGED <<gateVars, captureVars2, scanVars>>

\* The lock engages or opens, the panel darkens or wakes, the seat goes to
\* another VT, the device is refused: what the tick finds.
SceneChanges ==
    /\ Between
    /\ scenes < MaxScenes
    /\ scenes' = scenes + 1
    /\ \/ shotHidden' = ~shotHidden /\ UNCHANGED <<shotPanel, gate>>
       \/ shotPanel' = "darkening" /\ shotPanel = "on" /\ UNCHANGED <<shotHidden, gate>>
       \/ gate' \in {"present", "away", "refused"} /\ gate' # gate
          /\ UNCHANGED <<shotHidden, shotPanel>>
    /\ shotOwed' = TRUE
    /\ UNCHANGED <<flipPending, frameAt, shotsDue, presentedFrames, failedFrames, queryAt>>
    /\ UNCHANGED <<clientVars, captureVars2, scanVars>>

-----------------------------------------------------------------------------
(* The tick of the frame loop.                                             *)

\* Mutant: a tick that cannot draw leaves the copies for one that can.
TickAwayWaits == FALSE

\* fail_pending_shots: the copies are told, the screenshot is dropped.
ShotsFail ==
    /\ frameShot' = [s \in Shot |->
            IF frameShot[s] = "queued" THEN "failed" ELSE frameShot[s]]
    /\ pendingShots' = <<>>
    /\ toFile' = FALSE
    /\ UNCHANGED announced

\* A tick that is away, or that finds the panel dark: nothing can be copied.
TickAway ==
    /\ Between /\ gate # "refused"
    /\ gate = "away" \/ shotPanel = "dark"
    /\ pendingShots # <<>> \/ toFile
    /\ ShotsFail
    /\ UNCHANGED queryAt
    /\ UNCHANGED <<gateVars, captureVars2, scanVars, loopVars>>

\* Input wakes the panel; a device that was refused is taken back, or the seat
\* returns to its VT.
SceneReturns ==
    /\ Between
    /\ \/ shotPanel # "on" /\ shotPanel' = "on" /\ UNCHANGED gate
       \/ gate # "present" /\ gate' = "present" /\ shotPanel' = "on"
    /\ shotOwed' = TRUE
    /\ UNCHANGED <<scenes, shotHidden, flipPending, frameAt, shotsDue, presentedFrames,
                   failedFrames, queryAt>>
    /\ UNCHANGED <<clientVars, captureVars2, scanVars>>

\* The pass opens, and the request for a capture is taken with the reason for
\* a full repaint.
TickBegins ==
    /\ Between /\ gate = "present" /\ shotPanel # "dark" /\ ~flipPending /\ shotOwed
    /\ frameAt' = "composing"
    /\ shotOwed' = FALSE
    /\ inFlight' = captureSlot
    /\ captureSlot' = 0
    /\ shotsDue' = (pendingShots # <<>> \/ toFile)
    /\ UNCHANGED <<captureResult, requestSeq, flipPending, presentedFrames, failedFrames, queryAt>>
    /\ UNCHANGED <<clientVars, gateVars, scanVars>>

\* The hook of the scan, once the frame is rendered.
TickHook ==
    /\ frameAt = "composing"
    /\ frameAt' = "hooked"
    /\ scanInFlight' = scanSlot
    /\ scanSlot' = FALSE
    /\ UNCHANGED <<scanResult, scanArmedAt, scanAsked, queryAt>>
    /\ UNCHANGED <<shotOwed, flipPending, shotsDue, presentedFrames, failedFrames>>
    /\ UNCHANGED <<clientVars, gateVars, captureVars2>>

TickScans ==
    /\ frameAt = "hooked"
    /\ frameAt' = "scanned"
    /\ scanResult' = (scanResult \/ scanInFlight)
    /\ scanInFlight' = FALSE
    /\ UNCHANGED <<scanSlot, scanArmedAt, scanAsked, queryAt>>
    /\ UNCHANGED <<shotOwed, flipPending, shotsDue, presentedFrames, failedFrames>>
    /\ UNCHANGED <<clientVars, gateVars, captureVars2>>

\* deliver_shots: a scene that is sealed or a panel that shows nothing fails
\* them all; else each copy is ready, or fails alone, and a thread of its own
\* saves the screenshot.
Deliver ==
    \/ ShotsFail
    \/ /\ ~shotHidden /\ shotPanel = "on"
       /\ \E spoilt \in SUBSET Shot :
            frameShot' = [s \in Shot |->
                CASE frameShot[s] # "queued" -> frameShot[s]
                  [] s \in spoilt -> "failed"
                  [] OTHER -> "ready"]
       /\ pendingShots' = <<>>
       /\ toFile' = FALSE
       /\ UNCHANGED announced

\* The answers of the frame: the copies, then the capture that was taken.
TickAnswers ==
    /\ frameAt = "scanned"
    /\ frameAt' = "answered"
    /\ IF shotsDue THEN Deliver ELSE UNCHANGED clientVars
    /\ captureResult' = IF inFlight # 0 THEN inFlight ELSE captureResult
    /\ inFlight' = 0
    /\ UNCHANGED <<captureSlot, requestSeq, queryAt>>
    /\ UNCHANGED <<shotOwed, flipPending, shotsDue, presentedFrames, failedFrames>>
    /\ UNCHANGED <<gateVars, scanVars>>

\* The frame is flipped, or nothing of it differs from the last.
TickEnds ==
    /\ frameAt = "answered"
    /\ frameAt' = "idle"
    /\ \/ presentedFrames' = presentedFrames + 1 /\ flipPending' = TRUE
          /\ presentedFrames < 1                        \* bound: flips
       \/ UNCHANGED <<presentedFrames, flipPending>>
    \* Darkening ends in the dark: at the flip's end, or at once without one.
    /\ shotPanel' = IF shotPanel = "darkening" THEN "dark" ELSE shotPanel
    /\ UNCHANGED <<gate, shotHidden, scenes, shotOwed, shotsDue, failedFrames, queryAt>>
    /\ UNCHANGED <<clientVars, captureVars2, scanVars>>

\* Mutants: the frame that failed spends the pass all the same; the answer of a
\* capture is left to the end of the frame.
SpentAnyway == FALSE
NobodyAnswers == captureResult

\* What spend does with a frame that returned an error, and what the drop of
\* CaptureInFlight says.
Reowed == TRUE
DropAnswers == IF inFlight # 0 THEN inFlight ELSE captureResult

\* One of the `?` of the frame: the buffer, the render, the scan's second
\* render, the flip.  The scan's note is gone with it.
FrameEndsEarly ==
    /\ ~Between
    /\ failedFrames < MaxFailures
    /\ failedFrames' = failedFrames + 1
    /\ frameAt' = "idle"
    /\ shotOwed' = (shotOwed \/ Reowed)
    /\ captureResult' = DropAnswers
    /\ inFlight' = 0
    /\ scanInFlight' = FALSE
    /\ UNCHANGED <<captureSlot, requestSeq, scanSlot, scanResult, scanArmedAt, scanAsked, queryAt>>
    /\ UNCHANGED <<flipPending, shotsDue, presentedFrames>>
    /\ UNCHANGED <<clientVars, gateVars>>

Vblank ==
    /\ flipPending /\ Between
    /\ flipPending' = FALSE
    /\ UNCHANGED <<shotOwed, frameAt, shotsDue, presentedFrames, failedFrames, queryAt>>
    /\ UNCHANGED <<clientVars, gateVars, captureVars2, scanVars>>

-----------------------------------------------------------------------------
(* The query thread: capture, and stale_scan.                              *)

QueryStep(from, to) ==
    /\ queryAt = from
    /\ queryAt' = to
    /\ UNCHANGED <<clientVars, gateVars>>
    /\ UNCHANGED <<flipPending, frameAt, shotsDue, presentedFrames, failedFrames>>

CaptureStored ==
    /\ QueryStep("idle", "stored")
    /\ requestSeq < MaxAsked /\ ~scanAsked           \* bound: captures, or one scan
    /\ requestSeq' = requestSeq + 1
    /\ captureSlot' = requestSeq + 1
    /\ UNCHANGED <<inFlight, captureResult, shotOwed>> /\ UNCHANGED scanVars

CaptureCleared ==
    /\ QueryStep("stored", "cleared")
    /\ captureResult' = 0
    /\ UNCHANGED <<captureSlot, inFlight, requestSeq, shotOwed>> /\ UNCHANGED scanVars

CaptureMarked ==
    /\ QueryStep("cleared", "idle")
    /\ shotOwed' = TRUE
    /\ UNCHANGED captureVars2 /\ UNCHANGED scanVars

ScanStored ==
    /\ QueryStep("idle", "scan stored")
    /\ requestSeq = 0 /\ ~scanAsked
    /\ scanSlot' = TRUE
    /\ scanAsked' = TRUE
    /\ UNCHANGED <<scanInFlight, scanResult, scanArmedAt, shotOwed>> /\ UNCHANGED captureVars2

ScanCleared ==
    /\ QueryStep("scan stored", "scan cleared")
    /\ scanResult' = FALSE
    /\ UNCHANGED <<scanSlot, scanInFlight, scanArmedAt, scanAsked, shotOwed>>
    /\ UNCHANGED captureVars2

ScanArmed ==
    /\ QueryStep("scan cleared", "idle")
    /\ scanArmedAt' = presentedFrames
    /\ UNCHANGED <<scanSlot, scanInFlight, scanResult, scanAsked, shotOwed>>
    /\ UNCHANGED captureVars2

\* What stale_result answers.
ScanAnswer ==
    CASE scanResult -> "verdict"
      [] ~scanResult /\ ~scanSlot -> "no scan has been requested"
      [] ~scanResult /\ scanSlot /\ presentedFrames = scanArmedAt -> "idle seat"
      [] OTHER -> "defect in the scan"

-----------------------------------------------------------------------------
CaptureInit ==
    /\ frameShot = [s \in Shot |-> "new"]
    /\ announced = [s \in Shot |-> <<0, 0, 0, 0>>]
    /\ pendingShots = <<>> /\ toFile = FALSE
    /\ gate = "present" /\ shotPanel = "on" /\ shotHidden = FALSE /\ scenes = 0
    /\ shotOwed = TRUE /\ flipPending = FALSE /\ frameAt = "idle" /\ shotsDue = FALSE
    /\ captureSlot = 0 /\ inFlight = 0 /\ captureResult = 0 /\ requestSeq = 0
    /\ scanSlot = FALSE /\ scanInFlight = FALSE /\ scanResult = FALSE
    /\ scanArmedAt = 0 /\ scanAsked = FALSE
    /\ presentedFrames = 0 /\ failedFrames = 0
    /\ queryAt = "idle"

FrameLoop == TickAway \/ TickBegins \/ TickHook \/ TickScans \/ TickAnswers \/ TickEnds

CaptureNext ==
    \/ \E s \in Shot : AskCopy(s) \/ \E fits \in BOOLEAN : CopyShot(s, fits)
    \/ Screenshot \/ SceneChanges \/ SceneReturns
    \/ FrameLoop \/ FrameEndsEarly \/ Vblank
    \/ CaptureStored \/ CaptureCleared \/ CaptureMarked
    \/ ScanStored \/ ScanCleared \/ ScanArmed

\* The tick's timer and the display's vblank; the retry of settle, which the
\* device grants in the end.
CaptureFairness ==
    /\ WF_captureVars(FrameLoop)
    /\ WF_captureVars(Vblank)
    /\ WF_captureVars(gate = "refused" /\ SceneReturns)

CaptureSpec == CaptureInit /\ [][CaptureNext]_captureVars /\ CaptureFairness

-----------------------------------------------------------------------------
CaptureTypeOK ==
    /\ frameShot \in [Shot -> {"new", "announced", "queued", "ready", "failed", "gone"}]
    /\ \A s \in Shot : announced[s] = Inside(announced[s])
    /\ \A i \in DOMAIN pendingShots : pendingShots[i] \in Shot
    /\ captureSlot \in 0 .. MaxAsked /\ inFlight \in 0 .. MaxAsked
    /\ captureResult \in 0 .. requestSeq
    /\ frameAt \in {"idle", "composing", "hooked", "scanned", "answered"}

\* A picture that is waited for has a frame coming: the ledger owes one, or the
\* frame that counted it is being drawn (Owed::Capture in owed.rs: "without
\* this the capture would wait for someone to move the mouse").
AwaitedIsOwed ==
    /\ pendingShots # <<>> \/ toFile =>
            shotOwed \/ (shotsDue /\ frameAt \in {"composing", "hooked", "scanned"})
    /\ captureSlot # 0 /\ queryAt = "idle" => shotOwed

\* A capture that was taken is answered by whatever ends its frame
\* (CaptureInFlight: "Every exit from the frame publishes something").
TakenIsAnswered ==
    [][inFlight # 0 /\ inFlight' = 0 => captureResult' = inFlight]_captureVars

\* The copies that wait are answered, with the picture or with failed.
CopiesAreAnswered == pendingShots # <<>> ~> pendingShots = <<>>

\* "the request vanished stops being constructible" (introspect.rs,
\* CaptureInFlight): the last capture that was asked is in the slot, in a frame,
\* or answered.
NoRequestVanishes ==
    queryAt = "idle" /\ requestSeq > 0 =>
        requestSeq \in {captureSlot, inFlight, captureResult}

\* stale_result says which waiting it is: it never denies a scan that was asked
\* for, and never blames the scan for a frame that passed the hook before it.
ScanAnswerIsTrue ==
    queryAt = "idle" /\ scanAsked =>
        ScanAnswer \notin {"no scan has been requested", "defect in the scan"}

\* A picture that is waited for has a frame coming, and whatever ends that frame
\* answers it.
PicturesAreOwed == []AwaitedIsOwed /\ TakenIsAnswered

\* Every picture that was asked is answered in the end: a copy, a screenshot and a
\* capture, each by the frame that takes it or by what ends that frame.
PicturesAreAnswered == PicturesAreOwed /\ CopiesAreAnswered
=============================================================================
