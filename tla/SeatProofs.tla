----------------------------- MODULE SeatProofs -----------------------------
(***************************************************************************)
(* Proofs about Seat, for any set of lock ids and any configuration.       *)
(*                                                                         *)
(* First the seat moves the lock as the machine allows, so the invariants  *)
(* of SessionLockProofs hold of it; then its types and its sleep delay;    *)
(* then, for a display that reports its flips in time and refuses no two   *)
(* in a row, what is on the glass.                                         *)
(***************************************************************************)
EXTENDS Seat, SessionLockProofs

\* Every step of the seat is one step of the session lock, or none.
LEMMA SeatStepIsLockStep == [SeatNext]_seatVars => [LockNext]_lockVars
<1> SUFFICES ASSUME [SeatNext]_seatVars PROVE [LockNext]_lockVars
  OBVIOUS
<1>1. ASSUME Retire \/ RetryDue \/ Leave \/ ComeBack \/ Blank \/ Input \/ ClientCommits
      PROVE  UNCHANGED lockVars
  BY <1>1 DEF Retire, RetryDue, Leave, ComeBack, Blank, Input, ClientCommits
<1>2. ASSUME VBlank PROVE LockNext
  BY <1>2 DEF VBlank, LockFrameIsOnGlass, LockNext
<1>3. ASSUME Tick PROVE [LockNext]_lockVars
  <2>1. ASSUME TickAway \/ TickDark PROVE LockNext
    BY <2>1 DEF TickAway, TickDark, LockSceneOnGlass, LockNext
  <2>2. ASSUME TickSkips \/ TickRefused \/ FrameFails PROVE UNCHANGED lockVars
    BY <2>2 DEF TickSkips, TickRefused, FrameFails, FrameStaysOwed
  <2>3. ASSUME FrameUnchanged PROVE [LockNext]_lockVars
    BY <2>3 DEF FrameUnchanged, LockSceneOnGlass, LockNext
  <2>4. ASSUME NEW damage \in BOOLEAN, FlipAccepted(damage) PROVE LockNext
    BY <2>4 DEF FlipAccepted, LockFrameIsInFlight, LockNext
  <2>5. ASSUME NEW damage \in BOOLEAN, FlipRefused(damage) PROVE UNCHANGED lockVars
    BY <2>5 DEF FlipRefused, FrameStaysOwed
  <2> QED BY <1>3, <2>1, <2>2, <2>3, <2>4, <2>5 DEF Tick, TickWorks, TickFails
<1>4. ASSUME NEW id \in LockId, ClientLocks(id) \/ ClientUnlocks(id) \/ ClientLoses(id)
      PROVE  LockNext
  BY <1>4 DEF ClientLocks, ClientUnlocks, ClientLoses, LockNext
<1>5. ASSUME SeatLocks \/ SleepStarts PROVE [LockNext]_lockVars
  BY <1>5 DEF SeatLocks, SleepStarts, SleepLocks, SleepJustReleases, LockSession, LockNext
<1>6. ASSUME SleepEnded PROVE UNCHANGED lockVars
  BY <1>6 DEF SleepEnded
<1>7. ASSUME UNCHANGED seatVars PROVE UNCHANGED lockVars
  BY <1>7 DEF seatVars
<1> QED BY <1>1, <1>2, <1>3, <1>4, <1>5, <1>6, <1>7 DEF SeatNext, Clients

\* The seat implements the session lock: whatever its frames, its panel, its
\* VT and its sleeps do, the lock is used as its machine allows.
THEOREM SeatImplementsSessionLock == SeatSafety => ImplementsSessionLock
<1>1. SeatInit => LockInit
  BY DEF SeatInit
<1> QED BY <1>1, SeatStepIsLockStep, PTL DEF SeatSafety, ImplementsSessionLock, LockSpec

\* So the lock's invariant holds of the seat.
THEOREM SeatLockInvariant == SeatSafety => []LockInv
BY SeatImplementsSessionLock, LockInvariant, PTL DEF ImplementsSessionLock

-----------------------------------------------------------------------------
(* Types.                                                                  *)

\* The initial state is well typed.
LEMMA SeatTypeInit == SeatInit => SeatTypeOK
<1> SUFFICES ASSUME SeatInit PROVE SeatTypeOK
  OBVIOUS
<1> USE DEF SeatInit
<1>1. LockTypeOK
  BY DEF LockInit, LockTypeOK
<1>2. PresenceTypeOK /\ PanelTypeOK
  BY DEF PresenceTypeOK, PanelTypeOK
<1>3. 0 \in 0..MaxRefusals
  BY SeatAssumption
<1>4. FrameTypeOK
  <2>1. 2 \in 0..2 /\ refusals = 0
    OBVIOUS
  <2> QED BY <1>3, <2>1 DEF FrameTypeOK
<1>5. GlassTypeOK /\ SleepTypeOK
  BY DEF GlassTypeOK, SleepTypeOK
<1> QED BY <1>1, <1>2, <1>4, <1>5 DEF SeatTypeOK

\* The lists of unchanged variables, by group.
LEMMA PresenceKept == PresenceTypeOK /\ UNCHANGED presenceVars => PresenceTypeOK'
BY DEF PresenceTypeOK, presenceVars

LEMMA PanelKept == PanelTypeOK /\ UNCHANGED panelVars => PanelTypeOK'
BY DEF PanelTypeOK, panelVars

LEMMA FrameKept == FrameTypeOK /\ owed' \in BOOLEAN /\ UNCHANGED frameVars => FrameTypeOK'
BY DEF FrameTypeOK, frameVars

LEMMA GlassKept == GlassTypeOK /\ UNCHANGED glassVars => GlassTypeOK'
BY DEF GlassTypeOK, glassVars

LEMMA SleepKept == SleepTypeOK /\ UNCHANGED sleepVars => SleepTypeOK'
BY DEF SleepTypeOK, sleepVars

\* The parts of the handlers keep the types of what they write.
LEMMA FinishSleepWaitTypes == ASSUME NEW p, SleepTypeOK, FinishSleepWait(p) PROVE SleepTypeOK'
BY DEF FinishSleepWait, SleepTypeOK

LEMMA NoteInputTypes == PanelTypeOK /\ NoteInput => PanelTypeOK'
<1> SUFFICES ASSUME PanelTypeOK, NoteInput PROVE PanelTypeOK'
  OBVIOUS
<1>1. CASE panel = "on"
  BY <1>1, PanelKept DEF NoteInput
<1>2. CASE panel # "on"
  BY <1>2 DEF NoteInput, PanelTypeOK
<1> QED BY <1>1, <1>2

LEMMA GlassResetTypes == GlassTypeOK /\ GlassReset => GlassTypeOK'
<1> SUFFICES ASSUME GlassTypeOK, GlassReset PROVE GlassTypeOK'
  OBVIOUS
<1>1. CASE returning
  BY <1>1 DEF GlassReset, GlassTypeOK
<1>2. CASE ~returning
  BY <1>2, GlassKept DEF GlassReset
<1> QED BY <1>1, <1>2

LEMMA PresentTypes ==
    PresenceTypeOK /\ PanelTypeOK /\ Present =>
        PresenceTypeOK' /\ panel' \in {"on", "darkening", "dark"} /\ wakeDue' \in BOOLEAN
BY DEF Present, PresenceTypeOK, PanelTypeOK, SettledPanel

LEMMA TickSceneType == TickScene \in Scene
BY DEF TickScene, Scene

\* A tick keeps the types.
LEMMA TickTypes == ASSUME SeatTypeOK, LockTypeOK', Tick PROVE SeatTypeOK'
<1> USE DEF SeatTypeOK
<1>1. ASSUME TickAway PROVE SeatTypeOK'
  <2>1. FrameTypeOK'
    BY <1>1 DEF TickAway, FrameTypeOK
  <2> QED BY <1>1, <2>1, PresenceKept, PanelKept, GlassKept, FinishSleepWaitTypes
          DEF TickAway, LockSceneOnGlass
<1>2. ASSUME TickDark PROVE SeatTypeOK'
  <2>1. PanelTypeOK'
    BY <1>2, PresentTypes DEF TickDark, PanelTypeOK
  <2>2. FrameTypeOK'
    BY <1>2, FrameKept DEF TickDark, FrameTypeOK
  <2> QED BY <1>2, <2>1, <2>2, PresentTypes, GlassKept, FinishSleepWaitTypes
          DEF TickDark, LockSceneOnGlass
<1>3. ASSUME TickSkips PROVE SeatTypeOK'
  <2>1. PanelTypeOK'
    BY <1>3, PresentTypes DEF TickSkips, PanelTypeOK
  <2>2. FrameTypeOK'
    BY <1>3, FrameKept DEF TickSkips
  <2> QED BY <1>3, <2>1, <2>2, PresentTypes, GlassKept, SleepKept DEF TickSkips
<1>4. ASSUME TickRefused PROVE SeatTypeOK'
  <2>1. FrameTypeOK'
    BY <1>4 DEF TickRefused, FrameTypeOK
  <2> QED BY <1>4, <2>1, PresenceKept, PanelKept, GlassKept, SleepKept DEF TickRefused
<1>5. ASSUME FrameUnchanged PROVE SeatTypeOK'
  <2>1. PanelTypeOK'
    BY <1>5, PresentTypes DEF FrameUnchanged, PanelTypeOK
  <2>2. FrameTypeOK'
    BY <1>5, FrameKept DEF FrameUnchanged
  <2>3. SleepTypeOK'
    <3>1. CASE held
      BY <1>5, <3>1, FinishSleepWaitTypes DEF FrameUnchanged, LockSceneOnGlass
    <3>2. CASE ~held
      BY <1>5, <3>2, SleepKept DEF FrameUnchanged
    <3> QED BY <3>1, <3>2
  <2> QED BY <1>5, <2>1, <2>2, <2>3, PresentTypes, GlassKept DEF FrameUnchanged
<1>6. ASSUME FrameStaysOwed, composed' \in Scene \cup {"none"}, dirtied' \in BOOLEAN,
             refusals' \in 0..MaxRefusals
      PROVE  SeatTypeOK'
  <2>1. PanelTypeOK'
    BY <1>6, PresentTypes DEF FrameStaysOwed, PanelTypeOK
  <2>2. fresh' \in 0..2
    BY <1>6 DEF FrameStaysOwed, SettledFresh, FrameTypeOK
  <2>3. FrameTypeOK'
    BY <1>6, <2>2 DEF FrameStaysOwed, FrameTypeOK
  <2> QED BY <1>6, <2>1, <2>3, PresentTypes, GlassResetTypes, SleepKept DEF FrameStaysOwed
<1>7. ASSUME FrameFails PROVE SeatTypeOK'
  BY <1>6, <1>7 DEF FrameFails, FrameTypeOK
<1>8. ASSUME NEW damage \in BOOLEAN, FlipRefused(damage) PROVE SeatTypeOK'
  <2>1. refusals' \in 0..MaxRefusals
    BY <1>8, SeatAssumption DEF FlipRefused, FrameTypeOK
  <2> QED BY <1>6, <1>8, <2>1, TickSceneType DEF FlipRefused, FrameDrawn
<1>9. ASSUME NEW damage \in BOOLEAN, FlipAccepted(damage) PROVE SeatTypeOK'
  <2>1. PanelTypeOK'
    BY <1>9, PresentTypes DEF FlipAccepted, PanelTypeOK
  <2>2. fresh' \in 0..2
    BY <1>9 DEF FlipAccepted, SettledFresh, FrameTypeOK
  <2>3. composed' \in Scene \cup {"none"} /\ dirtied' \in BOOLEAN /\ 0 \in 0..MaxRefusals
    BY <1>9, TickSceneType, SeatAssumption DEF FlipAccepted, FrameDrawn
  <2>4. FrameTypeOK'
    BY <1>9, <2>2, <2>3 DEF FlipAccepted, FrameTypeOK
  <2>5. GlassTypeOK'
    BY <1>9, TickSceneType DEF FlipAccepted, GlassTypeOK
  <2> QED BY <1>9, <2>1, <2>4, <2>5, PresentTypes, SleepKept DEF FlipAccepted
<1> QED BY <1>1, <1>2, <1>3, <1>4, <1>5, <1>7, <1>8, <1>9 DEF Tick, TickWorks, TickFails

\* Every step keeps the types.
LEMMA SeatTypeNext == SeatTypeOK /\ LockTypeOK' /\ [SeatNext]_seatVars => SeatTypeOK'
<1> SUFFICES ASSUME SeatTypeOK, LockTypeOK', [SeatNext]_seatVars PROVE SeatTypeOK'
  OBVIOUS
<1> USE PresenceKept, PanelKept, FrameKept, GlassKept, SleepKept DEF SeatTypeOK
<1>0. owed \in BOOLEAN
  BY DEF FrameTypeOK
<1>1. ASSUME Retire PROVE SeatTypeOK'
  <2>1. GlassTypeOK'
    BY <1>1 DEF Retire, GlassTypeOK
  <2> QED BY <1>0, <1>1, <2>1 DEF Retire
<1>2. ASSUME VBlank PROVE SeatTypeOK'
  <2>1. PresenceTypeOK' /\ PanelTypeOK'
    BY <1>2 DEF VBlank, PanelTypeOK
  <2>2. FrameTypeOK' /\ GlassTypeOK'
    BY <1>2 DEF VBlank, FrameTypeOK, GlassTypeOK
  <2> QED BY <1>2, <2>1, <2>2, FinishSleepWaitTypes DEF VBlank, LockFrameIsOnGlass
<1>3. ASSUME RetryDue PROVE SeatTypeOK'
  <2>1. FrameTypeOK'
    BY <1>3 DEF RetryDue, FrameTypeOK
  <2> QED BY <1>3, <2>1 DEF RetryDue
<1>4. ASSUME Leave PROVE SeatTypeOK'
  <2>1. PresenceTypeOK' /\ GlassTypeOK'
    BY <1>4 DEF Leave, PresenceTypeOK, GlassTypeOK
  <2> QED BY <1>0, <1>4, <2>1 DEF Leave
<1>5. ASSUME ComeBack PROVE SeatTypeOK'
  <2>1. PresenceTypeOK'
    BY <1>5 DEF ComeBack, PresenceTypeOK
  <2> QED BY <1>0, <1>5, <2>1 DEF ComeBack
<1>6. ASSUME Blank PROVE SeatTypeOK'
  <2>1. PanelTypeOK'
    BY <1>6 DEF Blank, PanelTypeOK
  <2> QED BY <1>6, <2>1 DEF Blank
<1>7. ASSUME Input PROVE SeatTypeOK'
  BY <1>0, <1>7, NoteInputTypes DEF Input
<1>8. ASSUME ClientCommits PROVE SeatTypeOK'
  BY <1>8 DEF ClientCommits
<1>9. ASSUME NEW id \in LockId, ClientLocks(id) \/ ClientUnlocks(id) \/ ClientLoses(id)
      PROVE  SeatTypeOK'
  <2>1. owed' \in BOOLEAN
    BY <1>0, <1>9 DEF ClientLocks, ClientUnlocks, ClientLoses
  <2> QED BY <1>9, <2>1 DEF ClientLocks, ClientUnlocks, ClientLoses
<1>10. ASSUME SeatLocks PROVE SeatTypeOK'
  BY <1>10 DEF SeatLocks
<1>11. ASSUME SleepStarts PROVE SeatTypeOK'
  <2>1. owed' \in BOOLEAN
    BY <1>0, <1>11 DEF SleepStarts, SleepLocks, SleepJustReleases
  <2>2. SleepTypeOK'
    BY <1>11 DEF SleepStarts, SleepLocks, SleepJustReleases, SleepTypeOK
  <2> QED BY <1>11, <2>1, <2>2 DEF SleepStarts
<1>12. ASSUME SleepEnded PROVE SeatTypeOK'
  <2>1. PresenceTypeOK' /\ SleepTypeOK'
    BY <1>12 DEF SleepEnded, SleepIsOver, PresenceTypeOK, SleepTypeOK
  <2> QED BY <1>12, <2>1, NoteInputTypes DEF SleepEnded
<1>13. ASSUME UNCHANGED seatVars PROVE SeatTypeOK'
  BY <1>0, <1>13 DEF seatVars
<1>14. ASSUME Tick PROVE SeatTypeOK'
  BY <1>14, TickTypes
<1> QED BY <1>1, <1>2, <1>3, <1>4, <1>5, <1>6, <1>7, <1>8, <1>9, <1>10, <1>11, <1>12, <1>13,
           <1>14 DEF SeatNext, Clients

\* The seat's state is well typed.
THEOREM SeatTypeCorrect == SeatSafety => []SeatTypeOK
<1>1. LockInv => LockTypeOK
  BY DEF LockInv
<1> QED BY <1>1, SeatTypeInit, SeatTypeNext, SeatLockInvariant, PTL DEF SeatSafety

-----------------------------------------------------------------------------
(* The sleep delay.                                                        *)

\* A seat that is not asked to sleep holds the inhibitor: what makes
\* SleepWaitIsOwed inductive.
SleepInv == SleepWaitIsOwed /\ (~sleeping => inhibit)

\* A machine that learns of the glass, and a sleep that is told, keep it.
LEMMA CoverSleeps ==
    ASSUME SleepInv, LockTypeOK, NEW p, FinishSleepWait(p), CoverGlass \/ UNCHANGED seal
    PROVE  SleepInv'
<1>1. held => held'
  <2>1. CASE CoverGlass
    BY <2>1 DEF CoverGlass, Seal
  <2>2. CASE UNCHANGED seal
    BY <2>2 DEF seal
  <2> QED BY <2>1, <2>2
<1>2. sleepWait' => sleepWait /\ ~onGlass' /\ inhibit'
  BY DEF FinishSleepWait, SleepInv, SleepWaitIsOwed
<1>3. ~sleepWait /\ inhibit => inhibit'
  BY DEF FinishSleepWait
<1> QED BY <1>1, <1>2, <1>3 DEF FinishSleepWait, SleepInv, SleepWaitIsOwed

\* A lock step keeps it: the seal opens only once the lock is on the glass.
LEMMA LockSleeps ==
    ASSUME SleepInv, LockInv, UNCHANGED sleepVars, NEW id \in LockId,
           Lock(id) \/ UnlockOpens(id) \/ UnlockRefused(id) \/ LoseObject(id)
    PROVE  SleepInv'
<1> USE DEF SleepInv, SleepWaitIsOwed, sleepVars
<1>1. CASE GrantOpen(id)
  BY <1>1 DEF GrantOpen
<1>2. CASE GrantTakeover(id)
  BY <1>2 DEF GrantTakeover, Seal
<1>3. CASE FinishLock(id)
  BY <1>3 DEF FinishLock, seal
<1>4. CASE UnlockOpens(id)
  BY <1>4 DEF UnlockOpens, MayUnlock, LockInv, HolderKnowsTheGlass
<1>5. CASE Vacate(id)
  <2>1. CASE IsHolder(id)
    BY <1>5, <2>1 DEF Vacate, Seal
  <2>2. CASE ~IsHolder(id)
    BY <1>5, <2>2 DEF Vacate, seal
  <2> QED BY <2>1, <2>2
<1> QED BY <1>1, <1>2, <1>3, <1>4, <1>5 DEF Lock, UnlockRefused, LoseObject

\* Every step of the seat keeps it.
LEMMA SleepNext == SleepInv /\ LockInv /\ [SeatNext]_seatVars => SleepInv'
<1> SUFFICES ASSUME SleepInv, LockInv, [SeatNext]_seatVars PROVE SleepInv'
  OBVIOUS
<1>0. LockTypeOK
  BY DEF LockInv
<1>1. ASSUME UNCHANGED lockVars, UNCHANGED sleepVars PROVE SleepInv'
  BY <1>1 DEF lockVars, sleepVars, SleepInv, SleepWaitIsOwed
<1>2. ASSUME Retire \/ RetryDue \/ Leave \/ ComeBack \/ Blank \/ Input \/ ClientCommits
      PROVE  SleepInv'
  BY <1>1, <1>2 DEF Retire, RetryDue, Leave, ComeBack, Blank, Input, ClientCommits
<1>3. ASSUME VBlank PROVE SleepInv'
  <2>1. CASE flipInFlight
    BY <1>0, <1>3, <2>1, CoverSleeps DEF VBlank, LockFrameIsOnGlass, FrameRetired
  <2>2. CASE ~flipInFlight
    BY <1>0, <1>3, <2>2, CoverSleeps DEF VBlank, LockFrameIsOnGlass, FrameRetired, lockVars, seal
  <2> QED BY <2>1, <2>2
<1>4. ASSUME NEW p, LockSceneOnGlass(p) PROVE SleepInv'
  BY <1>0, <1>4, CoverSleeps DEF LockSceneOnGlass, OnGlassNow
<1>5. ASSUME TickAway \/ TickDark PROVE SleepInv'
  BY <1>4, <1>5 DEF TickAway, TickDark
<1>6. ASSUME TickSkips \/ TickFails PROVE SleepInv'
  BY <1>1, <1>6 DEF TickSkips, TickFails, TickRefused, FrameFails, FlipRefused, FrameStaysOwed
<1>7. ASSUME FrameUnchanged PROVE SleepInv'
  <2>1. CASE held
    BY <1>4, <1>7, <2>1 DEF FrameUnchanged
  <2>2. CASE ~held
    BY <1>1, <1>7, <2>2 DEF FrameUnchanged
  <2> QED BY <2>1, <2>2
<1>8. ASSUME NEW damage \in BOOLEAN, FlipAccepted(damage) PROVE SleepInv'
  BY <1>8 DEF FlipAccepted, LockFrameIsInFlight, FrameFlipped, seal, sleepVars, SleepInv,
              SleepWaitIsOwed
<1>9. ASSUME NEW id \in LockId, ClientLocks(id) \/ ClientUnlocks(id) \/ ClientLoses(id)
      PROVE  SleepInv'
  BY <1>9, LockSleeps DEF ClientLocks, ClientUnlocks, ClientLoses
<1>10. ASSUME SeatLocks PROVE SleepInv'
  BY <1>10 DEF SeatLocks, sleepVars, SleepInv, SleepWaitIsOwed
<1>11. ASSUME SleepStarts PROVE SleepInv'
  <2>1. CASE SleepLocks
    <3>1. held'
      BY <2>1 DEF SleepLocks, LockSession, CompositorLock, Seal, lockVars
    <3> QED BY <1>11, <2>1, <3>1 DEF SleepStarts, SleepLocks, SleepInv, SleepWaitIsOwed
  <2>2. CASE SleepJustReleases
    BY <1>11, <2>2 DEF SleepStarts, SleepJustReleases, lockVars, SleepInv, SleepWaitIsOwed
  <2> QED BY <1>11, <2>1, <2>2 DEF SleepStarts
<1>12. ASSUME SleepEnded PROVE SleepInv'
  BY <1>12 DEF SleepEnded, SleepIsOver, SleepInv, SleepWaitIsOwed
<1>13. ASSUME UNCHANGED seatVars PROVE SleepInv'
  BY <1>1, <1>13 DEF seatVars
<1> QED BY <1>2, <1>3, <1>5, <1>6, <1>7, <1>8, <1>9, <1>10, <1>11, <1>12, <1>13
        DEF SeatNext, Tick, TickWorks, Clients

\* A sleep that waits is a sleep logind asked for, held up by an inhibitor that
\* is really held, for a lock that is really coming.
THEOREM SleepWaitsForALock == SeatSafety => []SleepWaitIsOwed
<1>1. SeatInit => SleepInv
  BY DEF SeatInit, SleepInv, SleepWaitIsOwed
<1>2. SleepInv => SleepWaitIsOwed
  BY DEF SleepInv
<1> QED BY <1>1, <1>2, SleepNext, SeatLockInvariant, PTL DEF SeatSafety

-----------------------------------------------------------------------------
(* What is on the glass, for any set of lock ids and any configuration, on *)
(* a gentle display: one that reports each flip before the seat comes back *)
(* to it and refuses no two flips in a row.  Neither half can be dropped:  *)
(* README.md tells the two behaviours, under the disagreements.            *)
(*                                                                         *)
(* LoopKnowsTheGlass is the inductive invariant.  LockedMeansCovered needs *)
(* to know of a flip in flight that no desktop follows it; of a frame that *)
(* was not drawn, that the glass holds it already; and of a panel about to *)
(* go dark, that the frame it waited for was black.                        *)

GentleDisplay == PromptVBlank /\ MaxRefusals \in {0, 1}

\* Lock clients and the compositor's lock cover no glass and start no flip.
LEMMA LockCoversNothing ==
    ASSUME LockInv, UNCHANGED lockVars \/ CompositorLock
                    \/ \E id \in LockId : Lock(id) \/ UnlockOpens(id) \/ UnlockRefused(id)
                                          \/ LoseObject(id)
    PROVE  (onGlass' => onGlass) /\ (flipInFlight' => flipInFlight)
<1>1. CASE UNCHANGED lockVars
  BY <1>1 DEF lockVars
<1>2. CASE CompositorLock
  BY <1>2 DEF CompositorLock, Seal
<1>3. ASSUME NEW id \in LockId, Lock(id)
      PROVE  (onGlass' => onGlass) /\ (flipInFlight' => flipInFlight)
  BY <1>3 DEF Lock, GrantOpen, GrantTakeover, FinishLock, Seal, seal
<1>4. ASSUME NEW id \in LockId, UnlockOpens(id)
      PROVE  (onGlass' => onGlass) /\ (flipInFlight' => flipInFlight)
  BY <1>4 DEF UnlockOpens, Unseal
<1>5. ASSUME NEW id \in LockId, UnlockRefused(id) \/ LoseObject(id)
      PROVE  (onGlass' => onGlass) /\ (flipInFlight' => flipInFlight)
  <2>1. CASE IsHolder(id)
    BY <1>5, <2>1 DEF UnlockRefused, LoseObject, Vacate, Seal
  <2>2. CASE ~IsHolder(id)
    BY <1>5, <2>2 DEF UnlockRefused, LoseObject, Vacate, seal
  <2> QED BY <2>1, <2>2
<1> QED BY <1>1, <1>2, <1>3, <1>4, <1>5

\* A step that leaves the display and the loop alone keeps the invariant.
LEMMA GlassKeeps ==
    ASSUME LoopKnowsTheGlass, onGlass' => onGlass, flipInFlight' => flipInFlight,
           UNCHANGED <<presenceVars, panelVars, glassVars, flipPending, fresh, composed, dirtied,
                       refusals>>
    PROVE  LoopKnowsTheGlass'
<1> USE DEF presenceVars, panelVars, glassVars, LoopKnowsTheGlass
<1>1. PresenceInv' /\ FlipInv'
  BY DEF PresenceInv, FlipInv
<1>2. PanelInv'
  BY DEF PanelInv, Covered
<1>3. TrackerInv' /\ CoverInFlight'
  BY DEF TrackerInv, CoverInFlight
<1> QED BY <1>1, <1>2, <1>3

\* So do the handlers of clients, locks and sleep requests.
LEMMA ClientsKeepGlass ==
    ASSUME LoopKnowsTheGlass, LockInv, Clients \/ SeatLocks \/ SleepStarts \/ RetryDue
                                       \/ TickRefused \/ UNCHANGED seatVars
    PROVE  LoopKnowsTheGlass'
<1>1. ASSUME NEW id \in LockId, ClientLocks(id) \/ ClientUnlocks(id) \/ ClientLoses(id)
      PROVE  LoopKnowsTheGlass'
  <2>1. (onGlass' => onGlass) /\ (flipInFlight' => flipInFlight)
    BY <1>1, LockCoversNothing DEF ClientLocks, ClientUnlocks, ClientLoses
  <2> QED BY <1>1, <2>1, GlassKeeps DEF ClientLocks, ClientUnlocks, ClientLoses, frameVars
<1>2. ASSUME ClientCommits \/ RetryDue \/ TickRefused \/ UNCHANGED seatVars
      PROVE  LoopKnowsTheGlass'
  <2>1. (onGlass' => onGlass) /\ (flipInFlight' => flipInFlight)
    BY <1>2 DEF ClientCommits, RetryDue, TickRefused, seatVars, lockVars
  <2> QED BY <1>2, <2>1, GlassKeeps DEF ClientCommits, RetryDue, TickRefused, seatVars, frameVars
<1>3. ASSUME SeatLocks \/ SleepStarts PROVE LoopKnowsTheGlass'
  <2>1. UNCHANGED lockVars \/ CompositorLock
    BY <1>3 DEF SeatLocks, SleepStarts, SleepLocks, SleepJustReleases, LockSession
  <2>2. (onGlass' => onGlass) /\ (flipInFlight' => flipInFlight)
    BY <2>1, LockCoversNothing
  <2> QED BY <1>3, <2>2, GlassKeeps DEF SeatLocks, SleepStarts, frameVars
<1> QED BY <1>1, <1>2, <1>3 DEF Clients

\* Retire: the glass takes what was queued.
LEMMA RetireGlass == ASSUME LoopKnowsTheGlass, SeatTypeOK, Retire PROVE LoopKnowsTheGlass'
<1> USE DEF Retire, presenceVars, panelVars, frameVars, LoopKnowsTheGlass
<1>1. PresenceInv' /\ FlipInv'
  BY DEF PresenceInv, FlipInv
<1>2. PanelInv'
  BY DEF PanelInv, Covered, FlipInv
<1>3. TrackerInv'
  BY DEF TrackerInv
<1>4. CoverInFlight'
  BY DEF CoverInFlight, lockVars
<1> QED BY <1>1, <1>2, <1>3, <1>4

\* VBlank: the event of a flip that has retired.
LEMMA VBlankGlass == ASSUME LoopKnowsTheGlass, SeatTypeOK, VBlank PROVE LoopKnowsTheGlass'
<1> USE DEF VBlank, presenceVars, LoopKnowsTheGlass
<1>1. queued = "none"
  BY DEF FlipInv
<1>2. PresenceInv' /\ FlipInv' /\ TrackerInv'
  BY <1>1 DEF PresenceInv, FlipInv, TrackerInv
<1>3. PanelInv'
  <2>1. CASE panelFlip
    BY <1>1, <2>1 DEF PanelInv, Covered
  <2>2. CASE ~panelFlip
    BY <1>1, <2>2 DEF PanelInv, Covered
  <2> QED BY <2>1, <2>2
<1>4. CoverInFlight'
  <2>1. CASE flipInFlight
    BY <1>1, <2>1 DEF LockFrameIsOnGlass, FrameRetired, CoverInFlight
  <2>2. CASE ~flipInFlight
    BY <1>1, <2>2 DEF LockFrameIsOnGlass, FrameRetired, lockVars, CoverInFlight
  <2> QED BY <2>1, <2>2
<1> QED BY <1>2, <1>3, <1>4

\* The VT is left, or given back.
LEMMA SessionGlass ==
    ASSUME LoopKnowsTheGlass, SeatTypeOK, GentleDisplay, Leave \/ ComeBack
    PROVE  LoopKnowsTheGlass'
<1> USE DEF LoopKnowsTheGlass, panelVars, frameVars, lockVars
<1>1. CASE Leave
  <2> USE <1>1 DEF Leave, GentleDisplay
  <2>1. PresenceInv' /\ FlipInv' /\ TrackerInv' /\ CoverInFlight'
    BY DEF PresenceInv, FlipInv, TrackerInv, CoverInFlight
  <2>2. PanelInv'
    BY DEF PanelInv, Covered
  <2> QED BY <2>1, <2>2
<1>2. CASE ComeBack
  <2> USE <1>2 DEF ComeBack, glassVars, GentleDisplay
  <2>1. PresenceInv' /\ FlipInv' /\ TrackerInv' /\ CoverInFlight'
    BY DEF PresenceInv, FlipInv, TrackerInv, CoverInFlight
  <2>2. ~panelFlip
    BY DEF PanelInv, PresenceInv
  <2>3. PanelInv'
    BY <2>2 DEF PanelInv, Covered
  <2> QED BY <2>1, <2>3
<1> QED BY <1>1, <1>2

\* The person and the idle clock.
LEMMA PanelGlass ==
    ASSUME LoopKnowsTheGlass, SeatTypeOK, Blank \/ Input \/ SleepEnded
    PROVE  LoopKnowsTheGlass'
<1> USE DEF LoopKnowsTheGlass, presenceVars, frameVars, glassVars, lockVars
<1>1. CASE Blank
  <2>1. PresenceInv' /\ FlipInv' /\ TrackerInv' /\ CoverInFlight'
    BY <1>1 DEF Blank, PresenceInv, FlipInv, TrackerInv, CoverInFlight
  <2>2. PanelInv'
    BY <1>1 DEF Blank, PanelInv, Covered
  <2> QED BY <2>1, <2>2
<1>2. CASE Input \/ SleepEnded
  <2>1. PresenceInv' /\ FlipInv' /\ TrackerInv' /\ CoverInFlight'
    BY <1>2 DEF Input, SleepEnded, PresenceInv, FlipInv, TrackerInv, CoverInFlight
  <2>2. UNCHANGED panel /\ (panelFlip' => panelFlip) /\ (darkDue' => darkDue) /\ ~panelFlip'
    <3>1. CASE panel = "on"
      BY <1>2, <3>1 DEF Input, SleepEnded, NoteInput, panelVars, PanelInv
    <3>2. CASE panel # "on"
      BY <1>2, <3>2 DEF Input, SleepEnded, NoteInput
    <3> QED BY <3>1, <3>2
  <2>3. wakeDue' => ~darkDue'
    <3>1. CASE panel = "on"
      BY <1>2, <3>1 DEF Input, SleepEnded, NoteInput, panelVars, PanelInv
    <3>2. CASE panel # "on"
      BY <1>2, <3>2 DEF Input, SleepEnded, NoteInput
    <3> QED BY <3>1, <3>2
  <2>4. PanelInv'
    BY <1>2, <2>2, <2>3 DEF Input, SleepEnded, PanelInv, Covered
  <2> QED BY <2>1, <2>4
<1> QED BY <1>1, <1>2

-----------------------------------------------------------------------------
(* The ticks.                                                              *)

\* Away, another VT has the glass.
LEMMA AwayGlass == ASSUME LoopKnowsTheGlass, SeatTypeOK, TickAway PROVE LoopKnowsTheGlass'
<1> USE DEF TickAway, LoopKnowsTheGlass, presenceVars, panelVars, glassVars
<1>1. queued = "none" /\ shown = "other"
  BY DEF PresenceInv
<1>2. PresenceInv' /\ FlipInv' /\ TrackerInv' /\ CoverInFlight'
  BY <1>1 DEF PresenceInv, FlipInv, TrackerInv, CoverInFlight
<1>3. PanelInv'
  BY DEF PanelInv, Covered
<1> QED BY <1>2, <1>3

\* What a settled tick knows of the panel.
LEMMA SettledFacts ==
    ASSUME LoopKnowsTheGlass, SeatTypeOK, Present
    PROVE  /\ ~returning' /\ ~wakeDue' /\ ~away' /\ ~elsewhere'
           /\ returning => SettledPanel = "on" /\ ~panelFlip
           /\ panelFlip => SettledPanel = "darkening"
           /\ SettledPanel = "dark" => /\ ~returning /\ ~panelFlip
                                       /\ queued = "none" /\ Covered(shown)
           /\ SettledPanel \in {"on", "darkening", "dark"}
<1> USE DEF Present, LoopKnowsTheGlass, SettledPanel
<1>1. ~elsewhere
  BY DEF PresenceInv
<1>2. ~returning' /\ ~wakeDue' /\ ~away' /\ ~elsewhere'
  BY <1>1
<1>3. returning => SettledPanel = "on" /\ ~panelFlip
  BY DEF PanelInv
<1>4. panelFlip => SettledPanel = "darkening"
  BY DEF PanelInv
<1>5. SettledPanel = "dark" => ~returning /\ ~panelFlip /\ queued = "none" /\ Covered(shown)
  BY DEF PanelInv
<1>6. SettledPanel \in {"on", "darkening", "dark"}
  BY DEF SeatTypeOK, PanelTypeOK
<1> QED BY <1>2, <1>3, <1>4, <1>5, <1>6

\* A dark tick: black is on the glass already.
LEMMA DarkGlass == ASSUME LoopKnowsTheGlass, SeatTypeOK, TickDark PROVE LoopKnowsTheGlass'
<1> USE DEF TickDark, LoopKnowsTheGlass, frameVars, glassVars
<1>1. Present
  OBVIOUS
<1>2. /\ ~returning /\ ~panelFlip /\ queued = "none" /\ Covered(shown)
      /\ ~returning' /\ ~wakeDue' /\ ~away' /\ ~elsewhere'
  BY <1>1, SettledFacts
<1>3. PresenceInv' /\ FlipInv' /\ TrackerInv' /\ CoverInFlight'
  BY <1>2 DEF PresenceInv, FlipInv, TrackerInv, CoverInFlight, Covered
<1>4. PanelInv'
  BY <1>2 DEF PanelInv, Covered
<1> QED BY <1>3, <1>4

\* A tick that skips its frame.
LEMMA SkipGlass == ASSUME LoopKnowsTheGlass, SeatTypeOK, TickSkips PROVE LoopKnowsTheGlass'
<1> USE DEF TickSkips, LoopKnowsTheGlass, frameVars, glassVars, lockVars
<1>1. Present
  OBVIOUS
<1>2. /\ ~returning' /\ ~wakeDue' /\ ~away' /\ ~elsewhere'
      /\ panelFlip => SettledPanel = "darkening"
  BY <1>1, SettledFacts
<1>3. ~returning
  BY DEF FrameWanted, FlipInv, SettledPanel
<1>4. PresenceInv' /\ FlipInv' /\ TrackerInv' /\ CoverInFlight'
  BY <1>2, <1>3 DEF PresenceInv, FlipInv, TrackerInv, CoverInFlight
<1>5. PanelInv'
  BY <1>2, <1>3 DEF PanelInv, Covered, Present
<1> QED BY <1>4, <1>5

\* A frame that is wanted finds no flip in the kernel it should wait for.
LEMMA WantedFacts ==
    ASSUME LoopKnowsTheGlass, SeatTypeOK, Present, FrameWanted
    PROVE  /\ ~panelFlip
           /\ ~returning => queued = "none" /\ ~flipPending
           /\ ~returning /\ vblank => fresh = 2
           /\ TickScene \in Scene
           /\ held => TickScene # "desktop"
           /\ SettledPanel = "darkening" => TickScene = "black"
<1>1. ~panelFlip
  BY DEF FrameWanted, LoopKnowsTheGlass, PanelInv
<1>2. (~returning => queued = "none" /\ ~flipPending) /\ (~returning /\ vblank => fresh = 2)
  BY DEF FrameWanted, LoopKnowsTheGlass, FlipInv
<1>3. /\ TickScene \in Scene
      /\ held => TickScene # "desktop"
      /\ SettledPanel = "darkening" => TickScene = "black"
  BY DEF TickScene, Scene
<1> QED BY <1>1, <1>2, <1>3

\* Nothing was drawn: the glass holds the scene already.
LEMMA UnchangedGlass ==
    ASSUME LoopKnowsTheGlass, SeatTypeOK, FrameUnchanged
    PROVE  LoopKnowsTheGlass'
<1> USE DEF FrameUnchanged, frameVars, glassVars
<1>1. /\ ~returning' /\ ~wakeDue' /\ ~away' /\ ~elsewhere'
      /\ panel' = SettledPanel /\ SettledPanel # "dark"
  BY SettledFacts DEF Present, FrameWanted
<1>2. ~panelFlip /\ (held => TickScene # "desktop")
      /\ (SettledPanel = "darkening" => TickScene = "black") /\ TickScene \in Scene
  BY WantedFacts
<1>3. composed = TickScene /\ fresh = 0 /\ ~returning
  BY DEF HasDamage, SettledFresh, SeatTypeOK, FrameTypeOK
<1>4. queued = "none"
  BY <1>3, WantedFacts
<1>5. shown \in {TickScene, "nothing", "other"}
  BY <1>2, <1>3, <1>4 DEF LoopKnowsTheGlass, TrackerInv, Scene
<1>6. PresenceInv' /\ FlipInv' /\ TrackerInv'
  BY <1>1, <1>3, <1>4 DEF LoopKnowsTheGlass, PresenceInv, FlipInv, TrackerInv
<1>7. PanelInv'
  BY <1>1, <1>2, <1>4, <1>5 DEF PanelInv, Covered
<1>8. CoverInFlight'
  <2>1. CASE held
    BY <1>2, <1>4, <1>5, <2>1 DEF CoverInFlight
  <2>2. CASE ~held
    BY <2>2 DEF LoopKnowsTheGlass, CoverInFlight, lockVars
  <2> QED BY <2>1, <2>2
<1> QED BY <1>6, <1>7, <1>8 DEF LoopKnowsTheGlass

\* A frame that came to nothing leaves the loop as it found it, or as a return
\* leaves it.
LEMMA OwedGlass ==
    ASSUME LoopKnowsTheGlass, SeatTypeOK, FrameStaysOwed
    PROVE  PresenceInv' /\ FlipInv' /\ PanelInv' /\ CoverInFlight'
<1> USE DEF FrameStaysOwed, LoopKnowsTheGlass
<1>1. /\ ~returning' /\ ~wakeDue' /\ ~away' /\ ~elsewhere'
      /\ panel' = SettledPanel /\ SettledPanel # "dark"
  BY SettledFacts DEF Present, FrameWanted
<1>2. ~panelFlip
  BY WantedFacts
<1>3. CASE returning
  <2>1. shown' = "nothing" /\ queued' = "none" /\ fresh' = 2
    BY <1>3 DEF GlassReset, SettledFresh
  <2>2. PresenceInv' /\ FlipInv' /\ PanelInv'
    BY <1>1, <1>2, <2>1 DEF PresenceInv, FlipInv, PanelInv, Covered
  <2>3. CoverInFlight'
    BY <2>1 DEF CoverInFlight, lockVars
  <2> QED BY <2>2, <2>3
<1>4. CASE ~returning
  <2>1. UNCHANGED glassVars /\ fresh' = fresh /\ queued = "none" /\ (vblank => fresh = 2)
    BY <1>4, WantedFacts DEF GlassReset, SettledFresh
  <2>2. PresenceInv' /\ FlipInv' /\ PanelInv'
    BY <1>1, <1>2, <2>1 DEF PresenceInv, FlipInv, PanelInv, Covered, glassVars
  <2>3. CoverInFlight'
    BY <2>1 DEF CoverInFlight, lockVars, glassVars
  <2> QED BY <2>2, <2>3
<1> QED BY <1>3, <1>4

\* The tracker after such a frame, if what it saw last was on its way out.
LEMMA FailsGlass == ASSUME LoopKnowsTheGlass, SeatTypeOK, FrameFails PROVE LoopKnowsTheGlass'
<1> USE DEF FrameFails, LoopKnowsTheGlass
<1>1. PresenceInv' /\ FlipInv' /\ PanelInv' /\ CoverInFlight'
  BY OwedGlass
<1>2. TrackerInv'
  <2>1. CASE returning
    BY <2>1 DEF FrameStaysOwed, SettledFresh, TrackerInv
  <2>2. CASE ~returning
    BY <2>2 DEF FrameStaysOwed, SettledFresh, GlassReset, glassVars, TrackerInv
  <2> QED BY <2>1, <2>2
<1> QED BY <1>1, <1>2

\* A refused flip: the tracker has new damage to draw, or had it before, and
\* then the flip before this one was not refused.
LEMMA RefusedGlass ==
    ASSUME LoopKnowsTheGlass, SeatTypeOK, GentleDisplay, NEW damage \in BOOLEAN,
           FlipRefused(damage)
    PROVE  LoopKnowsTheGlass'
<1> USE DEF FlipRefused, LoopKnowsTheGlass
<1>1. PresenceInv' /\ FlipInv' /\ PanelInv' /\ CoverInFlight'
  BY OwedGlass
<1>2. refusals = 0 /\ refusals' = 1
  BY DEF GentleDisplay, SeatTypeOK, FrameTypeOK
<1>3. TrackerInv'
  <2>1. CASE returning
    BY <2>1 DEF FrameStaysOwed, SettledFresh, TrackerInv
  <2>2. CASE ~returning /\ damage
    BY <1>2, <2>2 DEF FrameDrawn, TrackerInv
  <2>3. CASE ~returning /\ ~damage
    <3>1. composed = TickScene /\ ~(fresh > 0)
      BY <2>3 DEF FrameDrawn, HasDamage, SettledFresh
    <3>2. composed \in Scene
      BY <3>1, TickSceneType
    <3>3. composed' = composed /\ UNCHANGED <<shown, queued>>
      BY <2>3, <3>1 DEF FrameDrawn, FrameStaysOwed, GlassReset, glassVars
    <3> QED BY <1>2, <3>1, <3>2, <3>3 DEF TrackerInv, Scene
  <2> QED BY <2>1, <2>2, <2>3
<1> QED BY <1>1, <1>3

\* An accepted flip: the scene is queued, or on the glass after a modeset.
LEMMA AcceptedGlass ==
    ASSUME LoopKnowsTheGlass, SeatTypeOK, NEW damage \in BOOLEAN, FlipAccepted(damage)
    PROVE  LoopKnowsTheGlass'
<1> USE DEF FlipAccepted
<1>1. /\ ~returning' /\ ~wakeDue' /\ ~away' /\ ~elsewhere'
      /\ panel' = SettledPanel /\ SettledPanel # "dark"
  BY SettledFacts DEF Present, FrameWanted
<1>2. /\ ~panelFlip /\ (held => TickScene # "desktop")
      /\ (SettledPanel = "darkening" => TickScene = "black") /\ TickScene \in Scene
      /\ (~returning /\ vblank => fresh = 2)
  BY WantedFacts
<1>3. /\ composed' = TickScene
      /\ \/ shown' = TickScene /\ queued' = "none" /\ vblank'
         \/ queued' = TickScene /\ UNCHANGED <<shown, vblank>> /\ ~vblank
  BY <1>2 DEF FrameDrawn, SettledFresh
<1>4. PresenceInv' /\ FlipInv' /\ TrackerInv'
  BY <1>1, <1>3 DEF PresenceInv, FlipInv, TrackerInv
<1>5. PanelInv'
  <2>1. CASE SettledPanel = "darkening"
    BY <1>1, <1>2, <1>3, <2>1 DEF PanelInv, Covered
  <2>2. CASE SettledPanel # "darkening"
    BY <1>1, <1>2, <2>2 DEF PanelInv
  <2> QED BY <2>1, <2>2
<1>6. CoverInFlight'
  <2>1. UNCHANGED <<held, onGlass>> /\ (flipInFlight' => flipInFlight \/ held)
    BY DEF LockFrameIsInFlight, FrameFlipped, seal
  <2>2. (onGlass => held) /\ (flipInFlight => held)
    BY DEF SeatTypeOK, LockTypeOK
  <2>3. CASE held
    BY <1>2, <1>3, <2>1, <2>3 DEF LoopKnowsTheGlass, CoverInFlight, Scene
  <2>4. CASE ~held
    BY <2>1, <2>2, <2>4 DEF CoverInFlight
  <2> QED BY <2>3, <2>4
<1> QED BY <1>4, <1>5, <1>6 DEF LoopKnowsTheGlass

-----------------------------------------------------------------------------
(* The theorems.                                                           *)

\* The initial state satisfies the invariant.
LEMMA GlassInit == SeatInit => LoopKnowsTheGlass
<1> SUFFICES ASSUME SeatInit PROVE LoopKnowsTheGlass
  OBVIOUS
<1>1. PresenceInv /\ FlipInv /\ TrackerInv
  BY DEF SeatInit, PresenceInv, FlipInv, TrackerInv
<1>2. PanelInv
  BY DEF SeatInit, PanelInv
<1>3. CoverInFlight
  BY DEF SeatInit, LockInit, CoverInFlight
<1> QED BY <1>1, <1>2, <1>3 DEF LoopKnowsTheGlass

\* Every step of a seat on a gentle display keeps the invariant.
LEMMA GlassNext ==
    ASSUME GentleDisplay, LoopKnowsTheGlass, SeatTypeOK, LockInv, [SeatNext]_seatVars
    PROVE  LoopKnowsTheGlass'
<1>1. CASE Clients \/ SeatLocks \/ SleepStarts \/ RetryDue \/ UNCHANGED seatVars
  BY <1>1, ClientsKeepGlass
<1>2. CASE Retire \/ VBlank
  BY <1>2, RetireGlass, VBlankGlass
<1>3. CASE Leave \/ ComeBack
  BY <1>3, SessionGlass
<1>4. CASE Blank \/ Input \/ SleepEnded
  BY <1>4, PanelGlass
<1>5. CASE Tick
  <2>1. CASE TickAway \/ TickRefused
    BY <2>1, AwayGlass, ClientsKeepGlass
  <2>2. CASE TickDark \/ TickSkips \/ FrameUnchanged
    BY <2>2, DarkGlass, SkipGlass, UnchangedGlass
  <2>3. CASE FrameFails
    BY <2>3, FailsGlass
  <2>4. ASSUME NEW damage \in BOOLEAN, FlipRefused(damage) \/ FlipAccepted(damage)
        PROVE  LoopKnowsTheGlass'
    BY <2>4, RefusedGlass, AcceptedGlass
  <2> QED BY <1>5, <2>1, <2>2, <2>3, <2>4 DEF Tick, TickWorks, TickFails
<1> QED BY <1>1, <1>2, <1>3, <1>4, <1>5 DEF SeatNext

\* On a gentle display the loop's picture of the glass is right in every
\* reachable state.
THEOREM GlassInvariant == GentleDisplay /\ SeatSafety => []LoopKnowsTheGlass
<1> SUFFICES ASSUME GentleDisplay PROVE SeatSafety => []LoopKnowsTheGlass
  OBVIOUS
<1>1. LoopKnowsTheGlass /\ SeatTypeOK /\ LockInv /\ [SeatNext]_seatVars => LoopKnowsTheGlass'
  BY GlassNext
<1> QED BY <1>1, GlassInit, SeatTypeCorrect, SeatLockInvariant, PTL DEF SeatSafety

\* On a gentle display no desktop is visible once the lock counts as being on
\* the glass, and so once any client was told `locked`.
THEOREM LockedScreenIsCovered == GentleDisplay /\ SeatSafety => []LockedMeansCovered
<1>1. LoopKnowsTheGlass => LockedMeansCovered
  BY DEF LoopKnowsTheGlass, CoverInFlight, LockedMeansCovered, DesktopVisible
<1> QED BY <1>1, GlassInvariant, PTL

\* On a gentle display a panel that is off has no frame of the desktop or of
\* the lock behind it.
THEOREM DarkPanelHasBlackBehind == GentleDisplay /\ SeatSafety => []DarkPanelIsBlack
<1>1. LoopKnowsTheGlass => DarkPanelIsBlack
  BY DEF LoopKnowsTheGlass, PanelInv, Covered, DarkPanelIsBlack
<1> QED BY <1>1, GlassInvariant, PTL

\* On a gentle display the loop never waits for what cannot come: what it
\* believes of the display is so, and a sleep waits only for a lock that is held.
THEOREM LoopAlwaysWaitsRightly == GentleDisplay /\ SeatSafety => []LoopWaitsRightly
<1>1. LoopKnowsTheGlass /\ SleepWaitIsOwed => LoopWaitsRightly
  BY DEF LoopWaitsRightly
<1> QED BY <1>1, GlassInvariant, SleepWaitsForALock, PTL
=============================================================================
