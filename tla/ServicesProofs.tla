--------------------------- MODULE ServicesProofs ---------------------------
(***************************************************************************)
(* Proofs about the services around the frame loop, each for itself: they  *)
(* share no variable.                                                      *)
(*                                                                         *)
(* SeatClock, for any policies, any finite set of surfaces and any two     *)
(* pauses of the supervisor: nothing happens before its time.  QuietHolds  *)
(* says that the counter of inhibitors counts the set, so that a clock     *)
(* that is not held back was not held back since it began.  PaceHolds says *)
(* that the time since the last start and the time to the next one make up *)
(* the pause, which is the double of the one before or the ceiling.        *)
(*                                                                         *)
(* Notes: what the child drew and the seat dropped is told.  The line of a *)
(* note and the word that ends it go through different queues; what makes  *)
(* it hold is LinesInOrder, that the lines come in the order of the        *)
(* children that are to draw them.                                         *)
(*                                                                         *)
(* InputDevices: no device is overlooked and none is opened twice.  What   *)
(* makes it hold is ReturnsFollow, that a removal the backend has yet to   *)
(* read is followed by the return of the node, when the node is back.      *)
(*                                                                         *)
(* Capture: whoever waits for a picture is owed a frame.                   *)
(*                                                                         *)
(* ServicesInv joins what is proved of the four, and what it lacks of      *)
(* their types, for the specification that runs one of them.               *)
(*                                                                         *)
(* Keyboard, for any requests and configurations: the seat, its clients    *)
(* and the callers of the socket speak of one keyboard.  KeyboardInv says  *)
(* that nothing of the state but the held keys and the locks is free       *)
(* (Settled): the modifiers in force, and the ones the clients were last   *)
(* told, follow from them.  On such a keyboard both sides take the same    *)
(* level of every key (LevelsAgree), though they find it by different      *)
(* rules.  A text is followed step by step, as its keys are pressed: one   *)
(* that finds no modifier on is typed on a Clean keyboard throughout, so   *)
(* that each key is read with the modifiers the character wants, and none  *)
(* is held at its end.  The expansion of a text, the steps of an entry and *)
(* the draining of the queue are recursive functions; that they have the   *)
(* values that their equations say is proved first.                        *)
(***************************************************************************)
EXTENDS MCServices, Keyboard, ListProofs, FiniteSetTheorems,
        SequenceTheorems, TLAPS

-----------------------------------------------------------------------------
(* SeatClock.                                                              *)

\* The clock of a seat that nothing inhibits is no older than its quiet.
QuietHolds ==
    /\ policy \in Policies
    /\ idleFor \in 0..MaxIdle /\ quiet \in 0..MaxIdle
    /\ inhibiting \subseteq Surface
    /\ inhibitors = Cardinality(inhibiting)
    /\ inhibiting = {} => idleFor <= quiet

PaceTyped ==
    /\ respawnIn \in NotArmed..RespawnLast /\ respawnWait \in 0..RespawnLast
    /\ sinceTry \in NotArmed..RespawnLast /\ lastGap \in NotArmed..RespawnLast

\* Between two starts nothing but seconds passes, and the tick of the second
\* that ends the pause is the one that starts.
Paused ==
    /\ respawnIn >= 0 /\ respawnIn + sinceTry = respawnWait
    /\ respawnWait >= RespawnFirst
    /\ respawnWait >= Least(2 * lastGap, RespawnLast)
    /\ respawnIn = 0 => tickDue

PaceHolds ==
    /\ PaceTyped
    /\ ~sealed => sinceTry = NotArmed
    /\ IF sinceTry = NotArmed THEN respawnIn <= 0 /\ respawnWait = 0 ELSE Paused

-----------------------------------------------------------------------------
\* The numbers of the assumption, apart from the policies.
LEMMA Pauses ==
    /\ RespawnFirst \in Nat \ {0} /\ RespawnLast \in Nat /\ RespawnFirst <= RespawnLast
    /\ MaxIdle \in Nat
  BY SeatClockAssumption, Zenon

LEMMA SurfacesAreFinite ==
    ASSUME NEW S, S \subseteq Surface
    PROVE  IsFiniteSet(S) /\ Cardinality(S) \in Nat /\ (Cardinality(S) = 0 <=> S = {})
  BY SeatClockAssumption, FS_Subset, FS_CardinalityType, FS_EmptySet

LEMMA QuietInit == SeatClockInit => QuietHolds
  BY Pauses, FS_EmptySet DEF SeatClockInit, QuietHolds

LEMMA TouchedQuiet == QuietHolds /\ Touched => QuietHolds'
  BY Pauses DEF QuietHolds, Touched

LEMMA InhibitQuiet ==
    ASSUME QuietHolds, NEW s \in Surface, Inhibit(s)
    PROVE  QuietHolds'
<1>1. inhibiting' \subseteq Surface /\ inhibiting' # {}
  BY DEF QuietHolds, Inhibit
<1>2. inhibitors' = Cardinality(inhibiting')
  BY SurfacesAreFinite, FS_AddElement DEF QuietHolds, Inhibit
<1> QED BY <1>1, <1>2, Pauses DEF QuietHolds, Inhibit

\* An inhibitor that dies after its surface releases nothing; one that was
\* counted is counted down, and the last one begins a new period.
LEMMA UninhibitQuiet ==
    ASSUME QuietHolds, NEW s \in Surface, Uninhibit(s)
    PROVE  QuietHolds'
<1>1. inhibiting' \subseteq Surface
  BY DEF QuietHolds, Uninhibit
<1>2. IsFiniteSet(inhibiting) /\ inhibitors \in Nat /\ (inhibitors = 0 <=> inhibiting = {})
  BY SurfacesAreFinite DEF QuietHolds
<1>3. Cardinality(inhibiting') = IF s \in inhibiting THEN inhibitors - 1 ELSE inhibitors
  BY <1>2, FS_RemoveElement DEF QuietHolds, Uninhibit
<1>4. inhibitors' = Cardinality(inhibiting')
  BY <1>2, <1>3 DEF Uninhibit
<1>5. inhibiting' = {} <=> inhibitors' = 0
  BY <1>1, <1>4, SurfacesAreFinite
<1>6. CASE s \in inhibiting
  BY <1>1, <1>2, <1>4, <1>5, <1>6, Pauses DEF QuietHolds, Uninhibit
<1>7. CASE s \notin inhibiting
  <2>1. inhibiting' = inhibiting
    BY <1>7 DEF Uninhibit
  <2> QED BY <1>1, <1>2, <1>4, <1>7, <2>1, Pauses DEF QuietHolds, Uninhibit
<1> QED BY <1>6, <1>7

LEMMA SecondQuiet == QuietHolds /\ Second => QuietHolds'
  BY Pauses DEF QuietHolds, Second, Least

LEMMA TickQuiet == QuietHolds /\ SeatTick => QuietHolds'
<1> SUFFICES ASSUME QuietHolds, SeatTick PROVE QuietHolds'
  OBVIOUS
<1>1. UNCHANGED <<policy, idleFor, inhibiting, inhibitors, quiet>>
  BY DEF SeatTick
<1> QED BY <1>1 DEF QuietHolds

\* The steps that leave the idle clock alone.
ClockStands ==
    \/ LockAsked \/ ClientAsks \/ ClientFails
    \/ \E byDestroy \in BOOLEAN: HolderGone(byDestroy)
    \/ Leave \/ ComeBack \/ FrameTick \/ UNCHANGED seatClockVars

LEMMA ClockStandsStill == ClockStands => UNCHANGED clockVars
  BY DEF ClockStands, LockAsked, ClientAsks, ClientFails, HolderGone, Leave, ComeBack, FrameTick,
         seatClockVars

LEMMA QuietStep == QuietHolds /\ [SeatClockNext]_seatClockVars => QuietHolds'
<1> SUFFICES ASSUME QuietHolds, [SeatClockNext]_seatClockVars PROVE QuietHolds'
  OBVIOUS
<1>1. CASE Input \/ SessionOpened \/ SleepEnded
  BY <1>1, TouchedQuiet DEF Input, SessionOpened, SleepEnded, NoteInput
<1>2. CASE \E s \in Surface: Inhibit(s) \/ Uninhibit(s)
  BY <1>2, InhibitQuiet, UninhibitQuiet
<1>3. CASE \E p \in Policies: AdoptPolicy(p)
  BY <1>3 DEF AdoptPolicy, QuietHolds
<1>4. CASE SeatTick
  BY <1>4, TickQuiet
<1>5. CASE Second
  BY <1>5, SecondQuiet
<1>6. CASE ClockStands
  BY <1>6, ClockStandsStill DEF clockVars, QuietHolds
<1> QED BY <1>1, <1>2, <1>3, <1>4, <1>5, <1>6 DEF SeatClockNext, ClockStands

-----------------------------------------------------------------------------
LEMMA PaceInit == SeatClockInit => PaceHolds
  BY Pauses DEF SeatClockInit, PaceHolds, PaceTyped, NotArmed

\* A start doubles the pause or begins with the first one.
LEMMA NextWaitBounds ==
    ASSUME NEW wait \in 0..RespawnLast, wait = 0 \/ wait >= RespawnFirst
    PROVE  /\ NextWait(wait) \in RespawnFirst..RespawnLast
           /\ wait # 0 => NextWait(wait) = Least(2 * wait, RespawnLast)
           /\ NextWait(0) = RespawnFirst
  BY Pauses DEF NextWait, Least

\* With nobody to serve the supervisor forgets the pause.
LEMMA SuperviseRests ==
    ASSUME NEW locked, NEW held, NEW at, NEW wait, NEW since,
           ~locked \/ held, Supervise(locked, held, at, wait, since)
    PROVE  respawnIn' = NotArmed /\ respawnWait' = 0 /\ sinceTry' = NotArmed
           /\ lastGap' = lastGap
  BY DEF Supervise, RespawnDue

\* Supervise keeps the pace of whatever it is given: either nothing was
\* started since an arming, or the pause has the parts it had.
LEMMA SuperviseKeepsPace ==
    ASSUME PaceTyped,
           NEW at \in NotArmed..RespawnLast, NEW wait \in 0..RespawnLast,
           NEW since \in NotArmed..RespawnLast,
           IF since = NotArmed THEN at <= 0 /\ wait = 0
           ELSE at >= 0 /\ at + since = wait /\ wait >= RespawnFirst
                /\ wait >= Least(2 * lastGap, RespawnLast),
           Supervise(sealed', served', at, wait, since)
    PROVE  PaceHolds'
<1> USE Pauses DEF NotArmed
<1>1. CASE ~sealed' \/ served'
  <2>1. respawnIn' = NotArmed /\ respawnWait' = 0 /\ sinceTry' = NotArmed /\ lastGap' = lastGap
    BY <1>1, SuperviseRests
  <2> QED BY <2>1 DEF PaceHolds, PaceTyped
<1>2. CASE sealed' /\ ~served' /\ at \in {NotArmed, 0}
  <2>1. /\ respawnIn' = NextWait(wait) /\ respawnWait' = NextWait(wait)
        /\ lastGap' = since /\ sinceTry' = 0
    BY <1>2 DEF Supervise, RespawnDue
  <2>2. wait = 0 \/ wait >= RespawnFirst
    OBVIOUS
  <2>3. since = NotArmed \/ since = wait
    BY <1>2
  <2>4. NextWait(wait) >= Least(2 * since, RespawnLast)
    BY <2>2, <2>3, NextWaitBounds DEF Least
  <2>5. NextWait(wait) \in RespawnFirst..RespawnLast
    BY <2>2, NextWaitBounds
  <2> QED BY <1>2, <2>1, <2>4, <2>5 DEF PaceHolds, PaceTyped, Paused
<1>3. CASE sealed' /\ ~served' /\ at \notin {NotArmed, 0}
  <2>1. respawnIn' = at /\ respawnWait' = wait /\ sinceTry' = since /\ lastGap' = lastGap
    BY <1>3 DEF Supervise, RespawnDue
  <2> QED BY <1>3, <2>1 DEF PaceHolds, PaceTyped, Paused
<1> QED BY <1>1, <1>2, <1>3

LEMMA FreshStartKeepsPace ==
    ASSUME PaceTyped, sealed', ~served', Supervise(sealed', served', 0, 0, NotArmed)
    PROVE  PaceHolds'
<1>1. 0 \in NotArmed..RespawnLast /\ 0 \in 0..RespawnLast /\ NotArmed \in NotArmed..RespawnLast
  BY Pauses DEF NotArmed
<1>2. 0 <= 0
  OBVIOUS
<1> QED BY <1>1, <1>2, SuperviseKeepsPace

LEMMA LockSessionKeepsPace ==
    ASSUME PaceHolds, LockSession, UNCHANGED tickDue
    PROVE  PaceHolds'
<1>1. CASE policy.client /\ ~sealed
  <2>1. Supervise(sealed', served', 0, 0, NotArmed) /\ sealed' /\ ~served'
    BY <1>1 DEF LockSession
  <2> QED BY <2>1, FreshStartKeepsPace DEF PaceHolds
<1>2. CASE ~(policy.client /\ ~sealed)
  BY <1>2 DEF LockSession, PaceHolds, PaceTyped, Paused, superVars
<1> QED BY <1>1, <1>2

LEMMA TickKeepsPace == PaceHolds /\ SeatTick => PaceHolds'
<1> SUFFICES ASSUME PaceHolds, SeatTick PROVE PaceHolds'
  OBVIOUS
<1>1. tickDue' = FALSE
  BY DEF SeatTick
<1>2. CASE LockDue /\ policy.client /\ ~sealed
  <2>1. Supervise(sealed', served', 0, 0, NotArmed) /\ sealed' = TRUE /\ served' = FALSE
    BY <1>2 DEF SeatTick, LockSession
  <2> QED BY <2>1, FreshStartKeepsPace DEF PaceHolds
<1>3. CASE ~(LockDue /\ policy.client /\ ~sealed)
  <2>1. sealed' = sealed /\ served' = served
        /\ Supervise(sealed', served', respawnIn, respawnWait, sinceTry)
    BY <1>3 DEF SeatTick
  <2> QED BY <1>1, <2>1, SuperviseKeepsPace DEF PaceHolds, PaceTyped, Paused
<1> QED BY <1>2, <1>3

\* A second of a pause: the pause is not over when the second begins, because
\* the tick of the second that ended it has run.
LEMMA SecondKeepsPace == PaceHolds /\ Second => PaceHolds'
  BY Pauses DEF PaceHolds, PaceTyped, Paused, Second, NotArmed, Least

\* The steps that leave the supervisor alone; a session that is sealed stays so.
PaceStands ==
    \/ Input \/ \E s \in Surface: Inhibit(s) \/ Uninhibit(s)
    \/ \E p \in Policies: AdoptPolicy(p)
    \/ ClientAsks \/ ClientFails \/ HolderGone(TRUE)
    \/ Leave \/ ComeBack \/ SleepEnded \/ FrameTick \/ UNCHANGED seatClockVars

LEMMA PaceStandsStill ==
    ASSUME PaceHolds, PaceStands
    PROVE  /\ UNCHANGED <<superVars, tickDue>>
           /\ sealed => sealed'
<1> USE DEF PaceHolds, PaceTyped, clockVars, shownVars, seatClockVars
<1>1. CASE Input \/ SleepEnded \/ \E p \in Policies: AdoptPolicy(p)
  BY <1>1 DEF Input, SleepEnded, AdoptPolicy
<1>2. CASE \E s \in Surface: Inhibit(s) \/ Uninhibit(s)
  BY <1>2 DEF Inhibit, Uninhibit
<1>3. CASE ClientAsks \/ ClientFails \/ HolderGone(TRUE)
  BY <1>3 DEF ClientAsks, ClientFails, HolderGone
<1>4. CASE Leave \/ ComeBack \/ FrameTick \/ UNCHANGED seatClockVars
  BY <1>4 DEF Leave, ComeBack, FrameTick
<1> QED BY <1>1, <1>2, <1>3, <1>4 DEF PaceStands

LEMMA ArmedKeepsPace ==
    PaceHolds /\ (SessionOpened \/ HolderGone(FALSE)) => PaceHolds'
  BY Pauses
     DEF PaceHolds, PaceTyped, SessionOpened, HolderGone, Armed, NotArmed

LEMMA PaceStep == PaceHolds /\ [SeatClockNext]_seatClockVars => PaceHolds'
<1> SUFFICES ASSUME PaceHolds, [SeatClockNext]_seatClockVars PROVE PaceHolds'
  OBVIOUS
<1>1. CASE PaceStands
  BY <1>1, PaceStandsStill DEF PaceHolds, PaceTyped, Paused, superVars
<1>2. CASE SessionOpened \/ HolderGone(FALSE)
  BY <1>2, ArmedKeepsPace
<1>3. CASE LockAsked
  BY <1>3, LockSessionKeepsPace DEF LockAsked
<1>4. CASE SeatTick
  BY <1>4, TickKeepsPace
<1>5. CASE Second
  BY <1>5, SecondKeepsPace
<1> QED BY <1>1, <1>2, <1>3, <1>4, <1>5 DEF SeatClockNext, PaceStands

-----------------------------------------------------------------------------
\* A step is handed out by the tick alone, and its age is an age of quiet.
LEMMA StepsNeedQuiet ==
    ASSUME QuietHolds, [SeatClockNext]_seatClockVars
    PROVE  /\ ~lockStep /\ lockStep' => quiet >= policy.lock
           /\ ~blanked /\ blanked' => quiet >= policy.blank
<1>1. CASE SeatTick
  <2>1. ASSUME NEW after \in {policy.lock, policy.blank}, inhibitors = 0, Past(after)
        PROVE  quiet >= after
    <3>1. after \in Nat
      BY <2>1, SeatClockAssumption DEF QuietHolds, Past
    <3>2. idleFor <= quiet
      BY <2>1, SurfacesAreFinite DEF QuietHolds
    <3> QED BY <2>1, <3>1, <3>2, Pauses DEF QuietHolds, Past
  <2>2. ~lockStep /\ lockStep' => LockDue
    BY <1>1 DEF SeatTick
  <2>3. ~blanked /\ blanked' => BlankDue
    BY <1>1 DEF SeatTick
  <2> QED BY <2>1, <2>2, <2>3 DEF LockDue, BlankDue
<1>2. CASE ~SeatTick
  <2>1. CASE Input \/ SessionOpened \/ SleepEnded
    BY <2>1 DEF Input, SessionOpened, SleepEnded, NoteInput, Touched
  <2>2. CASE \E s \in Surface: Inhibit(s) \/ Uninhibit(s)
    BY <2>2 DEF Inhibit, Uninhibit
  <2>3. CASE Second \/ \E p \in Policies: AdoptPolicy(p)
    BY <2>3 DEF Second, AdoptPolicy
  <2>4. CASE ClockStands
    BY <2>4, ClockStandsStill DEF clockVars
  <2> QED BY <1>2, <2>1, <2>2, <2>3, <2>4 DEF SeatClockNext, ClockStands
<1> QED BY <1>1, <1>2

\* The start that ends a pause: the whole pause has passed.
LEMMA StartsNeedPauses ==
    ASSUME PaceHolds, [SeatClockNext]_seatClockVars,
           respawnIn <= 0, respawnIn' > 0, sinceTry # NotArmed
    PROVE  sinceTry >= RespawnFirst /\ sinceTry >= Least(2 * lastGap, RespawnLast)
  BY Pauses DEF PaceHolds, PaceTyped, Paused, Least, NotArmed

-----------------------------------------------------------------------------
\* The count of inhibitors is the number of the surfaces that inhibit, and a
\* seat that none of them holds was quiet for as long as its clock is old
\* (Idle and Omoya::uninhibit).
THEOREM QuietAlwaysHolds == SeatClockSpec => []QuietHolds
<1> QED BY QuietInit, QuietStep, PTL DEF SeatClockSpec

\* The supervisor keeps its pace: the parts of the pause add up to it, and the
\* pause is at least the double of the one before or the ceiling (respawn_due).
THEOREM PaceAlwaysHolds == SeatClockSpec => []PaceHolds
<1> QED BY PaceInit, PaceStep, PTL DEF SeatClockSpec

\* No idle step and no lock client comes before its time, whatever the policy
\* says and whenever it changes, whoever inhibits, and however often the holder
\* dies, destroys its lock or opens it in between.
THEOREM NothingIsEarly == SeatClockSpec => NothingBeforeItsTime
<1>1. QuietHolds /\ [SeatClockNext]_seatClockVars
        => [/\ ~lockStep /\ lockStep' => quiet >= policy.lock
            /\ ~blanked /\ blanked' => quiet >= policy.blank]_seatClockVars
  BY StepsNeedQuiet
<1>2. PaceHolds /\ [SeatClockNext]_seatClockVars
        => [respawnIn <= 0 /\ respawnIn' > 0 /\ sinceTry # NotArmed =>
              /\ sinceTry >= RespawnFirst
              /\ sinceTry >= Least(2 * lastGap, RespawnLast)]_seatClockVars
  BY StartsNeedPauses
<1>3. SeatClockSpec => IdleStepsAfterQuiet
  BY <1>1, QuietAlwaysHolds, PTL DEF SeatClockSpec, IdleStepsAfterQuiet
<1>4. SeatClockSpec => StartsAreSpaced
  BY <1>2, PaceAlwaysHolds, PTL DEF SeatClockSpec, StartsAreSpaced
<1> QED BY <1>3, <1>4 DEF NothingBeforeItsTime

-----------------------------------------------------------------------------
\* What of the types the other invariants of the clock do not say.
SwitchesTyped ==
    /\ blanked \in BOOLEAN /\ lockStep \in BOOLEAN /\ panelWake \in BOOLEAN /\ resting \in BOOLEAN
    /\ sealed \in BOOLEAN /\ served \in BOOLEAN /\ tickDue \in BOOLEAN
    /\ panel \in {"on", "darkening", "dark"} /\ seatAt \in {"home", "away", "returning"}
    /\ asking \in 0..MaxAsking

LEMMA AskingBound == MaxAsking \in Nat \ {0}
  BY SeatClockAssumption, Zenon

LEMMA SwitchesInit == SeatClockInit => SwitchesTyped
<1>1. SeatClockInit => asking \in 0..MaxAsking
  BY AskingBound DEF SeatClockInit
<1> QED BY <1>1 DEF SeatClockInit, SwitchesTyped

LEMMA SuperviseAsks ==
    ASSUME asking \in 0..MaxAsking, NEW locked, NEW held, NEW at, NEW wait, NEW since,
           Supervise(locked, held, at, wait, since)
    PROVE  asking' \in 0..MaxAsking
<1>1. CASE ~locked \/ held
  BY <1>1 DEF Supervise, RespawnDue
<1>2. CASE locked /\ ~held /\ RespawnDue(locked, held, at)
  <2>1. asking' = IF policy.client THEN Least(asking + 1, MaxAsking) ELSE asking
    BY <1>2 DEF Supervise
  <2> QED BY <2>1, AskingBound DEF Least
<1>3. CASE locked /\ ~held /\ ~RespawnDue(locked, held, at)
  BY <1>3 DEF Supervise
<1> QED BY <1>1, <1>2, <1>3

LEMMA LockSessionTyped ==
    ASSUME SwitchesTyped, LockSession
    PROVE  sealed' \in BOOLEAN /\ served' \in BOOLEAN /\ asking' \in 0..MaxAsking
<1>1. CASE policy.client /\ ~sealed
  BY <1>1, SuperviseAsks DEF LockSession, SwitchesTyped
<1>2. CASE ~(policy.client /\ ~sealed)
  BY <1>2 DEF LockSession, SwitchesTyped
<1> QED BY <1>1, <1>2

LEMMA SwitchesStep == SwitchesTyped /\ [SeatClockNext]_seatClockVars => SwitchesTyped'
<1> SUFFICES ASSUME SwitchesTyped, [SeatClockNext]_seatClockVars PROVE SwitchesTyped'
  OBVIOUS
<1> USE DEF clockVars, shownVars, superVars
<1>1. CASE Input
  BY <1>1 DEF Input, NoteInput, Touched, SwitchesTyped
<1>2. CASE \E s \in Surface : Inhibit(s) \/ Uninhibit(s)
  BY <1>2 DEF Inhibit, Uninhibit, SwitchesTyped
<1>3. CASE \E p \in Policies : AdoptPolicy(p)
  BY <1>3 DEF AdoptPolicy, SwitchesTyped
<1>4. CASE LockAsked
  BY <1>4, LockSessionTyped DEF LockAsked, SwitchesTyped
<1>5. CASE ClientAsks \/ ClientFails
  <2>1. asking' = asking - 1 /\ asking > 0
    BY <1>5 DEF ClientAsks, ClientFails
  <2>2. asking' \in 0..MaxAsking
    BY <2>1, AskingBound DEF SwitchesTyped
  <2> QED BY <1>5, <2>2 DEF ClientAsks, ClientFails, SwitchesTyped
<1>6. CASE SessionOpened
  BY <1>6 DEF SessionOpened, Touched, SwitchesTyped
<1>7. CASE \E byDestroy \in BOOLEAN : HolderGone(byDestroy)
  BY <1>7 DEF HolderGone, SwitchesTyped
<1>8. CASE SeatTick
  <2>1. sealed' \in BOOLEAN /\ served' \in BOOLEAN /\ asking' \in 0..MaxAsking
    <3>1. CASE LockDue /\ policy.client /\ ~sealed
      BY <1>8, <3>1, LockSessionTyped DEF SeatTick
    <3>2. CASE ~(LockDue /\ policy.client /\ ~sealed)
      BY <1>8, <3>2, SuperviseAsks DEF SeatTick, SwitchesTyped
    <3> QED BY <3>1, <3>2
  <2>2. panel' \in {"on", "darkening", "dark"} /\ resting' \in BOOLEAN /\ panelWake' \in BOOLEAN
    BY <1>8 DEF SeatTick, BlankPanel, SwitchesTyped
  <2>3. /\ tickDue' = FALSE /\ seatAt' = seatAt
        /\ lockStep' = (lockStep \/ LockDue) /\ blanked' = (blanked \/ BlankDue)
    BY <1>8 DEF SeatTick
  <2>4. lockStep' \in BOOLEAN /\ blanked' \in BOOLEAN
    BY <2>3
  <2> QED BY <2>1, <2>2, <2>3, <2>4 DEF SwitchesTyped
<1>9. CASE Second
  BY <1>9 DEF Second, SwitchesTyped
<1>10. CASE Leave \/ ComeBack \/ SleepEnded
  BY <1>10 DEF Leave, ComeBack, SleepEnded, NoteInput, Touched, SwitchesTyped
<1>11. CASE FrameTick
  BY <1>11 DEF FrameTick, SwitchesTyped
<1>12. CASE UNCHANGED seatClockVars
  BY <1>12 DEF seatClockVars, SwitchesTyped
<1> QED BY <1>1, <1>2, <1>3, <1>4, <1>5, <1>6, <1>7, <1>8, <1>9, <1>10, <1>11, <1>12 DEF SeatClockNext

\* SeatClock's part.
ClockInv == QuietHolds /\ PaceHolds /\ SwitchesTyped

LEMMA ClockInvInit == SeatClockInit => ClockInv
  BY QuietInit, PaceInit, SwitchesInit DEF ClockInv

LEMMA ClockInvStep == ClockInv /\ [SeatClockNext]_seatClockVars => ClockInv'
  BY QuietStep, PaceStep, SwitchesStep DEF ClockInv

LEMMA ClockInvTyped == ClockInv => SeatClockTypeOK
<1> SUFFICES ASSUME ClockInv PROVE SeatClockTypeOK
  OBVIOUS
<1>1. inhibitors \in Nat
  BY SurfacesAreFinite DEF ClockInv, QuietHolds
<1> QED BY <1>1 DEF ClockInv, QuietHolds, PaceHolds, PaceTyped, SwitchesTyped, SeatClockTypeOK

-----------------------------------------------------------------------------
(* Notes.                                                                  *)

Line == [kind : {"note", "close"}, note : Note]
Word == {Closed(n) : n \in Note} \cup {Restart}

NotesShape ==
    /\ children \in 1..MaxChildren /\ numbered \in 0..MaxNotes
    /\ lines \in Seq(Line) /\ shelf \in Seq(Note) /\ ctl \in Seq(Word)
    /\ drawn \subseteq Note

\* The queue is in the order of the children, and what reached the shelf from
\* this child left nothing of an earlier one behind it in the queue.
LinesInOrder ==
    /\ \A i \in 1..Len(lines) : lines[i].note.born <= children
    /\ \A i, j \in 1..Len(lines) : i <= j => lines[i].note.born <= lines[j].note.born
    /\ \A n \in drawn : n.born = children
    /\ drawn # {} => \A i \in 1..Len(lines) : lines[i].note.born = children

NotesInv == NotesShape /\ LinesInOrder /\ GoneIsTold

\* What a list still has, or has from now on.
Has(s, x) == \E i \in DOMAIN s : s[i] = x

LEMMA HasIsInSet == ASSUME NEW S, NEW s \in Seq(S), NEW x PROVE Has(s, x) <=> x \in ToSet(s)
BY DEF Has, ToSet

LEMMA NoteTyped == ASSUME NEW n \in Note PROVE n.id \in 1..MaxNotes /\ n.born \in 1..MaxChildren
BY DEF Note

LEMMA LineTyped ==
    ASSUME NEW l \in Line
    PROVE  l.note \in Note /\ l.note.born \in 1..MaxChildren /\ l.note.born \in Nat
<1>1. l.note \in Note
  BY DEF Line
<1> QED BY <1>1, NoteTyped, NotesAssumption

LEMMA NoteEqual == ASSUME NEW n \in Note, NEW m \in Note, n.id = m.id, n.born = m.born PROVE n = m
BY DEF Note

\* The seat asks for the end of notes to be told.
LEMMA TellTyped ==
    ASSUME NotesShape, NEW notes \in Seq(Note), Tell(notes)
    PROVE  /\ ctl' \in Seq(Word)
           /\ Enabled => \A x : Has(ctl, x) \/ (\E i \in DOMAIN notes : x = Closed(notes[i])) => Has(ctl', x)
<1> DEFINE asks == [i \in DOMAIN notes |-> Closed(notes[i])]
<1>1. asks \in Seq(Word) /\ Len(asks) = Len(notes) /\ \A i \in 1..Len(notes) : asks[i] = Closed(notes[i])
  BY DEF Word
<1>2. ctl \in Seq(Word)
  BY DEF NotesShape
<1>3. CASE ~Enabled
  BY <1>2, <1>3 DEF Tell
<1>4. CASE Enabled
  <2>1. ctl' = ctl \o asks
    BY <1>4 DEF Tell
  <2> HIDE DEF asks
  <2>2. /\ ctl \o asks \in Seq(Word)
        /\ \A i \in 1..Len(ctl) : i \in DOMAIN (ctl \o asks) /\ (ctl \o asks)[i] = ctl[i]
        /\ \A i \in 1..Len(asks) : Len(ctl) + i \in DOMAIN (ctl \o asks) /\ (ctl \o asks)[Len(ctl) + i] = asks[i]
    BY <1>1, <1>2
  <2>3. \A x : Has(ctl, x) => Has(ctl', x)
    BY <1>2, <2>1, <2>2 DEF Has
  <2>4. ASSUME NEW i \in DOMAIN notes PROVE Has(ctl', Closed(notes[i]))
    <3>1. i \in 1..Len(notes) /\ i \in 1..Len(asks) /\ asks[i] = Closed(notes[i])
      BY <1>1
    <3> QED BY <3>1, <2>1, <2>2 DEF Has
  <2> QED BY <2>1, <2>2, <2>3, <2>4
<1> QED BY <1>3, <1>4

LEMMA TailHas ==
    ASSUME NEW S, NEW s \in Seq(S), s # <<>>, NEW x, Has(s, x), x # Head(s)
    PROVE  Has(Tail(s), x)
<1>1. PICK i \in 1..Len(s) : s[i] = x
  BY DEF Has
<1>2. i # 1 /\ i - 1 \in DOMAIN Tail(s) /\ Tail(s)[i - 1] = x
  BY <1>1
<1> QED BY <1>2 DEF Has

\* GoneIsTold, of one note.
Kept(n) == n \in told \/ Has(shelf, n) \/ Has(ctl, Closed(n))

LEMMA KeptIsTold == GoneIsTold <=> (child = "up" => \A n \in drawn : Kept(n))
BY DEF GoneIsTold, Kept, Has

\* Nothing is left to show for a child that starts.
LEMMA StartKeeps ==
    ASSUME NotesInv, StartChild, UNCHANGED lines, shelf' \in Seq(Note), ctl' \in Seq(Word)
    PROVE  NotesInv'
<1>1. children' = children + 1 /\ children' \in 1..MaxChildren /\ drawn' = {} /\ numbered' = 0
  BY NotesAssumption DEF StartChild, NotesInv, NotesShape
<1>2. NotesShape'
  BY <1>1, NotesAssumption DEF NotesInv, NotesShape
<1>3. LinesInOrder'
  <2>1. \A i \in 1..Len(lines) : lines[i].note.born \in 1..MaxChildren
    <3>1. \A i \in 1..Len(lines) : lines[i] \in Line
      BY DEF NotesInv, NotesShape
    <3> QED BY <3>1, LineTyped
  <2> QED BY <1>1, <2>1 DEF NotesInv, NotesShape, LinesInOrder
<1>4. GoneIsTold'
  BY <1>1 DEF GoneIsTold
<1> QED BY <1>2, <1>3, <1>4 DEF NotesInv

\* The child writes a line.
LEMMA WriteKeeps ==
    ASSUME NotesInv, NEW id \in 1..MaxNotes,
           CloseCall(id) \/ \E dropped \in BOOLEAN : Notify(id, dropped)
    PROVE  NotesInv'
<1>1. UNCHANGED <<child, children, shelf, ctl, told, drawn>> /\ numbered' \in 0..MaxNotes
  BY DEF CloseCall, Notify, NotesInv, NotesShape
<1>2. \/ lines' = lines
      \/ \E l \in Line : l.note.born = children /\ lines' = Append(lines, l)
  <2>1. [id |-> id, born |-> children] \in Note
    BY DEF NotesInv, NotesShape, Note
  <2> QED BY <2>1 DEF CloseCall, Notify, Line
<1>3. NotesShape' /\ LinesInOrder'
  <2>1. CASE lines' = lines
    BY <1>1, <2>1 DEF NotesInv, NotesShape, LinesInOrder
  <2>2. ASSUME NEW l \in Line, l.note.born = children, lines' = Append(lines, l)
        PROVE  NotesShape' /\ LinesInOrder'
    <3>1. /\ lines' \in Seq(Line) /\ Len(lines') = Len(lines) + 1
          /\ \A i \in 1..Len(lines) : lines'[i] = lines[i]
          /\ lines'[Len(lines) + 1] = l
      BY <2>2 DEF NotesInv, NotesShape
    <3>2. NotesShape'
      BY <1>1, <3>1 DEF NotesInv, NotesShape
    <3>3. \A i \in 1..Len(lines) : lines[i].note.born \in Nat /\ lines[i].note.born <= children
      <4>1. \A i \in 1..Len(lines) : lines[i] \in Line
        BY DEF NotesInv, NotesShape
      <4> QED BY <4>1, LineTyped DEF NotesInv, LinesInOrder
    <3>4. \A i \in 1..(Len(lines) + 1) : i \in 1..Len(lines) \/ i = Len(lines) + 1
      BY DEF NotesInv, NotesShape
    <3>5. \A i \in 1..Len(lines') : lines'[i].note.born <= children'
      BY <1>1, <2>2, <3>1, <3>3, <3>4 DEF NotesInv, NotesShape
    <3>6. \A i, j \in 1..Len(lines') : i <= j => lines'[i].note.born <= lines'[j].note.born
      <4> SUFFICES ASSUME NEW i \in 1..Len(lines'), NEW j \in 1..Len(lines'), i <= j
                   PROVE  lines'[i].note.born <= lines'[j].note.born
        OBVIOUS
      <4>1. CASE j = Len(lines) + 1
        BY <1>1, <2>2, <3>1, <3>5, <4>1
      <4>2. CASE j # Len(lines) + 1
        <5>1. i \in 1..Len(lines) /\ j \in 1..Len(lines)
          BY <3>1, <4>2 DEF NotesInv, NotesShape
        <5> QED BY <3>1, <5>1 DEF NotesInv, LinesInOrder
      <4> QED BY <4>1, <4>2
    <3>7. drawn' # {} => \A i \in 1..Len(lines') : lines'[i].note.born = children'
      BY <1>1, <2>2, <3>1, <3>4 DEF NotesInv, LinesInOrder
    <3>8. \A n \in drawn' : n.born = children'
      BY <1>1 DEF NotesInv, LinesInOrder
    <3> QED BY <3>2, <3>5, <3>6, <3>7, <3>8 DEF LinesInOrder
  <2> QED BY <1>2, <2>1, <2>2
<1>4. GoneIsTold'
  BY <1>1 DEF NotesInv, GoneIsTold
<1> QED BY <1>3, <1>4 DEF NotesInv

\* Reading a line leaves the rest in order.
LEMMA ReadTyped ==
    ASSUME NotesInv, lines # <<>>, lines' = Tail(lines)
    PROVE  /\ Head(lines) \in Line /\ Head(lines).note \in Note
           /\ lines' \in Seq(Line) /\ Len(lines') = Len(lines) - 1
           /\ \A i \in 1..Len(lines') : i + 1 \in 1..Len(lines) /\ lines'[i] = lines[i + 1]
           /\ \A i \in 1..Len(lines') : /\ lines'[i].note.born <= children
                                        /\ Head(lines).note.born <= lines'[i].note.born
           /\ \A i, j \in 1..Len(lines') : i <= j => lines'[i].note.born <= lines'[j].note.born
           /\ drawn # {} => /\ Head(lines).note.born = children
                            /\ \A i \in 1..Len(lines') : lines'[i].note.born = children
<1>1. /\ lines \in Seq(Line) /\ 1 \in 1..Len(lines) /\ Head(lines) = lines[1]
      /\ Head(lines) \in Line
  BY DEF NotesInv, NotesShape
<1>2. Head(lines).note \in Note
  BY <1>1 DEF Line
<1>3. /\ lines' \in Seq(Line) /\ Len(lines') = Len(lines) - 1
      /\ \A i \in 1..Len(lines') : i + 1 \in 1..Len(lines) /\ lines'[i] = lines[i + 1]
  BY <1>1
<1>4. \A i \in 1..Len(lines') : /\ lines'[i].note.born <= children
                                /\ Head(lines).note.born <= lines'[i].note.born
  BY <1>1, <1>3 DEF NotesInv, LinesInOrder
<1>5. \A i, j \in 1..Len(lines') : i <= j => lines'[i].note.born <= lines'[j].note.born
  BY <1>3 DEF NotesInv, LinesInOrder
<1>6. drawn # {} => /\ Head(lines).note.born = children
                    /\ \A i \in 1..Len(lines') : lines'[i].note.born = children
  BY <1>1, <1>3 DEF NotesInv, LinesInOrder
<1> QED BY <1>1, <1>2, <1>3, <1>4, <1>5, <1>6

\* A note that is on the shelf stays there, unless it is dropped by its number.
LEMMA SiftHas ==
    ASSUME NEW S, NEW s \in Seq(S), NEW keep, NEW x
    PROVE  Has(Sift(s, keep), x) <=> Has(s, x) /\ x \in keep
<1>1. ToSet(Sift(s, keep)) = ToSet(s) \cap keep /\ Sift(s, keep) \in Seq(S)
  BY SiftElements, SiftTyped
<1> QED BY <1>1, HasIsInSet

LEMMA NoteLineKeeps == ASSUME NotesInv, NoteLine PROVE NotesInv'
<1> DEFINE n == Head(lines).note
<1>1. lines # <<>> /\ lines' = Tail(lines)
  BY DEF NoteLine
<1>2. /\ shelf' = Append(Sift(shelf, Others({n.id})), n) /\ told' = told \ {n}
      /\ drawn' = drawn \cup ({n} \cap {m \in Note : m.born = children})
      /\ UNCHANGED <<child, children, numbered, ctl>>
  BY DEF NoteLine, Add, Without
<1>3. /\ n \in Note /\ lines' \in Seq(Line)
      /\ \A i \in 1..Len(lines') : lines'[i].note.born <= children /\ n.born <= lines'[i].note.born
      /\ \A i, j \in 1..Len(lines') : i <= j => lines'[i].note.born <= lines'[j].note.born
      /\ drawn # {} => n.born = children /\ \A i \in 1..Len(lines') : lines'[i].note.born = children
  BY <1>1, ReadTyped
<1> HIDE DEF n
<1> DEFINE rest == Sift(shelf, Others({n.id}))
<1>4. rest \in Seq(Note) /\ shelf \in Seq(Note)
  BY SiftTyped DEF NotesInv, NotesShape
<1>5. \A x : Has(rest, x) <=> Has(shelf, x) /\ x \in Others({n.id})
  BY <1>4, SiftHas
<1> HIDE DEF rest
<1>6. shelf' \in Seq(Note) /\ \A x : Has(rest, x) \/ x = n => Has(shelf', x)
  <2>1. shelf' = Append(rest, n)
    BY <1>2 DEF rest
  <2>2. /\ Append(rest, n) \in Seq(Note)
        /\ \A i \in 1..Len(rest) : i \in DOMAIN Append(rest, n) /\ Append(rest, n)[i] = rest[i]
        /\ Len(rest) + 1 \in DOMAIN Append(rest, n) /\ Append(rest, n)[Len(rest) + 1] = n
    BY <1>3, <1>4
  <2> QED BY <1>4, <2>1, <2>2 DEF Has
<1>7. NotesShape'
  BY <1>2, <1>3, <1>6 DEF NotesInv, NotesShape
<1>8. LinesInOrder'
  <2>1. \A i \in 1..Len(lines') : lines'[i].note.born \in Nat
    BY <1>3, LineTyped
  <2>2. n.born \in Nat /\ children \in Nat
    BY <1>3 DEF Note, NotesInv, NotesShape
  <2>3. \A m \in drawn' : m.born = children
    BY <1>2 DEF NotesInv, LinesInOrder
  <2>4. drawn' # {} => \A i \in 1..Len(lines') : lines'[i].note.born = children
    BY <1>2, <1>3, <2>1, <2>2
  <2> QED BY <1>2, <1>3, <2>3, <2>4 DEF LinesInOrder
<1>9. ASSUME child' = "up", NEW m \in drawn' PROVE Kept(m)'
  <2>1. CASE m = n
    BY <1>6, <2>1 DEF Kept, Has
  <2>2. CASE m # n
    <3>1. m \in drawn /\ m \in Note /\ m.born = children /\ n.born = children
      BY <1>2, <1>3, <1>9, <2>2 DEF NotesInv, NotesShape, LinesInOrder
    <3>2. Kept(m)
      BY <1>2, <1>9, <3>1, KeptIsTold DEF NotesInv
    <3>3. m.id # n.id
      BY <1>3, <2>2, <3>1, NoteEqual
    <3>4. Has(shelf, m) => Has(shelf', m)
      BY <1>5, <1>6, <3>1, <3>3 DEF Others
    <3> QED BY <1>2, <2>2, <3>2, <3>4 DEF Kept, Has
  <2> QED BY <2>1, <2>2
<1>10. GoneIsTold'
  BY <1>9 DEF GoneIsTold, Kept, Has
<1> QED BY <1>7, <1>8, <1>10 DEF NotesInv

\* A note leaves the shelf, and the seat asks for its end to be told.
LEMMA LeaveKeeps ==
    ASSUME NotesInv, NEW gone \in Seq(Note), Tell(gone), shelf' \in Seq(Note),
           UNCHANGED <<child, children, numbered, told, drawn>>,
           lines' \in Seq(Line), LinesInOrder',
           \A m \in drawn : Has(shelf, m) => Has(shelf', m) \/ \E i \in DOMAIN gone : gone[i] = m
    PROVE  NotesInv'
<1>1. ctl' \in Seq(Word)
      /\ (Enabled => \A x : Has(ctl, x) \/ (\E i \in DOMAIN gone : x = Closed(gone[i])) => Has(ctl', x))
  BY TellTyped DEF NotesInv
<1>2. NotesShape'
  BY <1>1 DEF NotesInv, NotesShape
<1>3. ASSUME child' = "up", NEW m \in drawn' PROVE Kept(m)'
  <2>1. Enabled /\ child = "up" /\ m \in drawn
    BY <1>3 DEF Enabled
  <2>2. Kept(m)
    BY <2>1, KeptIsTold DEF NotesInv
  <2> QED BY <1>1, <2>1, <2>2 DEF Kept, Has
<1>4. GoneIsTold'
  BY <1>3 DEF GoneIsTold, Kept, Has
<1> QED BY <1>2, <1>4 DEF NotesInv

LEMMA CloseLineKeeps == ASSUME NotesInv, CloseLine PROVE NotesInv'
<1> DEFINE n == Head(lines).note
           gone == <<n>>
<1>1. lines # <<>> /\ lines' = Tail(lines)
  BY DEF CloseLine
<1>2. /\ shelf' = Sift(shelf, Others({n.id})) /\ Tell(gone)
      /\ UNCHANGED <<child, children, numbered, told, drawn>>
  BY DEF CloseLine, Without
<1>3. /\ n \in Note /\ lines' \in Seq(Line)
      /\ \A i \in 1..Len(lines') : lines'[i].note.born <= children /\ n.born <= lines'[i].note.born
      /\ \A i, j \in 1..Len(lines') : i <= j => lines'[i].note.born <= lines'[j].note.born
      /\ drawn # {} => n.born = children /\ \A i \in 1..Len(lines') : lines'[i].note.born = children
  BY <1>1, ReadTyped
<1>4. LinesInOrder'
  BY <1>2, <1>3 DEF NotesInv, LinesInOrder
<1>5. gone \in Seq(Note) /\ 1 \in DOMAIN gone /\ gone[1] = n
  BY <1>3
<1> HIDE DEF n, gone
<1>6. shelf' \in Seq(Note) /\ \A x : Has(shelf', x) <=> Has(shelf, x) /\ x \in Others({n.id})
  BY <1>2, SiftHas, SiftTyped DEF NotesInv, NotesShape
<1>7. ASSUME NEW m \in drawn, Has(shelf, m)
      PROVE  Has(shelf', m) \/ \E i \in DOMAIN gone : gone[i] = m
  <2>1. m \in Note /\ m.born = children /\ n.born = children
    BY <1>3 DEF NotesInv, NotesShape, LinesInOrder
  <2>2. CASE m = n
    BY <1>5, <2>2
  <2>3. CASE m # n
    BY <1>3, <1>6, <1>7, <2>1, <2>3, NoteEqual DEF Others
  <2> QED BY <2>2, <2>3
<1> QED BY <1>2, <1>3, <1>4, <1>5, <1>6, <1>7, LeaveKeeps

LEMMA ExpireKeeps == ASSUME NotesInv, NEW ids, ExpireNotes(ids) PROVE NotesInv'
<1> DEFINE gone == Sift(shelf, Note \ Others(ids))
<1>1. /\ shelf' = Sift(shelf, Others(ids)) /\ Tell(gone)
      /\ UNCHANGED <<child, children, numbered, lines, told, drawn>>
  BY DEF ExpireNotes
<1>2. shelf \in Seq(Note)
  BY DEF NotesInv, NotesShape
<1>3. gone \in Seq(Note) /\ \A x : Has(gone, x) <=> Has(shelf, x) /\ x \in Note \ Others(ids)
  BY <1>2, SiftHas, SiftTyped
<1>4. shelf' \in Seq(Note) /\ \A x : Has(shelf', x) <=> Has(shelf, x) /\ x \in Others(ids)
  BY <1>1, <1>2, SiftHas, SiftTyped
<1> HIDE DEF gone
<1>5. lines' \in Seq(Line) /\ LinesInOrder'
  BY <1>1 DEF NotesInv, NotesShape, LinesInOrder
<1>6. \A m \in drawn : Has(shelf, m) => Has(shelf', m) \/ \E i \in DOMAIN gone : gone[i] = m
  BY <1>3, <1>4 DEF NotesInv, NotesShape, Has
<1> QED BY <1>1, <1>3, <1>4, <1>5, <1>6, LeaveKeeps

LEMMA DismissKeeps == ASSUME NotesInv, DismissNote PROVE NotesInv'
<1> DEFINE gone == <<Last(shelf)>>
<1>1. /\ shelf # <<>> /\ shelf' = Front(shelf) /\ Tell(gone)
      /\ UNCHANGED <<child, children, numbered, lines, told, drawn>>
  BY DEF DismissNote
<1>2. shelf \in Seq(Note) /\ Len(shelf) \in Nat /\ Len(shelf) # 0
  BY <1>1 DEF NotesInv, NotesShape
<1>3. gone \in Seq(Note) /\ 1 \in DOMAIN gone /\ gone[1] = shelf[Len(shelf)]
  BY <1>2 DEF Last
<1>4. /\ shelf' \in Seq(Note)
      /\ \A i \in 1..Len(shelf) : i # Len(shelf) => i \in DOMAIN shelf' /\ shelf'[i] = shelf[i]
  BY <1>1, <1>2 DEF Front
<1> HIDE DEF gone
<1>5. \A m \in drawn : Has(shelf, m) => Has(shelf', m) \/ \E i \in DOMAIN gone : gone[i] = m
  BY <1>2, <1>3, <1>4 DEF Has
<1>6. lines' \in Seq(Line) /\ LinesInOrder'
  BY <1>1 DEF NotesInv, NotesShape, LinesInOrder
<1> QED BY <1>1, <1>3, <1>4, <1>5, <1>6, LeaveKeeps

LEMMA AdoptKeeps == ASSUME NotesInv, NEW enabled \in BOOLEAN, AdoptNotes(enabled) PROVE NotesInv'
<1>1. UNCHANGED <<lines, shelf>>
  BY DEF AdoptNotes
<1>2. CASE child' = "none" /\ ctl' = <<>> /\ UNCHANGED <<children, numbered, told, drawn>>
  BY <1>1, <1>2 DEF NotesInv, NotesShape, LinesInOrder, GoneIsTold
<1>3. CASE ctl' = Append(ctl, Restart) /\ UNCHANGED <<child, children, numbered, told, drawn>>
  <2>1. ctl' \in Seq(Word) /\ \A i \in DOMAIN ctl : i \in DOMAIN ctl' /\ ctl'[i] = ctl[i]
    BY <1>3 DEF NotesInv, NotesShape, Word
  <2> QED BY <1>1, <1>3, <2>1 DEF NotesInv, NotesShape, LinesInOrder, GoneIsTold
<1>4. CASE StartChild /\ UNCHANGED ctl
  BY <1>1, <1>4, StartKeeps DEF NotesInv, NotesShape
<1> QED BY <1>2, <1>3, <1>4 DEF AdoptNotes

LEMMA TakeKeeps == ASSUME NotesInv, TakeClosed PROVE NotesInv'
<1>1. /\ ctl # <<>> /\ Head(ctl).kind = "closed" /\ ctl' = Tail(ctl)
      /\ told' = IF child = "up" /\ Head(ctl).note \in drawn THEN told \cup {Head(ctl).note} ELSE told
      /\ UNCHANGED <<child, children, numbered, lines, shelf, drawn>>
  BY DEF TakeClosed
<1>2. ctl \in Seq(Word) /\ ctl' \in Seq(Word)
  BY <1>1 DEF NotesInv, NotesShape
<1>3. NotesShape' /\ LinesInOrder'
  BY <1>1, <1>2 DEF NotesInv, NotesShape, LinesInOrder
<1>4. ASSUME child' = "up", NEW m \in drawn' PROVE Kept(m)'
  <2>1. Kept(m) /\ child = "up" /\ m \in drawn
    BY <1>1, <1>4, KeptIsTold DEF NotesInv
  <2>2. CASE Head(ctl) = Closed(m)
    BY <1>1, <2>1, <2>2 DEF Kept, Closed
  <2>3. CASE Head(ctl) # Closed(m)
    <3>1. Has(ctl, Closed(m)) => Has(ctl', Closed(m))
      BY <1>1, <1>2, <2>3, TailHas
    <3>2. m \in told => m \in told'
      BY <1>1
    <3> QED BY <1>1, <2>1, <3>1, <3>2 DEF Kept, Has
  <2> QED BY <2>2, <2>3
<1>5. GoneIsTold'
  BY <1>4 DEF GoneIsTold, Kept, Has
<1> QED BY <1>3, <1>5 DEF NotesInv

\* Every step keeps the invariant.
LEMMA InitNotesInv == NotesInit => NotesInv
  BY NotesAssumption DEF NotesInit, NotesInv, NotesShape, LinesInOrder, GoneIsTold

LEMMA NextNotesInv == NotesInv /\ [NotesNext]_notesVars => NotesInv'
<1> SUFFICES ASSUME NotesInv, [NotesNext]_notesVars PROVE NotesInv'
  OBVIOUS
<1>1. ASSUME NEW id \in 1..MaxNotes,
             CloseCall(id) \/ \E dropped \in BOOLEAN : Notify(id, dropped)
      PROVE  NotesInv'
  BY <1>1, WriteKeeps
<1>2. CASE ChildDies \/ NoticeDeath \/ UNCHANGED notesVars
  BY <1>2 DEF ChildDies, NoticeDeath, notesVars, NotesInv, NotesShape, LinesInOrder, GoneIsTold
<1>3. CASE NoteLine
  BY <1>3, NoteLineKeeps
<1>4. CASE CloseLine
  BY <1>4, CloseLineKeeps
<1>5. CASE DismissNote
  BY <1>5, DismissKeeps
<1>6. ASSUME NEW ids, ExpireNotes(ids) PROVE NotesInv'
  BY <1>6, ExpireKeeps
<1>7. ASSUME NEW enabled \in BOOLEAN, AdoptNotes(enabled) PROVE NotesInv'
  BY <1>7, AdoptKeeps
<1>8. CASE TakeClosed
  BY <1>8, TakeKeeps
<1>9. CASE TakeRestart \/ WaitEnds
  <2>1. /\ StartChild /\ UNCHANGED <<lines, shelf>>
        /\ (ctl' = ctl \/ (ctl # <<>> /\ ctl' = Tail(ctl)))
    BY <1>9 DEF TakeRestart, WaitEnds
  <2>2. ctl' \in Seq(Word) /\ shelf' \in Seq(Note)
    <3>1. ctl \in Seq(Word) /\ shelf \in Seq(Note)
      BY DEF NotesInv, NotesShape
    <3>2. ctl # <<>> => Tail(ctl) \in Seq(Word)
      BY <3>1
    <3> QED BY <2>1, <3>1, <3>2
  <2> QED BY <2>1, <2>2, StartKeeps
<1> QED BY <1>1, <1>2, <1>3, <1>4, <1>5, <1>6, <1>7, <1>8, <1>9 DEF NotesNext

\* While the child that numbered a note lives, a note that was drawn is on the
\* shelf, or its end has been told, or is on its way to be (shirase.rs).
THEOREM GoneIsAlwaysTold == NotesSpec => []GoneIsTold
<1>1. NotesInv => GoneIsTold
  BY DEF NotesInv
<1> QED BY <1>1, InitNotesInv, NextNotesInv, PTL DEF NotesSpec

-----------------------------------------------------------------------------
\* What of the types the invariant of the notes does not say.
ChildTyped == child \in {"none", "up", "dead", "waiting"} /\ told \subseteq Note

LEMMA ChildInit == NotesInit => ChildTyped
  BY DEF NotesInit, ChildTyped

LEMMA ChildStep == NotesInv /\ ChildTyped /\ [NotesNext]_notesVars => ChildTyped'
<1> SUFFICES ASSUME NotesInv, ChildTyped, [NotesNext]_notesVars PROVE ChildTyped'
  OBVIOUS
<1>1. drawn \subseteq Note
  BY DEF NotesInv, NotesShape
<1>2. CASE (\E id \in 1..MaxNotes : CloseCall(id) \/ (\E dropped \in BOOLEAN : Notify(id, dropped)))
           \/ ChildDies \/ NoticeDeath \/ UNCHANGED notesVars
  BY <1>2 DEF CloseCall, Notify, ChildDies, NoticeDeath, notesVars, ChildTyped
<1>3. CASE NoteLine \/ CloseLine \/ DismissNote \/ \E ids \in SUBSET {shelf[i].id: i \in DOMAIN shelf} : ExpireNotes(ids)
  BY <1>3 DEF NoteLine, CloseLine, DismissNote, ExpireNotes, ChildTyped
<1>4. CASE \E enabled \in BOOLEAN : AdoptNotes(enabled)
  BY <1>4 DEF AdoptNotes, StartChild, ChildTyped
<1>5. CASE TakeClosed
  BY <1>1, <1>5 DEF TakeClosed, ChildTyped
<1>6. CASE TakeRestart \/ WaitEnds
  BY <1>6 DEF TakeRestart, WaitEnds, StartChild, ChildTyped
<1> QED BY <1>2, <1>3, <1>4, <1>5, <1>6 DEF NotesNext

\* Notes' part.
LEMMA NotesTyped == NotesInv /\ ChildTyped => NotesTypeOK
<1> SUFFICES ASSUME NotesInv, ChildTyped PROVE NotesTypeOK
  OBVIOUS
<1>1. lines \in Seq(Line) /\ ctl \in Seq(Word)
  BY DEF NotesInv, NotesShape
<1>2. \A i \in DOMAIN lines : lines[i] \in Line
  BY <1>1
<1>3. \A l \in Line : l.kind \in {"note", "close"} /\ l.note \in Note
  BY DEF Line
<1>4. \A i \in DOMAIN ctl : ctl[i] \in Word
  BY <1>1
<1>5. \A w \in Word : w.kind \in {"closed", "restart"}
  BY DEF Word, Closed, Restart
<1> QED BY <1>2, <1>3, <1>4, <1>5 DEF NotesInv, NotesShape, ChildTyped, NotesTypeOK

-----------------------------------------------------------------------------
(* InputDevices.                                                           *)

Device == [node : Node, fd : Fd, armed : BOOLEAN, polled : BOOLEAN]
Uevent == [add : BOOLEAN, node : Node]

\* The monitor still has to say that n is there.
Announced(n) == \E i \in 1..Len(uevents) : uevents[i].add = TRUE /\ uevents[i].node = n
Opened(n) == \E e \in devices : e.node = n

DevicesShape ==
    /\ devices \subseteq Device /\ uevents \in Seq(Uevent)
    /\ plugged \subseteq Node /\ unread \subseteq Node
    /\ phase \in {"new", "bound", "enumerating", "running"}

\* A node that is there is open, or will be: from the directory, or from what
\* the monitor has to say.
EachIsReached ==
    /\ phase = "new" => uevents = <<>>
    /\ phase \in {"new", "bound"} => devices = {}
    /\ phase = "enumerating" => \A n \in plugged \cap Usable : n \in unread \/ Opened(n) \/ Announced(n)
    /\ phase = "running" => \A n \in plugged \cap Usable : Opened(n) \/ Announced(n)

\* A removal that is not read yet and was overtaken by the node's return has
\* that return behind it.
ReturnsFollow ==
    \A i \in 1..Len(uevents) : uevents[i].add = FALSE /\ uevents[i].node \in plugged =>
        \E j \in 1..Len(uevents) : i < j /\ uevents[j].add = TRUE /\ uevents[j].node = uevents[i].node

\* Nothing is opened twice.
OneEach ==
    /\ \A d, e \in devices : d.node = e.node => d = e
    /\ phase = "enumerating" => \A e \in devices : e.node \notin unread

\* What is in the poll set is marked as polled by its owner.
WatchedIsPolled ==
    \A f \in watched : \/ \E e \in devices : e.fd = f /\ e.polled = TRUE
                       \/ \E g \in graveyard : g.fd = f /\ g.polled = TRUE

DevicesInv == DevicesShape /\ EachIsReached /\ ReturnsFollow /\ OneEach /\ WatchedIsPolled

LEMMA LowestIsFree == ASSUME FreeFds # {} PROVE LowestFree \in FreeFds /\ LowestFree \in Fd
<1>1. FreeFds \in SUBSET Nat /\ FreeFds \subseteq Fd
  BY DEF FreeFds, Fd
<1>2. \E f \in FreeFds : \A g \in FreeFds : ~(g < f)
  BY <1>1, SmallestOf
<1>3. \E f \in FreeFds : \A g \in FreeFds : f <= g
  BY <1>1, <1>2
<1> QED BY <1>1, <1>3 DEF LowestFree

\* Steps that leave the devices, the monitor and the plugs alone.
LEMMA DevicesAlone ==
    ASSUME DevicesInv, UNCHANGED <<devices, graveyard, plugged, unread, uevents>>, watched' \subseteq watched,
           phase' = phase \/ (phase = "new" /\ phase' = "bound")
    PROVE  DevicesInv'
<1>1. DevicesShape' /\ ReturnsFollow' /\ WatchedIsPolled'
  BY DEF DevicesInv, DevicesShape, ReturnsFollow, WatchedIsPolled
<1>2. EachIsReached' /\ OneEach'
  BY DEF DevicesInv, EachIsReached, OneEach, Opened, Announced
<1> QED BY <1>1, <1>2 DEF DevicesInv

\* Opening a node that is not open.
LEMMA OpenTyped ==
    ASSUME DevicesInv, NEW n \in Node, OpenOne(n), ~Opened(n)
    PROVE  /\ devices \subseteq devices' /\ devices' \subseteq Device
           /\ \A d \in devices' : d \in devices \/ d.node = n
           /\ \A d, e \in devices' : d.node = e.node => d = e
           /\ n \in Usable => Opened(n)'
<1>1. CASE n \notin Usable
  BY <1>1 DEF OpenOne, DevicesInv, DevicesShape, OneEach
<1>2. CASE n \in Usable
  <2> DEFINE e == [node |-> n, fd |-> LowestFree, armed |-> TRUE, polled |-> FALSE]
  <2>1. devices' = devices \cup {e} /\ FreeFds # {}
    BY <1>2 DEF OpenOne
  <2>2. e \in Device /\ e.node = n
    BY <2>1, LowestIsFree DEF Device
  <2> HIDE DEF e
  <2>3. devices' \subseteq Device
    BY <2>1, <2>2 DEF DevicesInv, DevicesShape
  <2>4. \A d, x \in devices' : d.node = x.node => d = x
    BY <2>1, <2>2 DEF DevicesInv, OneEach, Opened
  <2> QED BY <2>1, <2>2, <2>3, <2>4 DEF Opened
<1> QED BY <1>1, <1>2

LEMMA EnumerateKeeps ==
    ASSUME DevicesInv, NEW n \in Node, OpenEnumerated(n)
    PROVE  DevicesInv'
<1>1. /\ phase = "enumerating" /\ n \in unread /\ unread' = unread \ {n}
      /\ UNCHANGED <<graveyard, plugged, watched, phase, uevents>>
      /\ IF n \in plugged THEN OpenOne(n) ELSE devices' = devices
  BY DEF OpenEnumerated, OpenFails
<1>2. ~Opened(n)
  BY <1>1 DEF DevicesInv, OneEach, Opened
<1>3. /\ devices \subseteq devices' /\ devices' \subseteq Device
      /\ \A d \in devices' : d \in devices \/ d.node = n
      /\ \A d, e \in devices' : d.node = e.node => d = e
      /\ n \in Usable /\ n \in plugged => Opened(n)'
  BY <1>1, <1>2, OpenTyped DEF DevicesInv, DevicesShape, OneEach
<1>4. DevicesShape' /\ ReturnsFollow' /\ WatchedIsPolled'
  BY <1>1, <1>3 DEF DevicesInv, DevicesShape, ReturnsFollow, WatchedIsPolled
<1>5. OneEach'
  BY <1>1, <1>3 DEF DevicesInv, OneEach
<1>6. EachIsReached'
  BY <1>1, <1>3 DEF DevicesInv, EachIsReached, Opened, Announced
<1> QED BY <1>4, <1>5, <1>6 DEF DevicesInv

\* A node comes or goes.
LEMMA PlugKeeps ==
    ASSUME DevicesInv, NEW n \in Node, Plug(n) \/ Unplug(n)
    PROVE  DevicesInv'
<1> DEFINE here == n \notin plugged
           u == [add |-> here, node |-> n]
<1>1. /\ plugged' = IF here THEN plugged \cup {n} ELSE plugged \ {n}
      /\ uevents' = IF phase # "new" THEN Append(uevents, u) ELSE uevents
      /\ UNCHANGED <<devices, graveyard, watched, phase, unread>>
  BY DEF Plug, Unplug, Report, Monitored, backendVars, startVars
<1>2. u \in Uevent /\ u.node = n /\ u.add = here /\ here \in BOOLEAN
  BY DEF Uevent
<1>3. uevents \in Seq(Uevent)
  BY DEF DevicesInv, DevicesShape
<1>4. CASE phase = "new"
  <2>1. uevents = <<>> /\ devices = {} /\ uevents' = <<>>
    BY <1>1, <1>4 DEF DevicesInv, EachIsReached
  <2>2. Len(uevents') = 0
    BY <2>1
  <2>3. plugged' \subseteq Node
    BY <1>1 DEF DevicesInv, DevicesShape
  <2> QED BY <1>1, <1>4, <2>1, <2>2, <2>3
          DEF DevicesInv, DevicesShape, WatchedIsPolled, OneEach, EachIsReached, ReturnsFollow
<1>5. CASE phase # "new"
  <2> HIDE DEF u, here
  <2>1. uevents' = Append(uevents, u) /\ uevents' \in Seq(Uevent) /\ Len(uevents') = Len(uevents) + 1
    BY <1>1, <1>2, <1>3, <1>5
  <2>2. Len(uevents) \in Nat
    BY <1>3
  <2>3. /\ \A i \in 1..Len(uevents) : i \in 1..Len(uevents') /\ i < Len(uevents') /\ uevents'[i] = uevents[i]
        /\ Len(uevents') \in 1..Len(uevents') /\ uevents'[Len(uevents')] = u
        /\ \A i \in 1..Len(uevents') : i \in 1..Len(uevents) \/ i = Len(uevents')
    BY <1>2, <1>3, <2>1, <2>2
  <2>4. plugged' \subseteq Node /\ DevicesShape'
    BY <1>1, <2>1 DEF DevicesInv, DevicesShape
  <2>5. ReturnsFollow'
    <3> SUFFICES ASSUME NEW i \in 1..Len(uevents'), uevents'[i].add = FALSE, uevents'[i].node \in plugged'
                 PROVE  \E j \in 1..Len(uevents') : i < j /\ uevents'[j].add = TRUE
                                                   /\ uevents'[j].node = uevents'[i].node
      BY DEF ReturnsFollow
    <3>1. CASE i = Len(uevents')
      <4>1. here = FALSE /\ n \in plugged'
        BY <1>2, <2>3, <3>1
      <4> QED BY <1>1, <4>1
    <3>2. CASE i \in 1..Len(uevents) /\ uevents[i].node = n
      <4>1. here = TRUE
        BY <1>1, <1>2, <2>3, <3>2
      <4> QED BY <1>2, <2>3, <3>2, <4>1
    <3>3. CASE i \in 1..Len(uevents) /\ uevents[i].node # n
      <4>1. uevents[i].add = FALSE /\ uevents[i].node \in plugged
        BY <1>1, <2>3, <3>3
      <4>2. \E j \in 1..Len(uevents) : i < j /\ uevents[j].add = TRUE /\ uevents[j].node = uevents[i].node
        BY <3>3, <4>1 DEF DevicesInv, ReturnsFollow
      <4> QED BY <2>3, <3>3, <4>2
    <3> QED BY <2>3, <3>1, <3>2, <3>3
  <2>6. EachIsReached'
    <3>1. \A m \in plugged' : m \in plugged \/ Announced(m)'
      BY <1>1, <1>2, <2>3 DEF Announced
    <3>2. \A m : Announced(m) => Announced(m)'
      BY <2>3 DEF Announced
    <3>3. \A m : Opened(m)' <=> Opened(m)
      BY <1>1 DEF Opened
    <3> QED BY <1>1, <1>5, <3>1, <3>2, <3>3 DEF DevicesInv, EachIsReached
  <2>7. WatchedIsPolled' /\ OneEach'
    BY <1>1 DEF DevicesInv, WatchedIsPolled, OneEach
  <2> QED BY <2>4, <2>5, <2>6, <2>7 DEF DevicesInv
<1> QED BY <1>4, <1>5

\* The directory is read.
LEMMA ReadKeeps ==
    ASSUME DevicesInv, ReadDirectory
    PROVE  DevicesInv'
<1>1. /\ phase = "bound" /\ phase' = "enumerating" /\ unread' = plugged /\ devices = {}
      /\ UNCHANGED <<devices, graveyard, plugged, watched, uevents>>
  BY DEF ReadDirectory, backendVars, kernelVars, DevicesInv, EachIsReached
<1> QED BY <1>1 DEF DevicesInv, DevicesShape, ReturnsFollow, WatchedIsPolled, OneEach, EachIsReached

\* What the monitor says next has been read.
LEMMA TailRead ==
    ASSUME DevicesInv, uevents # <<>>, uevents' = Tail(uevents), plugged' = plugged
    PROVE  /\ uevents' \in Seq(Uevent) /\ ReturnsFollow'
           /\ Head(uevents) \in Uevent
           /\ \A m : Announced(m) => Announced(m)' \/ (m = Head(uevents).node /\ Head(uevents).add = TRUE)
           /\ Head(uevents).add = FALSE =>
                 \A m \in plugged : m = Head(uevents).node => Announced(m)'
<1>1. uevents \in Seq(Uevent)
  BY DEF DevicesInv, DevicesShape
<1>2. /\ uevents' \in Seq(Uevent) /\ Len(uevents) \in Nat \ {0} /\ Len(uevents') = Len(uevents) - 1
      /\ Head(uevents) = uevents[1] /\ 1 \in 1..Len(uevents)
      /\ \A i \in 1..Len(uevents') : i + 1 \in 1..Len(uevents) /\ uevents'[i] = uevents[i + 1]
      /\ Head(uevents) \in Uevent
  BY <1>1
<1>3. \A j \in 1..Len(uevents) : 1 < j => j - 1 \in 1..Len(uevents') /\ uevents'[j - 1] = uevents[j]
  BY <1>1, <1>2
<1>4. ReturnsFollow'
  <2> SUFFICES ASSUME NEW i \in 1..Len(uevents'), uevents'[i].add = FALSE, uevents'[i].node \in plugged'
               PROVE  \E j \in 1..Len(uevents') : i < j /\ uevents'[j].add = TRUE
                                                 /\ uevents'[j].node = uevents'[i].node
    BY DEF ReturnsFollow
  <2>1. i + 1 \in 1..Len(uevents) /\ uevents[i + 1] = uevents'[i]
    BY <1>2
  <2>2. PICK j \in 1..Len(uevents) : i + 1 < j /\ uevents[j].add = TRUE /\ uevents[j].node = uevents'[i].node
    BY <2>1 DEF DevicesInv, ReturnsFollow
  <2>3. j - 1 \in 1..Len(uevents') /\ uevents'[j - 1] = uevents[j] /\ i < j - 1
    BY <1>3, <2>2
  <2> QED BY <2>2, <2>3
<1>5. ASSUME NEW m, Announced(m)
      PROVE  Announced(m)' \/ (m = Head(uevents).node /\ Head(uevents).add = TRUE)
  <2>1. PICK j \in 1..Len(uevents) : uevents[j].add = TRUE /\ uevents[j].node = m
    BY <1>5 DEF Announced
  <2>2. CASE j = 1
    BY <1>2, <2>1, <2>2
  <2>3. CASE 1 < j
    <3>1. j - 1 \in 1..Len(uevents') /\ uevents'[j - 1].add = TRUE /\ uevents'[j - 1].node = m
      BY <1>3, <2>1, <2>3
    <3> QED BY <3>1 DEF Announced
  <2>4. j = 1 \/ 1 < j
    BY <1>2
  <2> QED BY <2>2, <2>3, <2>4
<1>6. ASSUME Head(uevents).add = FALSE, NEW m \in plugged, m = Head(uevents).node
      PROVE  Announced(m)'
  <2>1. PICK j \in 1..Len(uevents) : 1 < j /\ uevents[j].add = TRUE /\ uevents[j].node = m
    BY <1>2, <1>6 DEF DevicesInv, ReturnsFollow
  <2> QED BY <1>3, <2>1 DEF Announced
<1> QED BY <1>2, <1>4, <1>5, <1>6

\* absorb_hotplug opens what was added, unless it is open.
LEMMA AddedKeeps ==
    ASSUME DevicesInv, AbsorbAdded
    PROVE  DevicesInv'
<1> PICK n : n = Head(uevents).node
  OBVIOUS
<1>1. /\ phase = "running" /\ uevents # <<>> /\ Head(uevents).add /\ uevents' = Tail(uevents)
      /\ UNCHANGED <<graveyard, plugged, watched, phase, unread>>
      /\ IF n \in plugged /\ n \notin {e.node : e \in devices} THEN OpenOne(n) ELSE devices' = devices
  BY DEF AbsorbAdded, OpenFails, startVars
<1>2. /\ uevents' \in Seq(Uevent) /\ ReturnsFollow' /\ Head(uevents) \in Uevent
      /\ \A m : Announced(m) => Announced(m)' \/ m = Head(uevents).node
  BY <1>1, TailRead
<1>3. n \in Node
  BY <1>2 DEF Uevent
<1>4. /\ devices \subseteq devices' /\ devices' \subseteq Device
      /\ \A d, e \in devices' : d.node = e.node => d = e
      /\ n \in Usable /\ n \in plugged => Opened(n)'
  <2>1. CASE n \in plugged /\ n \notin {e.node : e \in devices}
    <3>1. ~Opened(n) /\ OpenOne(n)
      BY <1>1, <2>1 DEF Opened
    <3> QED BY <1>3, <3>1, OpenTyped
  <2>2. CASE ~(n \in plugged /\ n \notin {e.node : e \in devices})
    BY <1>1, <2>2 DEF DevicesInv, DevicesShape, OneEach, Opened
  <2> QED BY <2>1, <2>2
<1>5. EachIsReached'
  <2>1. \A m : Announced(m) => Announced(m)' \/ m = n
    BY <1>2
  <2>2. \A m : Opened(m) => Opened(m)'
    BY <1>4 DEF Opened
  <2> QED BY <1>1, <1>4, <2>1, <2>2 DEF DevicesInv, EachIsReached
<1>6. DevicesShape' /\ OneEach' /\ WatchedIsPolled'
  BY <1>1, <1>2, <1>4 DEF DevicesInv, DevicesShape, OneEach, WatchedIsPolled
<1> QED BY <1>2, <1>5, <1>6 DEF DevicesInv

\* It closes what was removed, and keeps the descriptor for the poll set.
LEMMA RemovedKeeps ==
    ASSUME DevicesInv, AbsorbRemoved
    PROVE  DevicesInv'
<1> PICK n : n = Head(uevents).node
  OBVIOUS
<1> DEFINE left == {e \in devices : e.node = n}
           K == {[fd |-> e.fd, polled |-> e.polled] : e \in left}
<1>1. /\ phase = "running" /\ uevents # <<>> /\ ~Head(uevents).add /\ uevents' = Tail(uevents)
      /\ UNCHANGED <<plugged, watched, phase, unread>>
      /\ devices' = devices \ left /\ graveyard' = graveyard \cup K
  BY DEF AbsorbRemoved, startVars, kernelVars
<1>2. /\ uevents' \in Seq(Uevent) /\ ReturnsFollow' /\ Head(uevents) \in Uevent
      /\ \A m : Announced(m) => Announced(m)' \/ Head(uevents).add = TRUE
      /\ Head(uevents).add = FALSE =>
            \A m \in plugged : m = Head(uevents).node => Announced(m)'
  BY <1>1, TailRead
<1>3. Head(uevents).add = FALSE
  BY <1>1, <1>2 DEF Uevent
<1>4. n \in plugged => Announced(n)'
  BY <1>2, <1>3
<1>5. /\ \A d \in devices : d \in devices' \/ d.node = n
      /\ devices' \subseteq devices
      /\ \A d \in devices \ devices' : \E g \in graveyard' : g.fd = d.fd /\ g.polled = d.polled
      /\ graveyard \subseteq graveyard'
  <2>1. ASSUME NEW d \in devices \ devices'
        PROVE  [fd |-> d.fd, polled |-> d.polled] \in graveyard'
    BY <1>1
  <2>2. \A d \in devices \ devices' : \E g \in graveyard' : g.fd = d.fd /\ g.polled = d.polled
    BY <2>1
  <2>3. /\ \A d \in devices : d \in devices' \/ d.node = n
        /\ devices' \subseteq devices /\ graveyard \subseteq graveyard'
    BY <1>1
  <2> QED BY <2>2, <2>3
<1> HIDE DEF left, K
<1>6. EachIsReached'
  <2>1. \A m : Announced(m) => Announced(m)'
    BY <1>2, <1>3
  <2>2. \A m : Opened(m) => Opened(m)' \/ m = n
    BY <1>5 DEF Opened
  <2> QED BY <1>1, <1>4, <2>1, <2>2 DEF DevicesInv, EachIsReached
<1>7. WatchedIsPolled'
  <2> SUFFICES ASSUME NEW f \in watched'
               PROVE  \/ \E e \in devices' : e.fd = f /\ e.polled = TRUE
                      \/ \E g \in graveyard' : g.fd = f /\ g.polled = TRUE
    BY DEF WatchedIsPolled
  <2>1. \/ \E e \in devices : e.fd = f /\ e.polled = TRUE
        \/ \E g \in graveyard : g.fd = f /\ g.polled = TRUE
    BY <1>1 DEF DevicesInv, WatchedIsPolled
  <2> QED BY <1>5, <2>1
<1>8. DevicesShape' /\ OneEach'
  BY <1>1, <1>2, <1>5 DEF DevicesInv, DevicesShape, OneEach
<1> QED BY <1>2, <1>6, <1>7, <1>8 DEF DevicesInv

\* Steps that change flags of the devices, and no more.
LEMMA FlagsKeep ==
    ASSUME DevicesInv, devices' \subseteq Device,
           \A e \in devices : \E d \in devices' : d.node = e.node,
           \A d \in devices' : \E e \in devices : d.node = e.node,
           \A d, e \in devices' : d.node = e.node => d = e,
           UNCHANGED <<plugged, unread, uevents>>,
           phase' = phase \/ (phase = "enumerating" /\ unread = {} /\ phase' = "running"),
           WatchedIsPolled'
    PROVE  DevicesInv'
<1>1. \A m : Opened(m)' <=> Opened(m)
  BY DEF Opened
<1>2. DevicesShape' /\ ReturnsFollow'
  BY DEF DevicesInv, DevicesShape, ReturnsFollow
<1>3. OneEach'
  BY DEF DevicesInv, OneEach
<1>4. EachIsReached'
  <2>1. \A m : Announced(m)' <=> Announced(m)
    BY DEF Announced
  <2>2. devices = {} => devices' = {}
    OBVIOUS
  <2> QED BY <1>1, <2>1, <2>2 DEF DevicesInv, EachIsReached, DevicesShape
<1> QED BY <1>2, <1>3, <1>4 DEF DevicesInv

\* A device with another flag is the device of the same node and descriptor.
LEMMA DeviceArmed ==
    ASSUME NEW e \in Device, NEW a \in BOOLEAN
    PROVE  /\ [e EXCEPT !.armed = a] \in Device
           /\ [e EXCEPT !.armed = a].node = e.node /\ [e EXCEPT !.armed = a].fd = e.fd
           /\ [e EXCEPT !.armed = a].polled = e.polled /\ [e EXCEPT !.armed = a].armed = a
  BY DEF Device

LEMMA DevicePolled ==
    ASSUME NEW e \in Device, NEW p \in BOOLEAN
    PROVE  /\ [e EXCEPT !.polled = p] \in Device
           /\ [e EXCEPT !.polled = p].node = e.node /\ [e EXCEPT !.polled = p].fd = e.fd
           /\ [e EXCEPT !.polled = p].polled = p
  BY DEF Device

\* register: every device is polled.
LEMMA RegisterKeeps ==
    ASSUME DevicesInv, Register
    PROVE  DevicesInv'
<1>1. /\ phase = "enumerating" /\ unread = {} /\ phase' = "running"
      /\ devices' = {[e EXCEPT !.polled = TRUE] : e \in devices}
      /\ watched' = watched \cup FdsOf(devices)
      /\ UNCHANGED <<graveyard, plugged, unread, uevents>>
  BY DEF Register
<1>2. devices \subseteq Device
  BY DEF DevicesInv, DevicesShape
<1>3. \A e \in devices : \E d \in devices' : d.node = e.node /\ d.fd = e.fd /\ d.polled = TRUE
  <2>1. ASSUME NEW e \in devices
        PROVE  [e EXCEPT !.polled = TRUE] \in devices'
    BY <1>1
  <2> QED BY <1>2, <2>1, DeviceArmed, DevicePolled
<1>4. \A d \in devices' : \E e \in devices : d = [e EXCEPT !.polled = TRUE] /\ d.node = e.node /\ d \in Device
  <2>1. \A d \in devices' : \E e \in devices : d = [e EXCEPT !.polled = TRUE]
    BY <1>1
  <2>2. \A e \in devices : [e EXCEPT !.polled = TRUE].node = e.node /\ [e EXCEPT !.polled = TRUE] \in Device
    BY <1>2, DeviceArmed, DevicePolled
  <2> QED BY <2>1, <2>2
<1>5. \A d, e \in devices' : d.node = e.node => d = e
  BY <1>4 DEF DevicesInv, OneEach
<1>6. WatchedIsPolled'
  <2> SUFFICES ASSUME NEW f \in watched'
               PROVE  \/ \E e \in devices' : e.fd = f /\ e.polled = TRUE
                      \/ \E g \in graveyard' : g.fd = f /\ g.polled = TRUE
    BY DEF WatchedIsPolled
  <2>1. \/ \E e \in devices : e.fd = f
        \/ \E g \in graveyard : g.fd = f /\ g.polled = TRUE
    BY <1>1 DEF DevicesInv, WatchedIsPolled, FdsOf
  <2> QED BY <1>1, <1>3, <2>1
<1>7. devices' \subseteq Device
  BY <1>4
<1>8. /\ \A e \in devices : \E d \in devices' : d.node = e.node
      /\ \A d \in devices' : \E e \in devices : d.node = e.node
  BY <1>3, <1>4
<1> QED BY <1>1, <1>5, <1>6, <1>7, <1>8, FlagsKeep

\* pump: the devices that answer ENODEV are disarmed.
LEMMA PumpKeeps ==
    ASSUME DevicesInv, Pump
    PROVE  DevicesInv'
<1> DEFINE Kept_(e) == IF e \in Disarmed THEN [e EXCEPT !.armed = FALSE] ELSE e
<1>1. /\ devices' = {Kept_(e) : e \in devices}
      /\ UNCHANGED <<graveyard, plugged, watched, phase, unread, uevents>>
  BY DEF Pump, kernelVars, startVars
<1>2. devices \subseteq Device
  BY DEF DevicesInv, DevicesShape
<1>3. \A e \in devices : /\ Kept_(e) \in Device /\ Kept_(e).node = e.node /\ Kept_(e).fd = e.fd
                         /\ Kept_(e).polled = e.polled
  BY <1>2, DeviceArmed, DevicePolled
<1>4. \A e \in devices : Kept_(e) \in devices'
  BY <1>1
<1>5. \A d \in devices' : \E e \in devices : d = Kept_(e)
  BY <1>1
<1> HIDE DEF Kept_
<1>6. \A d, e \in devices' : d.node = e.node => d = e
  <2> SUFFICES ASSUME NEW d \in devices', NEW e \in devices', d.node = e.node
               PROVE  d = e
    OBVIOUS
  <2>1. PICK x \in devices, y \in devices : d = Kept_(x) /\ e = Kept_(y)
    BY <1>5
  <2>2. x.node = y.node
    BY <1>3, <2>1
  <2> QED BY <2>1, <2>2 DEF DevicesInv, OneEach
<1>7. WatchedIsPolled'
  BY <1>1, <1>3, <1>4 DEF DevicesInv, WatchedIsPolled
<1>8. /\ \A e \in devices : \E d \in devices' : d.node = e.node
      /\ \A d \in devices' : \E e \in devices : d.node = e.node
      /\ devices' \subseteq Device
  BY <1>3, <1>4, <1>5
<1> QED BY <1>1, <1>6, <1>7, <1>8, FlagsKeep

\* The poll set is reconciled: what stays in it is a device that is armed.
LEMMA ReconcileKeeps ==
    ASSUME DevicesInv, NEW rearm, Reconcile(rearm), UNCHANGED <<plugged, startVars, uevents>>
    PROVE  DevicesInv'
<1> DEFINE Rearmed(e) == IF rearm THEN [e EXCEPT !.armed = TRUE] ELSE e
           Kept_(e) == [Rearmed(e) EXCEPT !.polled = Rearmed(e).armed]
           armed == {Rearmed(e) : e \in devices}
           buried == {g.fd : g \in {h \in graveyard : h.polled}}
           dead == FdsOf({e \in armed : e.polled /\ ~e.armed})
           alive == FdsOf({e \in armed : e.armed})
<1>1. /\ watched' = ((watched \ buried) \ dead) \cup alive
      /\ devices' = {[e EXCEPT !.polled = e.armed] : e \in armed}
      /\ UNCHANGED <<plugged, phase, unread, uevents>>
  BY DEF Reconcile, startVars
<1>2. devices \subseteq Device
  BY DEF DevicesInv, DevicesShape
<1>3. \A e \in devices : /\ Rearmed(e) \in Device /\ Rearmed(e).node = e.node /\ Rearmed(e).fd = e.fd
                         /\ Rearmed(e).polled = e.polled /\ Rearmed(e).armed \in BOOLEAN
  <2>1. \A e \in devices : e.armed \in BOOLEAN
    BY <1>2 DEF Device
  <2>2. \A e \in devices : [e EXCEPT !.armed = TRUE].armed = TRUE
    BY <1>2, DeviceArmed, DevicePolled
  <2>3. \A e \in devices : /\ Rearmed(e) \in Device /\ Rearmed(e).node = e.node /\ Rearmed(e).fd = e.fd
                           /\ Rearmed(e).polled = e.polled
    BY <1>2, DeviceArmed, DevicePolled
  <2> QED BY <2>1, <2>2, <2>3
<1>4. ASSUME NEW e \in devices PROVE Rearmed(e) \in armed /\ Kept_(e) \in devices'
  <2>1. Rearmed(e) \in armed
    OBVIOUS
  <2> HIDE DEF Rearmed, armed
  <2> QED BY <1>1, <2>1
<1>5. \A d \in devices' : \E e \in devices : d = Kept_(e)
  BY <1>1
<1>6. \A x \in armed : \E e \in devices : x = Rearmed(e)
  OBVIOUS
<1>7. /\ \A x \in armed : x.polled = TRUE /\ x.armed = FALSE => x.fd \in dead
      /\ \A f \in alive : \E x \in armed : f = x.fd /\ x.armed = TRUE
      /\ \A g \in graveyard : g.polled = TRUE => g.fd \in buried
  <2>1. \A x \in armed : x.armed \in BOOLEAN
    BY <1>3, <1>6
  <2> HIDE DEF armed
  <2> QED BY <2>1 DEF FdsOf
<1> HIDE DEF armed, buried, dead, alive, Rearmed
<1>8. ASSUME NEW e \in devices
      PROVE  Kept_(e) \in Device /\ Kept_(e).node = e.node /\ Kept_(e).fd = e.fd /\ Kept_(e).polled = Rearmed(e).armed
  <2>1. Rearmed(e) \in Device /\ Rearmed(e).armed \in BOOLEAN
    BY <1>3
  <2>3. /\ Kept_(e) \in Device /\ Kept_(e).node = Rearmed(e).node
        /\ Kept_(e).fd = Rearmed(e).fd /\ Kept_(e).polled = Rearmed(e).armed
    BY <2>1, DevicePolled
  <2> QED BY <1>3, <2>3
<1> HIDE DEF Kept_
<1>9. \A d, e \in devices' : d.node = e.node => d = e
  <2> SUFFICES ASSUME NEW d \in devices', NEW e \in devices', d.node = e.node
               PROVE  d = e
    OBVIOUS
  <2>1. PICK x \in devices, y \in devices : d = Kept_(x) /\ e = Kept_(y)
    BY <1>5
  <2>2. x.node = y.node
    BY <1>8, <2>1
  <2> QED BY <2>1, <2>2 DEF DevicesInv, OneEach
<1>10. WatchedIsPolled'
  <2> SUFFICES ASSUME NEW f \in watched'
               PROVE  \E e \in devices' : e.fd = f /\ e.polled = TRUE
    BY DEF WatchedIsPolled
  <2>1. \E e \in devices : e.fd = f /\ Rearmed(e).armed = TRUE
    <3>1. CASE f \in alive
      BY <1>3, <1>6, <1>7, <3>1
    <3>2. CASE f \notin alive
      <4>1. f \in watched /\ f \notin buried /\ f \notin dead
        BY <1>1, <3>2
      <4>2. PICK e \in devices : e.fd = f /\ e.polled = TRUE
        BY <1>7, <4>1 DEF DevicesInv, WatchedIsPolled
      <4>3. Rearmed(e).armed # FALSE
        BY <1>3, <1>4, <1>7, <4>1, <4>2
      <4> QED BY <1>3, <4>2, <4>3
    <3> QED BY <3>1, <3>2
  <2> QED BY <1>4, <1>8, <2>1
<1>11. /\ \A e \in devices : \E d \in devices' : d.node = e.node
       /\ \A d \in devices' : \E e \in devices : d.node = e.node
       /\ devices' \subseteq Device
  BY <1>4, <1>5, <1>8
<1> QED BY <1>1, <1>9, <1>10, <1>11, FlagsKeep

LEMMA InitDevicesInv == InputDevicesInit => DevicesInv
<1>1. InputDevicesInit => /\ uevents = <<>> /\ uevents \in Seq(Uevent) /\ Len(uevents) = 0 /\ devices = {}
                          /\ watched = {} /\ phase = "new" /\ plugged \subseteq Node /\ unread = {}
  BY DEF InputDevicesInit
<1> QED BY <1>1 DEF DevicesInv, DevicesShape, EachIsReached, ReturnsFollow, OneEach, WatchedIsPolled

LEMMA NextDevicesInv == DevicesInv /\ [InputDevicesNext]_inputDeviceVars => DevicesInv'
<1> SUFFICES ASSUME DevicesInv, [InputDevicesNext]_inputDeviceVars PROVE DevicesInv'
  OBVIOUS
<1> USE DEF backendVars, kernelVars, startVars
<1>1. CASE UNCHANGED inputDeviceVars
  BY <1>1, DevicesAlone DEF inputDeviceVars
<1>2. CASE BindMonitor
  BY <1>2, DevicesAlone DEF BindMonitor
<1>3. CASE ReadDirectory
  BY <1>3, ReadKeeps
<1>4. CASE \E n \in Node : OpenEnumerated(n) \/ Plug(n) \/ Unplug(n)
  BY <1>4, EnumerateKeeps, PlugKeeps
<1>5. CASE Register
  BY <1>5, RegisterKeeps
<1>6. CASE AbsorbAdded
  BY <1>6, AddedKeeps
<1>7. CASE AbsorbRemoved
  BY <1>7, RemovedKeeps
<1>8. CASE Pump
  BY <1>8, PumpKeeps
<1>9. CASE Reregister
  BY <1>9, ReconcileKeeps DEF Reregister
<1>10. CASE SessionEvent
  <2>1. CASE Head(sessionEvents) = "activate"
    BY <1>10, <2>1, ReconcileKeeps DEF SessionEvent
  <2>2. CASE Head(sessionEvents) # "activate"
    BY <1>10, <2>2, DevicesAlone DEF SessionEvent
  <2> QED BY <2>1, <2>2
<1>11. CASE SwitchAway \/ SwitchBack
  BY <1>11, DevicesAlone DEF SwitchAway, SwitchBack
<1>12. CASE HandlePause
  BY <1>12, DevicesAlone DEF HandlePause
<1>13. CASE SignalGone
  BY <1>13, DevicesAlone DEF SignalGone
<1>14. CASE HandleResume
  <2>1. watched' \subseteq watched /\ UNCHANGED <<devices, graveyard, plugged, unread, uevents, phase>>
    BY <1>14 DEF HandleResume
  <2> QED BY <2>1, DevicesAlone
<1>15. CASE HandleActive
  BY <1>15, DevicesAlone DEF HandleActive
<1> QED BY <1>1, <1>2, <1>3, <1>4, <1>5, <1>6, <1>7, <1>8, <1>9, <1>10, <1>11, <1>12, <1>13, <1>14, <1>15
        DEF InputDevicesNext, MainLoop, SignalThread

LEMMA InvIsOurs == DevicesInv => DevicesAreOurs
<1> SUFFICES ASSUME DevicesInv PROVE DevicesAreOurs
  OBVIOUS
<1>1. PolledIsOurs
  BY DEF DevicesInv, OneEach, WatchedIsPolled, PolledIsOurs, FdsOf
<1>2. NoneOverlooked
  <2> SUFFICES ASSUME phase = "running", NEW n \in plugged \cap Usable, ~Opened(n)
               PROVE  \E i \in DOMAIN uevents : uevents[i] = [add |-> TRUE, node |-> n]
    BY DEF NoneOverlooked, Opened
  <2>1. PICK i \in 1..Len(uevents) : uevents[i].add = TRUE /\ uevents[i].node = n
    BY DEF DevicesInv, EachIsReached, Announced
  <2>2. uevents \in Seq(Uevent)
    BY DEF DevicesInv, DevicesShape
  <2>3. i \in DOMAIN uevents /\ uevents[i] \in Uevent
    BY <2>1, <2>2
  <2>4. uevents[i] = [add |-> TRUE, node |-> n]
    BY <2>1, <2>3 DEF Uevent
  <2> QED BY <2>3, <2>4
<1> QED BY <1>1, <1>2 DEF DevicesAreOurs

\* Whenever a node was plugged in, before the monitor was bound, between that and
\* the reading of the directory, or later, the running backend has it open or
\* will read of it; and it is open once (evdev_backend.rs).
THEOREM DevicesAreAlwaysOurs == InputDevicesSpec => []DevicesAreOurs
<1>1. InputDevicesSpec => []DevicesInv
  BY InitDevicesInv, NextDevicesInv, PTL DEF InputDevicesSpec
<1> QED BY <1>1, InvIsOurs, PTL

-----------------------------------------------------------------------------
Signal == [say : {"pause", "gone", "resume", "active", "inactive"}, node : Node \cup {NoNode}]
FdOpen == [of : Node \cup {NoNode}, live : BOOLEAN]

\* What of the types the invariant of the devices does not say, apart from the bounds.
DescriptorsTyped ==
    /\ taken \subseteq Node /\ file \in [Fd -> FdOpen] /\ watched \subseteq Fd
    /\ graveyard \subseteq [fd : Fd, polled : BOOLEAN]
    /\ lastActive \in BOOLEAN /\ dirty \in BOOLEAN /\ active \in BOOLEAN
    /\ rows \in [Node -> 0..MaxFd] /\ signals \in Seq(Signal)
    /\ sessionEvents \in Seq({"activate", "pause"})

CountsTyped == switches \in 0..MaxSwitch /\ plugs \in 0..MaxPlug

LEMMA FdBound == MaxFd \in Nat /\ MaxFd >= 1 /\ MaxSwitch \in Nat /\ MaxPlug \in Nat
  BY InputDevicesAssumption

LEMMA FdTyped == \A f \in Fd : f \in 0..MaxFd /\ f # 0
  BY FdBound DEF Fd

LEMMA RowTyped == \A f \in 0..MaxFd : f # 0 => f \in Fd
  BY FdBound DEF Fd

LEMMA DescriptorsInit == InputDevicesInit => DescriptorsTyped
<1> SUFFICES ASSUME InputDevicesInit PROVE DescriptorsTyped
  OBVIOUS
<1>1. ClosedFd \in FdOpen
  BY DEF ClosedFd, FdOpen
<1>2. file \in [Fd -> FdOpen]
  BY <1>1 DEF InputDevicesInit
<1>3. rows \in [Node -> 0..MaxFd]
  <2>1. 0 \in 0..MaxFd
    BY FdBound
  <2> QED BY <2>1 DEF InputDevicesInit
<1>4. signals \in Seq(Signal) /\ sessionEvents \in Seq({"activate", "pause"})
  BY DEF InputDevicesInit
<1>5. lastActive \in BOOLEAN /\ dirty \in BOOLEAN /\ active \in BOOLEAN
  BY DEF InputDevicesInit
<1> QED BY <1>2, <1>3, <1>4, <1>5 DEF InputDevicesInit, DescriptorsTyped

\* A descriptor that dies, is closed or is given to another node.
LEMMA Reopened ==
    /\ ClosedFd \in FdOpen
    /\ \A n \in Node \cup {NoNode}, b \in BOOLEAN : [of |-> n, live |-> b] \in FdOpen
    /\ \A d \in FdOpen : [d EXCEPT !.live = FALSE] \in FdOpen
  BY DEF ClosedFd, FdOpen

LEMMA OpenKeepsTypes ==
    ASSUME DescriptorsTyped, NEW n \in Node, OpenOne(n)
    PROVE  /\ taken' \subseteq Node /\ file' \in [Fd -> FdOpen] /\ rows' \in [Node -> 0..MaxFd]
           /\ UNCHANGED <<active, signals, sessionEvents>>
<1>1. LowestFree \in Fd
  BY LowestIsFree DEF OpenOne
<1>2. PICK f \in Fd : f = LowestFree
  BY <1>1
<1>3. /\ taken' = taken \cup {n} /\ rows' = [rows EXCEPT ![n] = f]
      /\ file' = [file EXCEPT ![f] = [of |-> n, live |-> active]] \/ file' = file
      /\ UNCHANGED <<active, signals, sessionEvents>>
  BY <1>2 DEF OpenOne
<1>4. [of |-> n, live |-> active] \in FdOpen
  BY Reopened DEF DescriptorsTyped
<1>5. file' \in [Fd -> FdOpen]
  BY <1>3, <1>4 DEF DescriptorsTyped
<1>6. rows' \in [Node -> 0..MaxFd]
  BY <1>3, FdTyped DEF DescriptorsTyped
<1> QED BY <1>3, <1>5, <1>6 DEF DescriptorsTyped

LEMMA DiesTyped ==
    ASSUME DescriptorsTyped, NEW n,
           file' = [f \in Fd |-> IF file[f].of = n THEN [file[f] EXCEPT !.live = FALSE] ELSE file[f]]
    PROVE  file' \in [Fd -> FdOpen]
<1>1. \A f \in Fd : file[f] \in FdOpen
  BY DEF DescriptorsTyped
<1>2. \A f \in Fd : [file[f] EXCEPT !.live = FALSE] \in FdOpen
  BY <1>1, Reopened
<1>3. \A f \in Fd : (IF file[f].of = n THEN [file[f] EXCEPT !.live = FALSE] ELSE file[f]) \in FdOpen
  BY <1>1, <1>2
<1> QED BY <1>3

LEMMA SignalQueued ==
    ASSUME signals \in Seq(Signal)
    PROVE  /\ \A s \in Signal : Append(signals, s) \in Seq(Signal)
           /\ signals # <<>> => Tail(signals) \in Seq(Signal) /\ Head(signals) \in Signal
  OBVIOUS

LEMMA JoinedTyped == \A s, t \in Seq(Signal) : s \o t \in Seq(Signal)
  OBVIOUS

LEMMA SaidTyped ==
    ASSUME NEW what \in {"pause", "resume"}, NEW order \in Orders(taken), taken \subseteq Node
    PROVE  Say(what, order) \in Seq(Signal)
<1>1. PICK k \in Nat : k = Cardinality(taken)
  BY FS_Subset, FS_CardinalityType, InputDevicesAssumption
<1>2. order \in [1..k -> taken]
  BY <1>1 DEF Orders
<1>3. \A i \in 1..k : [say |-> what, node |-> order[i]] \in Signal
  BY <1>2 DEF Signal
<1>4. Say(what, order) = [i \in 1..k |-> [say |-> what, node |-> order[i]]]
  BY <1>2 DEF Say
<1>5. Say(what, order) \in [1..k -> Signal]
  BY <1>3, <1>4
<1> QED BY <1>1, <1>5

LEMMA ActiveTyped == \A now \in BOOLEAN : ActiveIs(now) \in Seq(Signal)
<1> SUFFICES ASSUME NEW now \in BOOLEAN PROVE ActiveIs(now) \in Seq(Signal)
  OBVIOUS
<1>1. PICK s \in Signal : s = [say |-> IF now THEN "active" ELSE "inactive", node |-> NoNode]
  BY DEF Signal
<1>2. <<s>> \in Seq(Signal)
  OBVIOUS
<1> QED BY <1>1, <1>2 DEF ActiveIs

\* The reconciliation keeps the poll set to descriptors.
LEMMA ReconcileTyped ==
    ASSUME DescriptorsTyped, devices \subseteq Device, NEW rearm, Reconcile(rearm)
    PROVE  /\ file' \in [Fd -> FdOpen] /\ watched' \subseteq Fd /\ graveyard' = {}
           /\ lastActive' = active /\ dirty' = FALSE
<1>1. \A f \in Fd : file[f] \in FdOpen
  BY DEF DescriptorsTyped
<1>2. \A f \in Fd : (IF f \in FdsOf(graveyard) THEN ClosedFd ELSE file[f]) \in FdOpen
  BY <1>1, Reopened
<1>3. file' \in [Fd -> FdOpen]
  BY <1>2 DEF Reconcile
<1> DEFINE armed == {IF rearm THEN [e EXCEPT !.armed = TRUE] ELSE e : e \in devices}
<1>4. \A e \in devices : [e EXCEPT !.armed = TRUE].fd \in Fd /\ e.fd \in Fd
  BY DEF Device
<1>5. \A d \in armed : d.fd \in Fd
  BY <1>4
<1> HIDE DEF armed
<1>6. \A d \in {e \in armed : e.armed} : d.fd \in Fd
  BY <1>5
<1>7. FdsOf({e \in armed : e.armed}) \subseteq Fd
  BY <1>6 DEF FdsOf
<1>8. watched' \subseteq watched \cup FdsOf({e \in armed : e.armed})
  BY DEF Reconcile, armed
<1>9. watched' \subseteq Fd
  BY <1>7, <1>8 DEF DescriptorsTyped
<1>10. graveyard' = {} /\ lastActive' = active /\ dirty' = FALSE
  BY DEF Reconcile
<1> QED BY <1>3, <1>9, <1>10

LEMMA DescriptorsStep == DevicesInv /\ DescriptorsTyped /\ [InputDevicesNext]_inputDeviceVars => DescriptorsTyped'
<1> SUFFICES ASSUME DevicesInv, DescriptorsTyped, [InputDevicesNext]_inputDeviceVars PROVE DescriptorsTyped'
  OBVIOUS
<1> USE DEF backendVars, kernelVars, logindVars, startVars
<1>0. devices \subseteq Device /\ uevents \in Seq(Uevent) /\ plugged \subseteq Node
  BY DEF DevicesInv, DevicesShape
<1>1. CASE UNCHANGED inputDeviceVars \/ BindMonitor \/ ReadDirectory
  BY <1>1 DEF inputDeviceVars, BindMonitor, ReadDirectory, DescriptorsTyped
<1>2. ASSUME NEW n \in Node, OpenEnumerated(n) PROVE DescriptorsTyped'
  <2>1. CASE n \in plugged
    BY <1>2, <2>1, OpenKeepsTypes DEF OpenEnumerated, DescriptorsTyped
  <2>2. CASE n \notin plugged
    BY <1>2, <2>2 DEF OpenEnumerated, OpenFails, DescriptorsTyped
  <2> QED BY <2>1, <2>2
<1>3. ASSUME NEW n \in Node, Plug(n) PROVE DescriptorsTyped'
  BY <1>3 DEF Plug, DescriptorsTyped
<1>4. ASSUME NEW n \in Node, Unplug(n) PROVE DescriptorsTyped'
  <2>1. file' \in [Fd -> FdOpen]
    BY <1>4, DiesTyped DEF Unplug
  <2>2. PICK s \in Signal : s = [say |-> "gone", node |-> n]
    BY DEF Signal
  <2>3. signals' \in Seq(Signal)
    BY <1>4, <2>2 DEF Unplug, DescriptorsTyped
  <2> QED BY <1>4, <2>1, <2>3 DEF Unplug, DescriptorsTyped
<1>5. CASE Register
  <2>1. \A e \in devices : e.fd \in Fd
    BY <1>0 DEF Device
  <2>2. watched' \subseteq Fd
    BY <1>5, <2>1 DEF Register, FdsOf, DescriptorsTyped
  <2> QED BY <1>5, <2>2 DEF Register, DescriptorsTyped
<1>6. CASE AbsorbAdded
  <2>1. PICK n : n = Head(uevents).node
    OBVIOUS
  <2>2. n \in Node
    <3>1. Head(uevents) \in Uevent
      BY <1>6, <1>0 DEF AbsorbAdded
    <3> QED BY <2>1, <3>1 DEF Uevent
  <2>3. /\ UNCHANGED <<graveyard, lastActive, watched>>
        /\ \/ OpenOne(n) /\ dirty' = (dirty \/ n \in Usable)
           \/ OpenFails /\ dirty' = dirty
    BY <1>6, <2>1 DEF AbsorbAdded
  <2>4. dirty' \in BOOLEAN
    BY <2>3 DEF DescriptorsTyped
  <2>5. CASE OpenOne(n)
    BY <2>2, <2>3, <2>4, <2>5, OpenKeepsTypes DEF DescriptorsTyped
  <2>6. CASE OpenFails
    BY <2>3, <2>4, <2>6 DEF OpenFails, DescriptorsTyped
  <2> QED BY <2>3, <2>5, <2>6
<1>7. CASE AbsorbRemoved
  <2>1. PICK left \in SUBSET devices :
           /\ graveyard' = graveyard \cup {[fd |-> e.fd, polled |-> e.polled] : e \in left}
           /\ dirty' = (dirty \/ left # {})
    <3>1. {e \in devices : e.node = Head(uevents).node} \in SUBSET devices
      OBVIOUS
    <3> QED BY <1>7, <3>1 DEF AbsorbRemoved
  <2>2. \A e \in left : [fd |-> e.fd, polled |-> e.polled] \in [fd : Fd, polled : BOOLEAN]
    <3>1. \A e \in left : e.fd \in Fd /\ e.polled \in BOOLEAN
      BY <1>0 DEF Device
    <3> QED BY <3>1
  <2>3. graveyard' \subseteq [fd : Fd, polled : BOOLEAN]
    BY <2>1, <2>2 DEF DescriptorsTyped
  <2>4. UNCHANGED <<taken, file, watched, lastActive, active, rows, signals, sessionEvents>>
    BY <1>7 DEF AbsorbRemoved
  <2> QED BY <2>1, <2>3, <2>4 DEF DescriptorsTyped
<1>8. CASE Pump
  BY <1>8 DEF Pump, DescriptorsTyped
<1>9. CASE Reregister
  <2>1. Reconcile(Returned) /\ UNCHANGED <<active, rows, taken, signals, sessionEvents>>
    BY <1>9 DEF Reregister
  <2> QED BY <1>0, <2>1, ReconcileTyped DEF DescriptorsTyped
<1>10. CASE SessionEvent
  <2>1. sessionEvents' \in Seq({"activate", "pause"}) /\ UNCHANGED <<rows, active, taken, signals>>
    BY <1>10 DEF SessionEvent, DescriptorsTyped
  <2>2. CASE Head(sessionEvents) = "activate"
    <3>1. Reconcile(Returned)
      BY <1>10, <2>2 DEF SessionEvent
    <3> QED BY <1>0, <2>1, <3>1, ReconcileTyped DEF DescriptorsTyped
  <2>3. CASE Head(sessionEvents) # "activate"
    <3>1. UNCHANGED <<graveyard, lastActive, dirty, file, watched>>
      BY <1>10, <2>3 DEF SessionEvent
    <3> QED BY <2>1, <3>1 DEF DescriptorsTyped
  <2> QED BY <2>2, <2>3
<1>11. CASE SwitchAway
  <2>1. PICK order \in Orders(taken) :
            signals' = Say("pause", order) \o (IF taken = {} THEN ActiveIs(FALSE) ELSE <<>>)
    BY <1>11 DEF SwitchAway
  <2>2. Say("pause", order) \in Seq(Signal)
    BY SaidTyped DEF DescriptorsTyped
  <2>3. PICK tail \in Seq(Signal) : tail = IF taken = {} THEN ActiveIs(FALSE) ELSE <<>>
    <3>1. ActiveIs(FALSE) \in Seq(Signal)
      BY ActiveTyped
    <3>2. <<>> \in Seq(Signal)
      OBVIOUS
    <3> QED BY <3>1, <3>2
  <2>4. signals' \in Seq(Signal)
    BY <2>1, <2>2, <2>3, JoinedTyped
  <2> QED BY <1>11, <2>4 DEF SwitchAway, DescriptorsTyped
<1>12. CASE SwitchBack
  <2>1. PICK order \in Orders(taken) :
            \/ signals' = Say("resume", order) \o ActiveIs(TRUE)
            \/ signals' = ActiveIs(TRUE) \o Say("resume", order)
    BY <1>12 DEF SwitchBack
  <2>2. Say("resume", order) \in Seq(Signal)
    BY SaidTyped DEF DescriptorsTyped
  <2>3. ActiveIs(TRUE) \in Seq(Signal)
    BY ActiveTyped
  <2>4. signals' \in Seq(Signal)
    BY <2>1, <2>2, <2>3, JoinedTyped
  <2> QED BY <1>12, <2>4 DEF SwitchBack, DescriptorsTyped
<1>13. CASE HandlePause
  <2>1. PICK n : n = Head(signals).node
    OBVIOUS
  <2>2. file' \in [Fd -> FdOpen]
    BY <1>13, <2>1, DiesTyped DEF HandlePause
  <2>3. signals # <<>> /\ signals' \in {Tail(signals) \o ActiveIs(FALSE), Tail(signals) \o <<>>}
    BY <1>13 DEF HandlePause, NextSignal
  <2>4. Tail(signals) \in Seq(Signal) /\ ActiveIs(FALSE) \in Seq(Signal) /\ <<>> \in Seq(Signal)
    <3>1. Tail(signals) \in Seq(Signal)
      BY <2>3, SignalQueued DEF DescriptorsTyped
    <3>2. ActiveIs(FALSE) \in Seq(Signal)
      BY ActiveTyped
    <3>3. <<>> \in Seq(Signal)
      OBVIOUS
    <3> QED BY <3>1, <3>2, <3>3
  <2>5. signals' \in Seq(Signal)
    BY <2>3, <2>4, JoinedTyped
  <2> QED BY <1>13, <2>2, <2>5 DEF HandlePause, DescriptorsTyped
<1>14. CASE SignalGone
  <2>1. rows' \in [Node -> 0..MaxFd]
    <3>1. PICK n : rows' = [rows EXCEPT ![n] = 0]
      BY <1>14 DEF SignalGone, HandleGone
    <3>2. 0 \in 0..MaxFd
      BY FdBound
    <3> QED BY <3>1, <3>2 DEF DescriptorsTyped
  <2>2. signals' \in Seq(Signal)
    BY <1>14 DEF SignalGone, HandleGone, NextSignal, DescriptorsTyped
  <2> QED BY <1>14, <2>1, <2>2 DEF SignalGone, DescriptorsTyped
<1>15. CASE HandleResume
  <2>1. PICK n : n = Head(signals).node
    OBVIOUS
  <2>2. signals # <<>> /\ signals' = Tail(signals)
    BY <1>15 DEF HandleResume, NextSignal
  <2>3. signals' \in Seq(Signal) /\ Head(signals) \in Signal
    BY <2>2 DEF DescriptorsTyped
  <2>4. n \in Node \cup {NoNode}
    BY <2>1, <2>3 DEF Signal
  <2>5. PICK f : f = rows[n]
    OBVIOUS
  <2>6. \/ UNCHANGED <<file, watched>>
        \/ /\ file' = [file EXCEPT ![f] = [of |-> n, live |-> n \in plugged]]
           /\ watched' = watched \ {f}
    BY <1>15, <2>1, <2>5 DEF HandleResume
  <2>7. PICK d \in FdOpen : d = [of |-> n, live |-> n \in plugged]
    <3>1. (n \in plugged) \in BOOLEAN
      OBVIOUS
    <3> QED BY <2>4, <3>1, Reopened
  <2>8. file' \in [Fd -> FdOpen] /\ watched' \subseteq Fd
    BY <2>6, <2>7 DEF DescriptorsTyped
  <2> QED BY <1>15, <2>3, <2>8 DEF HandleResume, DescriptorsTyped
<1>16. CASE HandleActive
  <2>1. PICK now \in BOOLEAN :
           /\ signals # <<>> /\ signals' = Tail(signals) /\ active' = now
           /\ sessionEvents' = IF active = now THEN sessionEvents
                               ELSE Append(sessionEvents, IF now THEN "activate" ELSE "pause")
           /\ UNCHANGED <<backendVars, kernelVars, rows, taken>>
    BY <1>16 DEF HandleActive, NextSignal
  <2>2. PICK e \in {"activate", "pause"} : e = IF now THEN "activate" ELSE "pause"
    OBVIOUS
  <2>3. sessionEvents' \in Seq({"activate", "pause"}) /\ signals' \in Seq(Signal)
    BY <2>1, <2>2 DEF DescriptorsTyped
  <2> QED BY <2>1, <2>3 DEF DescriptorsTyped
<1> QED BY <1>1, <1>2, <1>3, <1>4, <1>5, <1>6, <1>7, <1>8, <1>9, <1>10, <1>11, <1>12, <1>13, <1>14, <1>15, <1>16
        DEF InputDevicesNext, MainLoop, SignalThread

LEMMA CountsInit == InputDevicesInit => CountsTyped
  BY FdBound DEF InputDevicesInit, CountsTyped

LEMMA CountsStep == CountsTyped /\ [InputDevicesNext]_inputDeviceVars => CountsTyped'
<1> SUFFICES ASSUME CountsTyped, [InputDevicesNext]_inputDeviceVars PROVE CountsTyped'
  OBVIOUS
<1>1. \/ UNCHANGED <<switches, plugs>>
      \/ switches' = switches + 1 /\ switches < MaxSwitch /\ plugs' = plugs
      \/ plugs' = plugs + 1 /\ plugs < MaxPlug /\ switches' = switches
  BY DEF InputDevicesNext, MainLoop, SignalThread, inputDeviceVars, BindMonitor, ReadDirectory,
         OpenEnumerated, Plug, Unplug, Register, AbsorbAdded, AbsorbRemoved, Pump, Reregister, SessionEvent,
         SwitchAway, SwitchBack, HandlePause, SignalGone, HandleResume, HandleActive
<1> QED BY <1>1, FdBound DEF CountsTyped

LEMMA DevicesTyped == DevicesInv /\ DescriptorsTyped /\ CountsTyped => InputDevicesTypeOK
  BY DEF DevicesInv, DevicesShape, DescriptorsTyped, CountsTyped, InputDevicesTypeOK, Device, Uevent, Signal, FdOpen

-----------------------------------------------------------------------------
(* Capture.                                                                *)

\* Whoever is between two locks of the capture has yet to mark the frame; and a
\* capture that was taken is answered before the frame is idle again.
OwedHolds ==
    /\ AwaitedIsOwed
    /\ captureSlot # 0 /\ queryAt \notin {"stored", "cleared"} => shotOwed
    /\ frameAt \in {"idle", "answered"} => inFlight = 0

\* The frame loop, the clients and the asker: what is waited for stays owed.
LEMMA ClientsOwe ==
    ASSUME OwedHolds,
           \/ \E s \in Shot : AskCopy(s) \/ \E fits \in BOOLEAN : CopyShot(s, fits)
           \/ Screenshot \/ SceneChanges \/ SceneReturns \/ Vblank
    PROVE  OwedHolds' /\ inFlight' = inFlight
<1> USE DEF OwedHolds, AwaitedIsOwed, gateVars, captureVars2, scanVars, loopVars, clientVars, Between
<1>1. ASSUME NEW s \in Shot, AskCopy(s) PROVE OwedHolds' /\ inFlight' = inFlight
  BY <1>1 DEF AskCopy, CaptureOutput
<1>2. ASSUME NEW s \in Shot, NEW fits \in BOOLEAN, CopyShot(s, fits) PROVE OwedHolds' /\ inFlight' = inFlight
  BY <1>2 DEF CopyShot
<1>3. CASE Screenshot
  BY <1>3 DEF Screenshot
<1>4. CASE SceneChanges \/ SceneReturns
  BY <1>4 DEF SceneChanges, SceneReturns
<1>5. CASE Vblank
  BY <1>5 DEF Vblank
<1> QED BY <1>1, <1>2, <1>3, <1>4, <1>5

LEMMA FrameOwes ==
    ASSUME OwedHolds, FrameLoop \/ FrameEndsEarly
    PROVE  OwedHolds' /\ (inFlight # 0 /\ inFlight' = 0 => captureResult' = inFlight)
<1> USE DEF OwedHolds, AwaitedIsOwed, gateVars, captureVars2, scanVars, loopVars, clientVars, Between
<1>1. CASE TickAway
  BY <1>1 DEF TickAway, ShotsFail
<1>2. CASE TickBegins
  BY <1>2 DEF TickBegins
<1>3. CASE TickHook \/ TickScans
  BY <1>3 DEF TickHook, TickScans
<1>4. CASE TickAnswers
  <2>1. shotsDue => pendingShots' = <<>> /\ toFile' = FALSE
    BY <1>4 DEF TickAnswers, Deliver, ShotsFail
  <2>2. ~shotsDue => UNCHANGED <<pendingShots, toFile>>
    BY <1>4 DEF TickAnswers
  <2>3. /\ frameAt' = "answered" /\ inFlight' = 0 /\ UNCHANGED <<captureSlot, queryAt, shotOwed, shotsDue>>
        /\ inFlight # 0 => captureResult' = inFlight
    BY <1>4 DEF TickAnswers
  <2> QED BY <2>1, <2>2, <2>3
<1>5. CASE TickEnds
  BY <1>5 DEF TickEnds
<1>6. CASE FrameEndsEarly
  BY <1>6 DEF FrameEndsEarly, Reowed, DropAnswers
<1> QED BY <1>1, <1>2, <1>3, <1>4, <1>5, <1>6 DEF FrameLoop

LEMMA QueryOwes ==
    ASSUME OwedHolds,
           \/ CaptureStored \/ CaptureCleared \/ CaptureMarked
           \/ ScanStored \/ ScanCleared \/ ScanArmed
    PROVE  OwedHolds' /\ inFlight' = inFlight
<1> USE DEF OwedHolds, AwaitedIsOwed, captureVars2, scanVars, clientVars, QueryStep
<1>1. CASE CaptureStored
  BY <1>1 DEF CaptureStored
<1>2. CASE CaptureCleared
  BY <1>2 DEF CaptureCleared
<1>3. CASE CaptureMarked
  BY <1>3 DEF CaptureMarked
<1>4. CASE ScanStored
  BY <1>4 DEF ScanStored
<1>5. CASE ScanCleared
  BY <1>5 DEF ScanCleared
<1>6. CASE ScanArmed
  BY <1>6 DEF ScanArmed
<1> QED BY <1>1, <1>2, <1>3, <1>4, <1>5, <1>6

LEMMA NextOwes ==
    OwedHolds /\ [CaptureNext]_captureVars =>
        OwedHolds' /\ (inFlight # 0 /\ inFlight' = 0 => captureResult' = inFlight)
<1>1. OwedHolds /\ UNCHANGED captureVars => OwedHolds' /\ inFlight' = inFlight
  BY DEF OwedHolds, AwaitedIsOwed, captureVars, captureVars2, loopVars, clientVars
<1> QED BY <1>1, ClientsOwe, FrameOwes, QueryOwes DEF CaptureNext

\* A picture that is waited for has a frame coming, and a capture that a frame
\* took is answered by whatever ends the frame (screencopy.rs, introspect.rs).
THEOREM PicturesAlwaysOwed == CaptureSpec => PicturesAreOwed
<1>1. CaptureInit => OwedHolds
  BY DEF CaptureInit, OwedHolds, AwaitedIsOwed
<1>2. OwedHolds => AwaitedIsOwed
  BY DEF OwedHolds
<1> QED BY <1>1, <1>2, NextOwes, PTL DEF CaptureSpec, PicturesAreOwed, TakenIsAnswered

-----------------------------------------------------------------------------
ShotState == {"new", "announced", "queued", "ready", "failed", "gone"}

\* The requests are numbered, and only numbers that were given are in the slots.
CaptureTyped ==
    /\ frameShot \in [Shot -> ShotState]
    /\ announced \in [Shot -> Int \X Int \X Int \X Int]
    /\ \A s \in Shot : announced[s] = Inside(announced[s])
    /\ pendingShots \in Seq(Shot)
    /\ requestSeq \in 0..MaxAsked
    /\ captureSlot \in 0..requestSeq /\ inFlight \in 0..requestSeq /\ captureResult \in 0..requestSeq
    /\ frameAt \in {"idle", "composing", "hooked", "scanned", "answered"}

LEMMA PinStays ==
    ASSUME NEW v \in Int, NEW low \in Int, NEW high \in Int, low <= high
    PROVE  /\ Pin(v, low, high) \in Int /\ low <= Pin(v, low, high) /\ Pin(v, low, high) <= high
           /\ low <= v /\ v <= high => Pin(v, low, high) = v
BY DEF Pin

\* A part of a region that is inside is all of it inside.
LEMMA InsideTwice ==
    ASSUME NEW r \in Int \X Int \X Int \X Int
    PROVE  Inside(r) \in Int \X Int \X Int \X Int /\ Inside(Inside(r)) = Inside(r)
<1>1. PICK W, H : OutputSize = <<W, H>> /\ W \in Nat /\ H \in Nat
  BY CaptureAssumption DEF CaptureAssumption
<1>2. PICK r1 \in Int, r2 \in Int, r3 \in Int, r4 \in Int : r = <<r1, r2, r3, r4>>
  OBVIOUS
<1> DEFINE Pinned(v, low, high) == Pin(v, low, high) \in Int /\ low <= Pin(v, low, high) /\ Pin(v, low, high) <= high
<1>0. \A v, low, high \in Int : low <= high => Pinned(v, low, high)
  BY DEF Pin
<1>3. PICK x \in Int : x = Pin(r1, 0, W) /\ 0 <= x /\ x <= W
  <2>1. 0 \in Int /\ W \in Int /\ 0 <= W
    BY <1>1
  <2>2. Pinned(r1, 0, W)
    BY <2>1, <1>0
  <2> QED BY <2>2
<1>4. PICK y \in Int : y = Pin(r2, 0, H) /\ 0 <= y /\ y <= H
  <2>1. 0 \in Int /\ H \in Int /\ 0 <= H
    BY <1>1
  <2>2. Pinned(r2, 0, H)
    BY <2>1, <1>0
  <2> QED BY <2>2
<1>5. PICK right \in Int : right = Pin(r1 + r3, x, W) /\ x <= right /\ right <= W
  <2>1. r1 + r3 \in Int /\ W \in Int
    BY <1>1
  <2>2. Pinned(r1 + r3, x, W)
    BY <2>1, <1>3, <1>0
  <2> QED BY <2>2
<1>6. PICK bottom \in Int : bottom = Pin(r2 + r4, y, H) /\ y <= bottom /\ bottom <= H
  <2>1. r2 + r4 \in Int /\ H \in Int
    BY <1>1
  <2>2. Pinned(r2 + r4, y, H)
    BY <2>1, <1>4, <1>0
  <2> QED BY <2>2
<1>7. Inside(r) = <<x, y, right - x, bottom - y>>
  BY <1>1, <1>2, <1>3, <1>4, <1>5, <1>6 DEF Inside
<1>8. PICK i : i = <<x, y, right - x, bottom - y>>
  OBVIOUS
<1>9. i[1] = x /\ i[2] = y /\ i[1] + i[3] = right /\ i[2] + i[4] = bottom
  BY <1>8
<1>10. Pin(x, 0, W) = x /\ Pin(y, 0, H) = y /\ Pin(right, x, W) = right /\ Pin(bottom, y, H) = bottom
  BY <1>1, <1>3, <1>4, <1>5, <1>6, PinStays
<1>11. Inside(i) = i
  BY <1>1, <1>8, <1>9, <1>10 DEF Inside
<1> QED BY <1>7, <1>8, <1>11

LEMMA WholeIsInside ==
    LET whole == <<0, 0, OutputSize[1], OutputSize[2]>> none == <<0, 0, 0, 0>>
    IN  /\ whole \in Int \X Int \X Int \X Int /\ Inside(whole) = whole
        /\ none \in Int \X Int \X Int \X Int /\ Inside(none) = none
<1>1. PICK W, H : OutputSize = <<W, H>> /\ W \in Nat /\ H \in Nat
  BY CaptureAssumption DEF CaptureAssumption
<1>2. PICK whole, none : whole = <<0, 0, W, H>> /\ none = <<0, 0, 0, 0>>
  OBVIOUS
<1>3. /\ Pin(0, 0, W) = 0 /\ Pin(0, 0, H) = 0 /\ Pin(0 + W, 0, W) = W /\ Pin(0 + H, 0, H) = H
      /\ Pin(0 + 0, 0, W) = 0 /\ Pin(0 + 0, 0, H) = 0
  BY <1>1 DEF Pin
<1>4. /\ whole[1] = 0 /\ whole[2] = 0 /\ whole[3] = W /\ whole[4] = H
      /\ none[1] = 0 /\ none[2] = 0 /\ none[3] = 0 /\ none[4] = 0
      /\ W - 0 = W /\ H - 0 = H
  BY <1>1, <1>2
<1>5. Inside(whole) = whole /\ Inside(none) = none
  BY <1>1, <1>2, <1>3, <1>4 DEF Inside
<1> QED BY <1>1, <1>2, <1>5

LEMMA CaptureTypedInit == CaptureInit => CaptureTyped
<1> SUFFICES ASSUME CaptureInit PROVE CaptureTyped
  OBVIOUS
<1>1. announced \in [Shot -> Int \X Int \X Int \X Int] /\ \A s \in Shot : announced[s] = Inside(announced[s])
  BY WholeIsInside DEF CaptureInit
<1>2. requestSeq \in 0..MaxAsked
  BY CaptureAssumption DEF CaptureInit, CaptureAssumption
<1> QED BY <1>1, <1>2 DEF CaptureInit, CaptureTyped, ShotState

LEMMA AskTyped ==
    ASSUME CaptureTyped, NEW s \in Shot, AskCopy(s)
    PROVE  CaptureTyped'
<1>1. PICK r \in Int \X Int \X Int \X Int : CaptureOutput(s, r) /\ Inside(r) = r
  <2>1. CASE CaptureOutput(s, <<0, 0, OutputSize[1], OutputSize[2]>>)
    BY <2>1, WholeIsInside
  <2>2. CASE \E r \in Region : CaptureOutput(s, Inside(r))
    <3>1. PICK r \in Region : CaptureOutput(s, Inside(r))
      BY <2>2
    <3>2. r \in Int \X Int \X Int \X Int
      BY CaptureAssumption DEF CaptureAssumption
    <3> QED BY <3>1, <3>2, InsideTwice
  <2> QED BY <2>1, <2>2 DEF AskCopy
<1>2. announced' \in [Shot -> Int \X Int \X Int \X Int]
  BY <1>1 DEF CaptureOutput, CaptureTyped
<1>3. \A t \in Shot : announced'[t] = Inside(announced'[t])
  <2>1. \A t \in Shot : announced'[t] = IF t = s THEN r ELSE announced[t]
    BY <1>1 DEF CaptureOutput, CaptureTyped
  <2>2. TAKE t \in Shot
  <2>3. PICK old, new : old = announced[t] /\ new = announced'[t]
    OBVIOUS
  <2>4. old = Inside(old) /\ new = IF t = s THEN r ELSE old
    BY <2>1, <2>3 DEF CaptureTyped
  <2> QED BY <1>1, <2>3, <2>4
<1>4. frameShot' \in [Shot -> ShotState]
  BY <1>1 DEF CaptureOutput, CaptureTyped, ShotState
<1> QED BY <1>1, <1>2, <1>3, <1>4 DEF CaptureOutput, CaptureTyped, captureVars2, loopVars

\* Every step keeps what is announced as it is, but for a new frame object.
LEMMA CaptureTypedStep == CaptureTyped /\ [CaptureNext]_captureVars => CaptureTyped'
<1> SUFFICES ASSUME CaptureTyped, [CaptureNext]_captureVars PROVE CaptureTyped'
  OBVIOUS
<1> DEFINE Same == /\ UNCHANGED <<announced, captureVars2, frameAt>>
                   /\ frameShot' \in [Shot -> ShotState] /\ pendingShots' \in Seq(Shot)
<1>1. Same => CaptureTyped'
  <2> SUFFICES ASSUME Same PROVE CaptureTyped'
    OBVIOUS
  <2>1. PICK a : a = announced /\ \A s \in Shot : a[s] = Inside(a[s])
    BY DEF CaptureTyped
  <2>2. \A s \in Shot : announced'[s] = Inside(announced'[s])
    BY <2>1
  <2> QED BY <2>2 DEF CaptureTyped, captureVars2
<1>2. UNCHANGED <<frameShot, announced, pendingShots>> => 
         /\ frameShot' \in [Shot -> ShotState] /\ pendingShots' \in Seq(Shot)
  BY DEF CaptureTyped
<1> DEFINE Rest == /\ UNCHANGED announced
                   /\ frameShot' \in [Shot -> ShotState] /\ pendingShots' \in Seq(Shot)
                   /\ requestSeq' \in 0..MaxAsked
                   /\ captureSlot' \in 0..requestSeq' /\ inFlight' \in 0..requestSeq'
                   /\ captureResult' \in 0..requestSeq'
                   /\ frameAt' \in {"idle", "composing", "hooked", "scanned", "answered"}
<1>3. Rest => CaptureTyped'
  <2> SUFFICES ASSUME Rest PROVE CaptureTyped'
    OBVIOUS
  <2>1. PICK a : a = announced /\ \A s \in Shot : a[s] = Inside(a[s])
    BY DEF CaptureTyped
  <2>2. \A s \in Shot : announced'[s] = Inside(announced'[s])
    BY <2>1
  <2> QED BY <2>2 DEF CaptureTyped
<1>4. ShotsFail => frameShot' \in [Shot -> ShotState] /\ pendingShots' \in Seq(Shot) /\ UNCHANGED announced
  BY DEF ShotsFail, CaptureTyped, ShotState
<1>5. Deliver => frameShot' \in [Shot -> ShotState] /\ pendingShots' \in Seq(Shot) /\ UNCHANGED announced
  <2> SUFFICES ASSUME Deliver, ~ShotsFail
               PROVE  frameShot' \in [Shot -> ShotState] /\ pendingShots' \in Seq(Shot) /\ UNCHANGED announced
    BY <1>4
  <2>1. PICK spoilt \in SUBSET Shot :
            frameShot' = [s \in Shot |->
                CASE frameShot[s] # "queued" -> frameShot[s]
                  [] s \in spoilt -> "failed"
                  [] OTHER -> "ready"]
    BY DEF Deliver
  <2>2. \A s \in Shot : frameShot[s] \in ShotState
    BY DEF CaptureTyped
  <2>3. \A s \in Shot : (CASE frameShot[s] # "queued" -> frameShot[s]
                  [] s \in spoilt -> "failed"
                  [] OTHER -> "ready") \in ShotState
    BY <2>2 DEF ShotState
  <2>4. frameShot' \in [Shot -> ShotState]
    BY <2>1, <2>3
  <2>5. pendingShots' = <<>> /\ UNCHANGED announced
    BY DEF Deliver
  <2> QED BY <2>4, <2>5
<1> HIDE DEF Same, Rest
<1>6. CASE UNCHANGED captureVars
  BY <1>1, <1>2, <1>6 DEF captureVars, clientVars, loopVars, captureVars2, Same
<1>7. ASSUME NEW s \in Shot, AskCopy(s) PROVE CaptureTyped'
  BY <1>7, AskTyped
<1>8. ASSUME NEW s \in Shot, NEW fits \in BOOLEAN, CopyShot(s, fits) PROVE CaptureTyped'
  <2>1. frameShot' \in [Shot -> ShotState]
    BY <1>8 DEF CopyShot, CaptureTyped, ShotState
  <2>2. pendingShots' \in Seq(Shot)
    BY <1>8 DEF CopyShot, CaptureTyped
  <2> QED BY <1>1, <1>8, <2>1, <2>2 DEF CopyShot, captureVars2, Same
<1>9. CASE Screenshot \/ SceneChanges \/ SceneReturns \/ Vblank
  BY <1>1, <1>2, <1>9 DEF Screenshot, SceneChanges, SceneReturns, Vblank, clientVars, captureVars2, loopVars, Same
<1>10. CASE TickAway
  BY <1>1, <1>4, <1>10 DEF TickAway, loopVars, captureVars2, Same
<1>11. CASE TickBegins \/ TickHook \/ TickScans \/ TickEnds \/ FrameEndsEarly
  <2>1. UNCHANGED <<frameShot, announced, pendingShots, requestSeq>>
    BY <1>11 DEF TickBegins, TickHook, TickScans, TickEnds, FrameEndsEarly, clientVars, captureVars2
  <2>2. frameAt' \in {"idle", "composing", "hooked", "scanned", "answered"}
    BY <1>11 DEF TickBegins, TickHook, TickScans, TickEnds, FrameEndsEarly
  <2>3. /\ captureSlot' \in {captureSlot, 0} /\ inFlight' \in {inFlight, captureSlot, 0}
        /\ captureResult' \in {captureResult, inFlight}
    BY <1>11 DEF TickBegins, TickHook, TickScans, TickEnds, FrameEndsEarly, captureVars2, DropAnswers
  <2> QED BY <1>2, <1>3, <2>1, <2>2, <2>3, CaptureAssumption DEF CaptureTyped, CaptureAssumption, Rest
<1>12. CASE TickAnswers
  <2>1. frameShot' \in [Shot -> ShotState] /\ pendingShots' \in Seq(Shot) /\ UNCHANGED announced
    BY <1>2, <1>5, <1>12 DEF TickAnswers, clientVars
  <2>2. /\ captureSlot' = captureSlot /\ inFlight' = 0 /\ requestSeq' = requestSeq
        /\ captureResult' \in {captureResult, inFlight} /\ frameAt' = "answered"
    BY <1>12 DEF TickAnswers
  <2> QED BY <1>3, <2>1, <2>2, CaptureAssumption DEF CaptureTyped, CaptureAssumption, Rest
<1>13. CASE CaptureStored \/ CaptureCleared
  <2>1. UNCHANGED <<frameShot, announced, pendingShots, frameAt, inFlight>>
    BY <1>13 DEF CaptureStored, CaptureCleared, QueryStep, clientVars
  <2>2. \/ /\ requestSeq < MaxAsked /\ requestSeq' = requestSeq + 1 /\ captureSlot' = requestSeq + 1
           /\ captureResult' = captureResult
        \/ captureResult' = 0 /\ UNCHANGED <<captureSlot, requestSeq>>
    BY <1>13 DEF CaptureStored, CaptureCleared
  <2> QED BY <1>2, <1>3, <2>1, <2>2, CaptureAssumption DEF CaptureTyped, CaptureAssumption, Rest
<1>14. CASE CaptureMarked \/ ScanStored \/ ScanCleared \/ ScanArmed
  BY <1>1, <1>2, <1>14 DEF CaptureMarked, ScanStored, ScanCleared, ScanArmed, QueryStep, clientVars, Same
<1> QED BY <1>6, <1>7, <1>8, <1>9, <1>10, <1>11, <1>12, <1>13, <1>14 DEF CaptureNext, FrameLoop

LEMMA CaptureTypeHolds == CaptureTyped => CaptureTypeOK
  BY CaptureAssumption DEF CaptureTyped, CaptureTypeOK, ShotState, CaptureAssumption

-----------------------------------------------------------------------------
(* The types of the four services that run beside one another.            *)

\* Everything the four invariants say.
ServicesInv ==
    /\ ClockInv
    /\ NotesInv /\ ChildTyped
    /\ DevicesInv /\ DescriptorsTyped /\ CountsTyped
    /\ CaptureTyped

LEMMA ServicesInvInit == ServicesInit => ServicesInv
<1>1. ServicesInit => SeatClockInit /\ NotesInit /\ InputDevicesInit /\ CaptureInit
  BY DEF ServicesInit
<1> QED BY <1>1, ClockInvInit, InitNotesInv, ChildInit, InitDevicesInv, DescriptorsInit, CountsInit,
           CaptureTypedInit DEF ServicesInv

LEMMA ServicesInvStep == ServicesInv /\ [ServicesNext]_servicesVars => ServicesInv'
<1> SUFFICES ASSUME ServicesInv, [ServicesNext]_servicesVars PROVE ServicesInv'
  OBVIOUS
<1>1. /\ [SeatClockNext]_seatClockVars /\ [NotesNext]_notesVars
      /\ [InputDevicesNext]_inputDeviceVars /\ [CaptureNext]_captureVars
  <2>1. CASE UNCHANGED servicesVars
    BY <2>1 DEF servicesVars
  <2>2. CASE ServicesNext
    BY <2>2 DEF ServicesNext
  <2> QED BY <2>1, <2>2
<1>2. ClockInv'
  BY <1>1, ClockInvStep DEF ServicesInv
<1>3. NotesInv' /\ ChildTyped'
  BY <1>1, NextNotesInv, ChildStep DEF ServicesInv
<1>4. DevicesInv' /\ DescriptorsTyped' /\ CountsTyped'
  BY <1>1, NextDevicesInv, DescriptorsStep, CountsStep DEF ServicesInv
<1>5. CaptureTyped'
  BY <1>1, CaptureTypedStep DEF ServicesInv
<1> QED BY <1>2, <1>3, <1>4, <1>5 DEF ServicesInv

\* Whichever of the services runs, every variable of it stays in its type: no
\* queue holds what its reader cannot read, the poll set and the rows of logind
\* hold descriptors, a slot holds a request that was made, and a region that is
\* announced lies on the output.
THEOREM ServicesAlwaysTyped == ServicesSpec => []ServicesTypeOK
<1>1. ServicesInv => ServicesTypeOK
  BY ClockInvTyped, NotesTyped, DevicesTyped, CaptureTypeHolds DEF ServicesInv, ServicesTypeOK
<1> QED BY <1>1, ServicesInvInit, ServicesInvStep, PTL DEF ServicesSpec

-----------------------------------------------------------------------------
(* Keyboard.                                                               *)

Kinds == {"OneLevel", "TwoLevel", "Alphabetic", "Keypad", "AltLevel2", "ControlLevel2",
          "FourLevel", "FourLevelAlphabetic", "FourLevelSemiAlphabetic"}

\* How many symbols a key of a kind has.
LevelCount(kind) ==
    IF kind = "OneLevel" THEN 1
    ELSE IF kind \in {"FourLevel", "FourLevelAlphabetic", "FourLevelSemiAlphabetic"} THEN 4 ELSE 2

\* A row has as many symbols as its kind, and a modifier has one.
RowFits(r) ==
    /\ r.code \in Nat /\ r.kind \in Kinds
    /\ Len(r.levels) = LevelCount(r.kind) /\ DOMAIN r.levels = 1..Len(r.levels)
    /\ r.kind # "OneLevel" => ~IsModifierKeysym(r.levels[1])

\* The rows of a layout.
LayoutFits(table) ==
    /\ Len(table) \in Nat /\ DOMAIN table = 1..Len(table)
    /\ \A i \in DOMAIN table : RowFits(table[i])
    /\ \A i, j \in DOMAIN table : table[i].code = table[j].code => i = j
    /\ \E i \in DOMAIN table : table[i].code = ShiftKey /\ table[i].levels[1] = "Shift_L"
    /\ \E i \in DOMAIN table : /\ table[i].code = AltGrKey
                              /\ table[i].levels[1] \in {"Alt_R", "ISO_Level3_Shift"}

ModifierSyms == {"Shift_L", "Shift_R", "Alt_L", "Control_L", "Control_R", "Alt_R",
                 "ISO_Level3_Shift", "Caps_Lock", "Num_Lock"}

\* A symbol that no modifier has is no modifier's.
LEMMA PlainSym == \A sym : sym \notin ModifierSyms => ~IsModifierKeysym(sym)
<1> SUFFICES ASSUME NEW sym, sym \notin ModifierSyms PROVE ~IsModifierKeysym(sym)
  OBVIOUS
<1>1. ModifierBit(sym) = {}
  BY DEF ModifierBit, ModifierSyms
<1>2. LockBit(sym) = {}
  BY DEF LockBit, ModifierSyms
<1> QED BY <1>1, <1>2 DEF IsModifierKeysym

\* A row that is written with one symbol, with two and with four has as many as its kind.
LEMMA OneFits ==
    ASSUME NEW code \in Nat, NEW s
    PROVE  RowFits(KeyRow(code, "OneLevel", <<s>>))
BY DEF RowFits, KeyRow, Kinds, LevelCount

LEMMA TwoFits ==
    ASSUME NEW code \in Nat, NEW kind, NEW s, NEW t, s \notin ModifierSyms,
           kind \in {"TwoLevel", "Alphabetic", "Keypad", "AltLevel2", "ControlLevel2"}
    PROVE  RowFits(KeyRow(code, kind, <<s, t>>))
BY PlainSym DEF RowFits, KeyRow, Kinds, LevelCount

LEMMA FourFits ==
    ASSUME NEW code \in Nat, NEW kind, NEW s, NEW t, NEW u, NEW v, s \notin ModifierSyms,
           kind \in {"FourLevel", "FourLevelAlphabetic", "FourLevelSemiAlphabetic"}
    PROVE  RowFits(KeyRow(code, kind, <<s, t, u, v>>))
BY PlainSym DEF RowFits, KeyRow, Kinds, LevelCount

\* The rows of each layout, one by one.
LEMMA USFits == LayoutFits(US)
<1>1. Len(US) = 12 /\ DOMAIN US = 1..12
  BY DEF US
<1>2. \A i \in 1..12 : RowFits(US[i])
  <2>1. /\ RowFits(US[4]) /\ RowFits(US[6]) /\ RowFits(US[7]) /\ RowFits(US[8])
        /\ RowFits(US[11])
    BY OneFits DEF US, ModifierSyms
  <2>2. /\ RowFits(US[1]) /\ RowFits(US[2]) /\ RowFits(US[3]) /\ RowFits(US[5])
        /\ RowFits(US[9]) /\ RowFits(US[10]) /\ RowFits(US[12])
    BY TwoFits DEF US, ModifierSyms
  <2> QED BY <2>1, <2>2
<1>3. \A i, j \in 1..12 : US[i].code = US[j].code => i = j
  <2>1. /\ US[1].code = 10 /\ US[2].code = 38 /\ US[3].code = 47 /\ US[4].code = 50
        /\ US[5].code = 61 /\ US[6].code = 62 /\ US[7].code = 66 /\ US[8].code = 77
        /\ US[9].code = 79 /\ US[10].code = 107 /\ US[11].code = 108 /\ US[12].code = 127
    BY DEF US, KeyRow
  <2> QED BY <2>1
<1>4. US[4].code = ShiftKey /\ US[4].levels[1] = "Shift_L"
  BY DEF US, KeyRow, ShiftKey
<1>5. US[11].code = AltGrKey /\ US[11].levels[1] = "Alt_R"
  BY DEF US, KeyRow, AltGrKey
<1> QED BY <1>1, <1>2, <1>3, <1>4, <1>5 DEF LayoutFits

LEMMA BRFits == LayoutFits(BR)
<1>1. Len(BR) = 14 /\ DOMAIN BR = 1..14
  BY DEF BR
<1>2. \A i \in 1..14 : RowFits(BR[i])
  <2>1. /\ RowFits(BR[5]) /\ RowFits(BR[7]) /\ RowFits(BR[8]) /\ RowFits(BR[9])
        /\ RowFits(BR[13])
    BY OneFits DEF BR, ModifierSyms
  <2>2. /\ RowFits(BR[10]) /\ RowFits(BR[12]) /\ RowFits(BR[14])
    BY TwoFits DEF BR, ModifierSyms
  <2>3. /\ RowFits(BR[1]) /\ RowFits(BR[2]) /\ RowFits(BR[3]) /\ RowFits(BR[4])
        /\ RowFits(BR[6]) /\ RowFits(BR[11])
    BY FourFits DEF BR, ModifierSyms
  <2> QED BY <2>1, <2>2, <2>3
<1>3. \A i, j \in 1..14 : BR[i].code = BR[j].code => i = j
  <2>1. /\ BR[1].code = 10 /\ BR[2].code = 24 /\ BR[3].code = 38 /\ BR[4].code = 47
        /\ BR[5].code = 50 /\ BR[6].code = 61 /\ BR[7].code = 62 /\ BR[8].code = 66
        /\ BR[9].code = 77 /\ BR[10].code = 79 /\ BR[11].code = 97 /\ BR[12].code = 107
        /\ BR[13].code = 108 /\ BR[14].code = 127
    BY DEF BR, KeyRow
  <2> QED BY <2>1
<1>4. BR[5].code = ShiftKey /\ BR[5].levels[1] = "Shift_L"
  BY DEF BR, KeyRow, ShiftKey
<1>5. BR[13].code = AltGrKey /\ BR[13].levels[1] = "ISO_Level3_Shift"
  BY DEF BR, KeyRow, AltGrKey
<1> QED BY <1>1, <1>2, <1>3, <1>4, <1>5 DEF LayoutFits

LEMMA USINTLFits == LayoutFits(US_INTL)
<1>1. Len(US_INTL) = 14 /\ DOMAIN US_INTL = 1..14
  BY DEF US_INTL
<1>2. \A i \in 1..14 : RowFits(US_INTL[i])
  <2>1. /\ RowFits(US_INTL[6]) /\ RowFits(US_INTL[8]) /\ RowFits(US_INTL[9]) /\ RowFits(US_INTL[10])
        /\ RowFits(US_INTL[13])
    BY OneFits DEF US_INTL, ModifierSyms
  <2>2. /\ RowFits(US_INTL[11]) /\ RowFits(US_INTL[12]) /\ RowFits(US_INTL[14])
    BY TwoFits DEF US_INTL, ModifierSyms
  <2>3. /\ RowFits(US_INTL[1]) /\ RowFits(US_INTL[2]) /\ RowFits(US_INTL[3]) /\ RowFits(US_INTL[4])
        /\ RowFits(US_INTL[5]) /\ RowFits(US_INTL[7])
    BY FourFits DEF US_INTL, ModifierSyms
  <2> QED BY <2>1, <2>2, <2>3
<1>3. \A i, j \in 1..14 : US_INTL[i].code = US_INTL[j].code => i = j
  <2>1. /\ US_INTL[1].code = 10 /\ US_INTL[2].code = 38 /\ US_INTL[3].code = 39 /\ US_INTL[4].code = 47
        /\ US_INTL[5].code = 48 /\ US_INTL[6].code = 50 /\ US_INTL[7].code = 61 /\ US_INTL[8].code = 62
        /\ US_INTL[9].code = 66 /\ US_INTL[10].code = 77 /\ US_INTL[11].code = 79 /\ US_INTL[12].code = 107
        /\ US_INTL[13].code = 108 /\ US_INTL[14].code = 127
    BY DEF US_INTL, KeyRow
  <2> QED BY <2>1
<1>4. US_INTL[6].code = ShiftKey /\ US_INTL[6].levels[1] = "Shift_L"
  BY DEF US_INTL, KeyRow, ShiftKey
<1>5. US_INTL[13].code = AltGrKey /\ US_INTL[13].levels[1] = "ISO_Level3_Shift"
  BY DEF US_INTL, KeyRow, AltGrKey
<1> QED BY <1>1, <1>2, <1>3, <1>4, <1>5 DEF LayoutFits

\* The rows of every layout fit their kinds, and no code is in two of them.
LEMMA EveryLayoutFits == ASSUME NEW layout \in LAYOUTS PROVE LayoutFits(Rows(layout))
<1>1. CASE layout = "us"
  BY <1>1, USFits DEF Rows
<1>2. CASE layout = "br"
  BY <1>2, BRFits DEF Rows
<1>3. CASE layout = "us+intl"
  BY <1>3, USINTLFits DEF Rows
<1> QED BY <1>1, <1>2, <1>3 DEF LAYOUTS

-----------------------------------------------------------------------------
(* A key and its row.                                                      *)

\* The row that is found by its code is the one at its place,
LEMMA RowAt ==
    ASSUME NEW layout \in LAYOUTS, NEW i \in DOMAIN Rows(layout)
    PROVE  /\ Rows(layout)[i].code \in Codes(layout)
           /\ Row(layout, Rows(layout)[i].code) = Rows(layout)[i]
<1> DEFINE table == Rows(layout)
<1>1. LayoutFits(table)
  BY EveryLayoutFits
<1>2. table[i] \in ToSet(table)
  BY DEF ToSet
<1>3. i \in DOMAIN table
  OBVIOUS
<1> HIDE DEF table
<1>4. \A r \in ToSet(table) : r.code = table[i].code => r = table[i]
  BY <1>1, <1>3 DEF LayoutFits, ToSet
<1>5. table[i].code \in Codes(layout)
  BY <1>2 DEF Codes, table
<1>6. Row(layout, table[i].code) = CHOOSE r \in ToSet(table) : r.code = table[i].code
  BY DEF Row, table
<1>7. Row(layout, table[i].code) = table[i]
  BY <1>2, <1>4, <1>6
<1> QED BY <1>5, <1>7 DEF table

\* and every code has one that fits.
LEMMA RowOf ==
    ASSUME NEW layout \in LAYOUTS, NEW code \in Codes(layout)
    PROVE  /\ RowFits(Row(layout, code)) /\ Row(layout, code).code = code
           /\ \E i \in DOMAIN Rows(layout) : Row(layout, code) = Rows(layout)[i]
<1>1. PICK i \in DOMAIN Rows(layout) : Rows(layout)[i].code = code
  BY DEF Codes, ToSet
<1>2. Row(layout, code) = Rows(layout)[i]
  BY <1>1, RowAt
<1>3. RowFits(Rows(layout)[i])
  BY EveryLayoutFits DEF LayoutFits
<1> QED BY <1>1, <1>2, <1>3

-----------------------------------------------------------------------------
(* The level of a key, from both ends.                                     *)

\* The first entry with mods in it is the only one, or there is none.
First(selects, mods) == SelectInSeq(selects, LAMBDA combinations : mods \in combinations)

\* A client takes the first level that the modifiers select: the only one there is,
LEMMA OnlyOne ==
    ASSUME NEW selects, Len(selects) \in Nat, NEW mods, NEW i \in 1..Len(selects),
           mods \in selects[i], \A j \in 1..Len(selects) : mods \in selects[j] => j = i
    PROVE  First(selects, mods) = i
<1>1. {j \in 1..Len(selects) : mods \in selects[j]} = {i}
  OBVIOUS
<1>2. Min({i}) = i
  BY DEF Min
<1> QED BY <1>1, <1>2 DEF First, SelectInSeq

\* or none.
LEMMA NotOne ==
    ASSUME NEW selects, NEW mods, \A j \in 1..Len(selects) : mods \notin selects[j]
    PROVE  First(selects, mods) = 0
<1>1. {j \in 1..Len(selects) : mods \in selects[j]} = {}
  OBVIOUS
<1> QED BY <1>1 DEF First, SelectInSeq


\* So it does for a key of two levels,
LEMMA TwoLevels ==
    ASSUME NEW one, NEW selects, NEW own, selects = << {{one}} >>
    PROVE  First(selects, own) = IF own = {one} THEN 1 ELSE 0
<1>1. /\ Len(selects) = 1 /\ 1 \in 1..Len(selects) /\ selects[1] = {{one}}
      /\ \A j \in 1..Len(selects) : j = 1
  OBVIOUS
<1>2. CASE own = {one}
  <2>1. own \in selects[1] /\ Len(selects) \in Nat
    BY <1>1, <1>2
  <2>2. First(selects, own) = 1
    BY <1>1, <2>1, OnlyOne
  <2> QED BY <1>2, <2>2
<1>3. CASE own # {one}
  <2>1. \A j \in 1..Len(selects) : own \notin selects[j]
    BY <1>1, <1>3
  <2> QED BY <1>3, <2>1, NotOne
<1> QED BY <1>2, <1>3

\* and for a key of four.
LEMMA FourLevels ==
    ASSUME NEW a, NEW b, NEW c, NEW selects, NEW mods, selects = <<a, b, c>>,
           ~(mods \in a /\ mods \in b), ~(mods \in a /\ mods \in c), ~(mods \in b /\ mods \in c)
    PROVE  First(selects, mods) = IF mods \in a THEN 1 ELSE IF mods \in b THEN 2
                                  ELSE IF mods \in c THEN 3 ELSE 0
<1>1. /\ Len(selects) = 3 /\ selects[1] = a /\ selects[2] = b /\ selects[3] = c
      /\ \A j \in 1..Len(selects) : j \in {1, 2, 3}
  OBVIOUS
<1>2. CASE mods \in a
  BY <1>1, <1>2, OnlyOne
<1>3. CASE mods \in b
  BY <1>1, <1>3, OnlyOne
<1>4. CASE mods \in c
  BY <1>1, <1>4, OnlyOne
<1>5. CASE mods \notin a /\ mods \notin b /\ mods \notin c
  BY <1>1, <1>5, NotOne
<1> QED BY <1>2, <1>3, <1>4, <1>5

\* The level that the seat reads off a key by cases is the one that a client reads off the
\* table of the key's type, for every key of every layout and all modifiers.
LEMMA LevelsAgree ==
    ASSUME NEW layout \in LAYOUTS, NEW code \in Codes(layout), NEW mods,
           NEW sent, sent.depressed \cup sent.locked = mods
    PROVE  LevelForKey(layout, code, mods) = ClientLevel(layout, code, sent)
<1> DEFINE r == Row(layout, code)
           type == TYPES[r.kind]
           own == mods \cap type.looks
<1>1. RowFits(r)
  BY RowOf
<1>2. ClientLevel(layout, code, sent) = 1 + First(type.selects, own)
  BY DEF ClientLevel, First, SelectInSeq
<1>3. CASE r.kind = "OneLevel"
  <2>1. type.selects = <<>> /\ Len(type.selects) = 0
    BY <1>3 DEF TYPES
  <2>2. First(type.selects, own) = 0
    BY <2>1, NotOne
  <2>3. LevelForKey(layout, code, mods) = 1
    BY <1>1, <1>3 DEF LevelForKey, RowFits, LevelCount
  <2> QED BY <1>2, <2>2, <2>3
<1>4. CASE r.kind = "TwoLevel"
  <2>1. type.selects = << {{"Shift"}} >> /\ type.looks = {"Shift"}
    BY <1>4 DEF TYPES
  <2>2. LevelForKey(layout, code, mods) = IF "Shift" \in mods THEN 2 ELSE 1
    BY <1>1, <1>4 DEF LevelForKey, RowFits, LevelCount
  <2>3. First(type.selects, own) = IF own = {"Shift"} THEN 1 ELSE 0
    BY <2>1, TwoLevels
  <2>4. own = {"Shift"} <=> "Shift" \in mods
    BY <2>1
  <2> QED BY <1>2, <2>2, <2>3, <2>4
<1>5. CASE r.kind = "Keypad"
  <2>1. type.selects = << {{"Mod2"}} >> /\ type.looks = {"Shift", "Mod2"}
    BY <1>5 DEF TYPES
  <2>2. LevelForKey(layout, code, mods) = IF "Mod2" \in mods /\ "Shift" \notin mods THEN 2 ELSE 1
    BY <1>1, <1>5 DEF LevelForKey, RowFits, LevelCount
  <2>3. First(type.selects, own) = IF own = {"Mod2"} THEN 1 ELSE 0
    <3>1. PICK o : o = own
      OBVIOUS
    <3>2. PICK s : s = type.selects /\ s = << {{"Mod2"}} >>
      BY <2>1
    <3>3. First(s, o) = IF o = {"Mod2"} THEN 1 ELSE 0
      BY <3>2, TwoLevels
    <3> QED BY <3>1, <3>2, <3>3
  <2>4. own = {"Mod2"} <=> "Mod2" \in mods /\ "Shift" \notin mods
    BY <2>1
  <2> QED BY <1>2, <2>2, <2>3, <2>4
<1>6. CASE r.kind = "AltLevel2"
  <2>1. type.selects = << {{"Mod1"}} >> /\ type.looks = {"Mod1"}
    BY <1>6 DEF TYPES
  <2>2. LevelForKey(layout, code, mods) = IF "Mod1" \in mods THEN 2 ELSE 1
    BY <1>1, <1>6 DEF LevelForKey, RowFits, LevelCount
  <2>3. First(type.selects, own) = IF own = {"Mod1"} THEN 1 ELSE 0
    BY <2>1, TwoLevels
  <2>4. own = {"Mod1"} <=> "Mod1" \in mods
    BY <2>1
  <2> QED BY <1>2, <2>2, <2>3, <2>4
<1>7. CASE r.kind = "ControlLevel2"
  <2>1. type.selects = << {{"Control"}} >> /\ type.looks = {"Control"}
    BY <1>7 DEF TYPES
  <2>2. LevelForKey(layout, code, mods) = IF "Control" \in mods THEN 2 ELSE 1
    BY <1>1, <1>7 DEF LevelForKey, RowFits, LevelCount
  <2>3. First(type.selects, own) = IF own = {"Control"} THEN 1 ELSE 0
    BY <2>1, TwoLevels
  <2>4. own = {"Control"} <=> "Control" \in mods
    BY <2>1
  <2> QED BY <1>2, <2>2, <2>3, <2>4
<1>8. CASE r.kind = "Alphabetic"
  <2>1. type.selects = << {{"Shift"}, {"Lock"}} >> /\ type.looks = {"Shift", "Lock"}
    BY <1>8 DEF TYPES
  <2>2. LevelForKey(layout, code, mods) = IF ("Shift" \in mods) # ("Lock" \in mods) THEN 2 ELSE 1
    BY <1>1, <1>8 DEF LevelForKey, RowFits, LevelCount
  <2>3. /\ Len(type.selects) = 1 /\ type.selects[1] = {{"Shift"}, {"Lock"}}
        /\ 1 \in 1..Len(type.selects) /\ Len(type.selects) \in Nat
        /\ \A j \in 1..Len(type.selects) : j = 1
    BY <2>1
  <2>4. CASE ("Shift" \in mods) # ("Lock" \in mods)
    <3>1. own = {"Shift"} \/ own = {"Lock"}
      BY <2>1, <2>4
    <3>2. own \in type.selects[1]
      BY <2>3, <3>1
    <3>3. First(type.selects, own) = 1
      BY <2>3, <3>2, OnlyOne
    <3> QED BY <1>2, <2>2, <2>4, <3>3
  <2>5. CASE ("Shift" \in mods) = ("Lock" \in mods)
    <3>1. own # {"Shift"} /\ own # {"Lock"}
      BY <2>1, <2>5
    <3>2. First(type.selects, own) = 0
      BY <2>3, <3>1, NotOne
    <3> QED BY <1>2, <2>2, <2>5, <3>2
  <2> QED BY <2>4, <2>5
<1>9. CASE r.kind = "FourLevel"
  <2> DEFINE a == {{"Shift"}}
             b == {{"Mod5"}}
             c == {{"Shift", "Mod5"}}
  <2>1. type.selects = <<a, b, c>> /\ type.looks = {"Shift", "Mod5"}
    BY <1>9 DEF TYPES
  <2>2. LevelForKey(layout, code, mods) = (IF "Shift" \in mods THEN 2 ELSE 1)
                                          + (IF "Mod5" \in mods THEN 2 ELSE 0)
    BY <1>1, <1>9 DEF LevelForKey, RowFits, LevelCount
  <2>3. /\ own \in a <=> "Shift" \in mods /\ "Mod5" \notin mods
        /\ own \in b <=> "Shift" \notin mods /\ "Mod5" \in mods
        /\ own \in c <=> "Shift" \in mods /\ "Mod5" \in mods
    BY <2>1
  <2> HIDE DEF a, b, c
  <2>4. First(type.selects, own) = IF own \in a THEN 1 ELSE IF own \in b THEN 2
                                   ELSE IF own \in c THEN 3 ELSE 0
    BY <2>1, <2>3, FourLevels
  <2> QED BY <1>2, <2>2, <2>3, <2>4
<1>10. CASE r.kind = "FourLevelAlphabetic"
  <2> DEFINE a == {{"Shift"}, {"Lock"}}
             b == {{"Mod5"}, {"Shift", "Lock", "Mod5"}}
             c == {{"Shift", "Mod5"}, {"Lock", "Mod5"}}
             capsed == ("Shift" \in mods) # ("Lock" \in mods)
  <2>1. type.selects = <<a, b, c>> /\ type.looks = {"Shift", "Lock", "Mod5"}
    BY <1>10 DEF TYPES
  <2>2. LevelForKey(layout, code, mods) = (IF capsed THEN 2 ELSE 1)
                                          + (IF "Mod5" \in mods THEN 2 ELSE 0)
    BY <1>1, <1>10 DEF LevelForKey, RowFits, LevelCount
  <2>3. /\ own \in a <=> capsed /\ "Mod5" \notin mods
        /\ own \in b <=> ~capsed /\ "Mod5" \in mods
        /\ own \in c <=> capsed /\ "Mod5" \in mods
    BY <2>1
  <2> HIDE DEF a, b, c
  <2>4. First(type.selects, own) = IF own \in a THEN 1 ELSE IF own \in b THEN 2
                                   ELSE IF own \in c THEN 3 ELSE 0
    BY <2>1, <2>3, FourLevels
  <2> QED BY <1>2, <2>2, <2>3, <2>4
<1>11. CASE r.kind = "FourLevelSemiAlphabetic"
  <2> DEFINE a == {{"Shift"}, {"Lock"}}
             b == {{"Mod5"}, {"Lock", "Mod5"}}
             c == {{"Shift", "Mod5"}, {"Shift", "Lock", "Mod5"}}
             capsed == ("Shift" \in mods) # ("Lock" \in mods)
  <2>1. type.selects = <<a, b, c>> /\ type.looks = {"Shift", "Lock", "Mod5"}
    BY <1>11 DEF TYPES
  <2>2. LevelForKey(layout, code, mods) =
            IF "Mod5" \in mods THEN (IF "Shift" \in mods THEN 4 ELSE 3)
            ELSE IF capsed THEN 2 ELSE 1
    BY <1>1, <1>11 DEF LevelForKey, RowFits, LevelCount
  <2>3. /\ own \in a <=> capsed /\ "Mod5" \notin mods
        /\ own \in b <=> "Shift" \notin mods /\ "Mod5" \in mods
        /\ own \in c <=> "Shift" \in mods /\ "Mod5" \in mods
    BY <2>1
  <2> HIDE DEF a, b, c
  <2>4. First(type.selects, own) = IF own \in a THEN 1 ELSE IF own \in b THEN 2
                                   ELSE IF own \in c THEN 3 ELSE 0
    BY <2>1, <2>3, FourLevels
  <2> QED BY <1>2, <2>2, <2>3, <2>4
<1> QED BY <1>1, <1>3, <1>4, <1>5, <1>6, <1>7, <1>8, <1>9, <1>10, <1>11 DEF RowFits, Kinds

-----------------------------------------------------------------------------
(* The state of a keyboard is what is held and what is locked: the rest    *)
(* follows.                                                                *)

Locks == {"Lock", "Mod2"}
Mods(held, locked, layout) == [depressed |-> BitsOf(layout, held), locked |-> locked]
Settled(held, locked, layout) ==
    [held |-> held, depressed |-> BitsOf(layout, held), locked |-> locked,
     sent |-> Mods(held, locked, layout)]

LEMMA BitsTyped ==
    /\ \A sym : ModifierBit(sym) \subseteq Modifiers /\ LockBit(sym) \subseteq Locks
    /\ \A layout, held : BitsOf(layout, held) \subseteq Modifiers
<1>1. \A sym : ModifierBit(sym) \subseteq Modifiers
  BY DEF ModifierBit, Modifiers
<1>2. \A sym : LockBit(sym) \subseteq Locks
  BY DEF LockBit, Locks
<1>3. \A layout, held : BitsOf(layout, held) \subseteq Modifiers
  BY <1>1 DEF BitsOf
<1> QED BY <1>1, <1>2, <1>3

\* What is held turns modifiers on one key at a time.
LEMMA BitsAdd ==
    ASSUME NEW layout, NEW held, NEW code
    PROVE  BitsOf(layout, held \cup {code})
               = BitsOf(layout, held) \cup ModifierBit(FirstSym(layout, code))
BY DEF BitsOf

\* What is told is what is so.
LEMMA ToldSettles ==
    ASSUME NEW layout, NEW held, NEW locked, NEW h, NEW l, NEW after,
           after = [held |-> h, depressed |-> BitsOf(layout, h), locked |-> l,
                    sent |-> Mods(held, locked, layout)]
    PROVE  Told(Settled(held, locked, layout), after) = Settled(h, l, layout)
<1> DEFINE before == Settled(held, locked, layout)
<1>1. /\ before.depressed = BitsOf(layout, held) /\ before.locked = locked
      /\ after.depressed = BitsOf(layout, h) /\ after.locked = l
  BY DEF Settled
<1>2. CASE Changed(before, after)
  <2>1. Told(before, after) = [after EXCEPT !.sent = Reported(after)]
    BY <1>2 DEF Told
  <2>2. Reported(after) = Mods(h, l, layout)
    BY <1>1 DEF Reported, Mods
  <2> QED BY <2>1, <2>2 DEF Settled
<1>3. CASE ~Changed(before, after)
  <2>1. BitsOf(layout, h) = BitsOf(layout, held) /\ l = locked
    BY <1>1, <1>3 DEF Changed
  <2>2. Told(before, after) = after
    BY <1>3 DEF Told
  <2> QED BY <2>1, <2>2 DEF Settled, Mods
<1> QED BY <1>2, <1>3

Turn(locked, bit) == (locked \ bit) \cup (bit \ locked)

\* A key goes down, and up.
LEMMA KeyGoesDown ==
    ASSUME NEW layout, NEW held, NEW locked, NEW code
    PROVE  UpdateKey(Settled(held, locked, layout), layout, code, TRUE)
               = Settled(held \cup {code}, Turn(locked, LockBit(FirstSym(layout, code))), layout)
<1>1. PICK k : k = Settled(held, locked, layout)
  OBVIOUS
<1>2. k = [held |-> held, depressed |-> BitsOf(layout, held), locked |-> locked,
           sent |-> Mods(held, locked, layout)]
  BY <1>1 DEF Settled
<1>3. PICK after : after = Down(k, layout, code)
  OBVIOUS
<1>4. after = [held |-> held \cup {code}, depressed |-> BitsOf(layout, held \cup {code}),
               locked |-> Turn(locked, LockBit(FirstSym(layout, code))),
               sent |-> Mods(held, locked, layout)]
  <2>1. PICK bit, own : bit = LockBit(FirstSym(layout, code)) /\ own = ModifierBit(FirstSym(layout, code))
    OBVIOUS
  <2>2. after = [k EXCEPT !.held = @ \cup {code}, !.depressed = @ \cup own,
                          !.locked = (@ \ bit) \cup (bit \ @)]
    BY <1>3, <2>1 DEF Down
  <2>3. after = [held |-> held \cup {code}, depressed |-> BitsOf(layout, held) \cup own,
                 locked |-> (locked \ bit) \cup (bit \ locked),
                 sent |-> Mods(held, locked, layout)]
    BY <1>2, <2>2
  <2> QED BY <2>1, <2>3, BitsAdd DEF Turn
<1>5. UpdateKey(k, layout, code, TRUE) = Told(k, Down(k, layout, code))
  BY DEF UpdateKey
<1>6. Told(Settled(held, locked, layout), after)
        = Settled(held \cup {code}, Turn(locked, LockBit(FirstSym(layout, code))), layout)
  BY <1>4, ToldSettles
<1> QED BY <1>1, <1>3, <1>5, <1>6

\* A settled keyboard is settled after a key goes up,
LEMMA KeyGoesUp ==
    ASSUME NEW layout, NEW held, NEW locked, NEW code
    PROVE  UpdateKey(Settled(held, locked, layout), layout, code, FALSE)
               = Settled(held \ {code}, locked, layout)
<1>1. PICK k : k = Settled(held, locked, layout)
  OBVIOUS
<1>2. k = [held |-> held, depressed |-> BitsOf(layout, held), locked |-> locked,
           sent |-> Mods(held, locked, layout)]
  BY <1>1 DEF Settled
<1>3. PICK after : after = Up(k, layout, code)
  OBVIOUS
<1>4. after = [held |-> held \ {code}, depressed |-> BitsOf(layout, held \ {code}),
               locked |-> locked, sent |-> Mods(held, locked, layout)]
  <2>1. k.held = held
    BY <1>2
  <2>2. after = [k EXCEPT !.held = @ \ {code}, !.depressed = BitsOf(layout, held \ {code})]
    BY <1>3, <2>1 DEF Up
  <2> QED BY <1>2, <2>2
<1>5. UpdateKey(k, layout, code, FALSE) = Told(k, Up(k, layout, code))
  BY DEF UpdateKey
<1>6. Told(Settled(held, locked, layout), after) = Settled(held \ {code}, locked, layout)
  BY <1>4, ToldSettles
<1> QED BY <1>1, <1>3, <1>5, <1>6

\* All keys go up; a new keymap is compiled.
LEMMA AllGoUp ==
    ASSUME NEW layout, NEW held, NEW locked
    PROVE  Told(Settled(held, locked, layout),
                [Settled(held, locked, layout) EXCEPT !.held = {}, !.depressed = {}])
               = Settled({}, locked, layout)
<1>1. BitsOf(layout, {}) = {}
  BY DEF BitsOf
<1>2. PICK k : k = Settled(held, locked, layout)
  OBVIOUS
<1>3. PICK after : after = [k EXCEPT !.held = {}, !.depressed = {}]
  OBVIOUS
<1>4. k = [held |-> held, depressed |-> BitsOf(layout, held), locked |-> locked,
           sent |-> Mods(held, locked, layout)]
  BY <1>2 DEF Settled
<1>5. after = [held |-> {}, depressed |-> BitsOf(layout, {}), locked |-> locked,
               sent |-> Mods(held, locked, layout)]
  BY <1>1, <1>3, <1>4
<1>6. Told(Settled(held, locked, layout), after) = Settled({}, locked, layout)
  BY <1>5, ToldSettles
<1> QED BY <1>2, <1>3, <1>6

\* and after its keymap is compiled anew, whichever locks that leaves on.
LEMMA RecompiledSettles ==
    ASSUME NEW layout, NEW held, NEW locked, NEW old, kb = Settled(held, locked, old)
    PROVE  \E l \in SUBSET Locks : Recompiled(layout) = Settled(held, l, layout)
<1>1. PICK l : l = {bit \in {"Lock", "Mod2"} : Turned(layout, bit)}
  OBVIOUS
<1>2. l \in SUBSET Locks
  BY <1>1 DEF Locks
<1>3. kb = [held |-> held, depressed |-> BitsOf(old, held), locked |-> locked,
            sent |-> Mods(held, locked, old)]
  BY DEF Settled
<1>4. PICK k : k = [kb EXCEPT !.depressed = BitsOf(layout, kb.held), !.locked = l]
  OBVIOUS
<1>5. k = [held |-> held, depressed |-> BitsOf(layout, held), locked |-> l,
           sent |-> Mods(held, locked, old)]
  <2>1. kb.held = held
    BY <1>3
  <2>2. PICK d : d = BitsOf(layout, held)
    OBVIOUS
  <2>3. PICK m, o : m = Mods(held, locked, old) /\ o = BitsOf(old, held)
    OBVIOUS
  <2>4. PICK q : q = kb
    OBVIOUS
  <2>5. k = [q EXCEPT !.depressed = d, !.locked = l]
    BY <1>4, <2>1, <2>2, <2>4
  <2>6. q = [held |-> held, depressed |-> o, locked |-> locked, sent |-> m]
    BY <1>3, <2>3, <2>4
  <2>7. k = [held |-> held, depressed |-> d, locked |-> l, sent |-> m]
    BY <2>5, <2>6
  <2> QED BY <2>2, <2>3, <2>7
<1>6. Recompiled(layout) = [k EXCEPT !.sent = Reported(k)]
  BY <1>1, <1>4 DEF Recompiled
<1>7. Reported(k) = Mods(held, l, layout)
  BY <1>5 DEF Reported, Mods
<1>8. Recompiled(layout) = Settled(held, l, layout)
  BY <1>5, <1>6, <1>7 DEF Settled
<1> QED BY <1>2, <1>8

-----------------------------------------------------------------------------
(* One step, and the steps of an entry.                                    *)

\* A keyboard that is settled for a layout, and what has been read off it.
IsSettled(k, layout) ==
    k.held \subseteq Nat /\ k.locked \subseteq Locks /\ k = Settled(k.held, k.locked, layout)

AllMods == [depressed : SUBSET Modifiers, locked : SUBSET Locks]
Keyboards == [held : SUBSET Nat, depressed : SUBSET Modifiers, locked : SUBSET Locks,
              sent : AllMods]
SettledFor(layout) == {k \in Keyboards : IsSettled(k, layout)}
RowSyms(r) == {r.levels[l] : l \in 1..4}
Syms(layout) == UNION {RowSyms(r) : r \in ToSet(Rows(layout))}
Reads(layout) == [kb : SettledFor(layout), seen : Seq(Syms(layout))]
KeySteps == [code : Nat, down : BOOLEAN]

\* What is held and which locks are on make up the whole settled keyboard.
LEMMA SettledIn ==
    ASSUME NEW layout, NEW h \in SUBSET Nat, NEW l \in SUBSET Locks
    PROVE  /\ Settled(h, l, layout) \in SettledFor(layout)
           /\ Settled(h, l, layout).held = h /\ Settled(h, l, layout).locked = l
<1>1. PICK d : d = BitsOf(layout, h) /\ d \in SUBSET Modifiers
  BY BitsTyped
<1>2. PICK m : m = Mods(h, l, layout) /\ m \in AllMods
  <2>1. [depressed |-> d, locked |-> l] \in AllMods
    BY <1>1 DEF AllMods
  <2> QED BY <1>1, <2>1 DEF Mods
<1>3. PICK k : k = Settled(h, l, layout)
  OBVIOUS
<1>4. k = [held |-> h, depressed |-> d, locked |-> l, sent |-> m]
  BY <1>1, <1>2, <1>3 DEF Settled
<1>5. k.held = h /\ k.locked = l /\ k \in Keyboards
  BY <1>1, <1>2, <1>4 DEF Keyboards
<1> QED BY <1>3, <1>5 DEF SettledFor, IsSettled

\* The level of a key is one of four, and its symbol is in the layout.
LEMMA LevelTyped ==
    ASSUME NEW layout \in LAYOUTS, NEW code \in Codes(layout), NEW mods
    PROVE  LevelForKey(layout, code, mods) \in 1..4
<1>1. PICK r : r = Row(layout, code) /\ RowFits(r)
  BY RowOf
<1>2. CASE r.kind = "OneLevel"
  BY <1>1, <1>2 DEF LevelForKey, RowFits, LevelCount
<1>3. CASE r.kind = "TwoLevel"
  BY <1>1, <1>3 DEF LevelForKey, RowFits, LevelCount
<1>4. CASE r.kind = "Alphabetic"
  BY <1>1, <1>4 DEF LevelForKey, RowFits, LevelCount
<1>5. CASE r.kind = "Keypad"
  BY <1>1, <1>5 DEF LevelForKey, RowFits, LevelCount
<1>6. CASE r.kind = "AltLevel2"
  BY <1>1, <1>6 DEF LevelForKey, RowFits, LevelCount
<1>7. CASE r.kind = "ControlLevel2"
  BY <1>1, <1>7 DEF LevelForKey, RowFits, LevelCount
<1>8. CASE r.kind = "FourLevel"
  BY <1>1, <1>8 DEF LevelForKey, RowFits, LevelCount
<1>9. CASE r.kind = "FourLevelAlphabetic"
  BY <1>1, <1>9 DEF LevelForKey, RowFits, LevelCount
<1>10. CASE r.kind = "FourLevelSemiAlphabetic"
  BY <1>1, <1>10 DEF LevelForKey, RowFits, LevelCount
<1> QED BY <1>1, <1>2, <1>3, <1>4, <1>5, <1>6, <1>7, <1>8, <1>9, <1>10 DEF RowFits, Kinds

\* A client always reads a symbol of the layout off a key.
LEMMA SymRead ==
    ASSUME NEW layout \in LAYOUTS, NEW code \in Codes(layout), NEW sent
    PROVE  Row(layout, code).levels[ClientLevel(layout, code, sent)] \in Syms(layout)
<1>1. PICK mods : mods = sent.depressed \cup sent.locked
  OBVIOUS
<1>2. PICK level : level = LevelForKey(layout, code, mods)
  OBVIOUS
<1>3. level \in 1..4
  BY <1>2, LevelTyped
<1>4. ClientLevel(layout, code, sent) = level
  BY <1>1, <1>2, LevelsAgree
<1>5. PICK r : r = Row(layout, code) /\ r \in ToSet(Rows(layout))
  BY RowOf DEF ToSet
<1>6. r.levels[level] \in RowSyms(r)
  BY <1>3 DEF RowSyms
<1> QED BY <1>4, <1>5, <1>6 DEF Syms

\* What a client reads in a key that goes down.
Typing(layout, code) == code \in Codes(layout) /\ ~IsModifierKeysym(FirstSym(layout, code))
ReadOff(acc, code, layout) ==
    IF Typing(layout, code)
    THEN Append(acc.seen, Row(layout, code).levels[ClientLevel(layout, code, acc.kb.sent)])
    ELSE acc.seen

LEMMA StepDown ==
    ASSUME NEW layout \in LAYOUTS, NEW acc \in Reads(layout), NEW code \in Nat
    PROVE  /\ ApplyStep(acc, KeyStep(code, TRUE), layout)
                = [kb |-> Settled(acc.kb.held \cup {code},
                                  Turn(acc.kb.locked, LockBit(FirstSym(layout, code))), layout),
                   seen |-> ReadOff(acc, code, layout)]
           /\ ApplyStep(acc, KeyStep(code, TRUE), layout) \in Reads(layout)
<1>1. PICK k, s : /\ k = acc.kb /\ s = acc.seen /\ k \in SettledFor(layout)
                  /\ s \in Seq(Syms(layout))
  BY DEF Reads
<1>2. PICK h, l : /\ h = k.held /\ l = k.locked /\ h \in SUBSET Nat /\ l \in SUBSET Locks
                  /\ k = Settled(h, l, layout)
  BY <1>1 DEF SettledFor, IsSettled
<1>3. PICK t : t = Turn(l, LockBit(FirstSym(layout, code))) /\ t \in SUBSET Locks
  BY <1>2, BitsTyped DEF Turn
<1>4. UpdateKey(k, layout, code, TRUE) = Settled(h \cup {code}, t, layout)
  <2>1. UpdateKey(Settled(h, l, layout), layout, code, TRUE)
          = Settled(h \cup {code}, Turn(l, LockBit(FirstSym(layout, code))), layout)
    BY KeyGoesDown
  <2> QED BY <1>2, <1>3, <2>1
<1>5. h \cup {code} \in SUBSET Nat
  BY <1>2
<1>6. Settled(h \cup {code}, t, layout) \in SettledFor(layout)
  BY <1>3, <1>5, SettledIn
<1>7. KeyStep(code, TRUE).code = code /\ KeyStep(code, TRUE).down = TRUE
  BY DEF KeyStep
<1>8. ReadOff(acc, code, layout) \in Seq(Syms(layout))
  BY <1>1, SymRead DEF ReadOff, Typing
<1>9. ApplyStep(acc, KeyStep(code, TRUE), layout)
        = [kb |-> UpdateKey(k, layout, code, TRUE), seen |-> ReadOff(acc, code, layout)]
  BY <1>1, <1>7 DEF ApplyStep, ReadOff, Typing
<1>10. ApplyStep(acc, KeyStep(code, TRUE), layout)
        = [kb |-> Settled(h \cup {code}, t, layout), seen |-> ReadOff(acc, code, layout)]
  BY <1>4, <1>9
<1>11. ApplyStep(acc, KeyStep(code, TRUE), layout) \in Reads(layout)
  <2>1. PICK k1, s1 : k1 = Settled(h \cup {code}, t, layout) /\ s1 = ReadOff(acc, code, layout)
    OBVIOUS
  <2>2. k1 \in SettledFor(layout) /\ s1 \in Seq(Syms(layout))
    BY <2>1, <1>6, <1>8
  <2>3. [kb |-> k1, seen |-> s1] \in Reads(layout)
    BY <2>2 DEF Reads
  <2> QED BY <1>10, <2>1, <2>3
<1> QED BY <1>1, <1>2, <1>3, <1>10, <1>11

LEMMA StepUp ==
    ASSUME NEW layout \in LAYOUTS, NEW acc \in Reads(layout), NEW code \in Nat
    PROVE  /\ ApplyStep(acc, KeyStep(code, FALSE), layout)
                = [kb |-> Settled(acc.kb.held \ {code}, acc.kb.locked, layout),
                   seen |-> acc.seen]
           /\ ApplyStep(acc, KeyStep(code, FALSE), layout) \in Reads(layout)
<1>1. PICK k, s : /\ k = acc.kb /\ s = acc.seen /\ k \in SettledFor(layout)
                  /\ s \in Seq(Syms(layout))
  BY DEF Reads
<1>2. PICK h, l : /\ h = k.held /\ l = k.locked /\ h \in SUBSET Nat /\ l \in SUBSET Locks
                  /\ k = Settled(h, l, layout)
  BY <1>1 DEF SettledFor, IsSettled
<1>3. UpdateKey(k, layout, code, FALSE) = Settled(h \ {code}, l, layout)
  <2>1. UpdateKey(Settled(h, l, layout), layout, code, FALSE)
          = Settled(h \ {code}, l, layout)
    BY KeyGoesUp
  <2> QED BY <1>2, <2>1
<1>4. h \ {code} \in SUBSET Nat
  BY <1>2
<1>5. Settled(h \ {code}, l, layout) \in SettledFor(layout)
  BY <1>2, <1>4, SettledIn
<1>6. KeyStep(code, FALSE).code = code /\ KeyStep(code, FALSE).down = FALSE
  BY DEF KeyStep
<1>7. ApplyStep(acc, KeyStep(code, FALSE), layout)
        = [kb |-> UpdateKey(k, layout, code, FALSE), seen |-> s]
  BY <1>1, <1>6 DEF ApplyStep
<1>8. ApplyStep(acc, KeyStep(code, FALSE), layout)
        = [kb |-> Settled(h \ {code}, l, layout), seen |-> s]
  BY <1>3, <1>7
<1>9. ApplyStep(acc, KeyStep(code, FALSE), layout) \in Reads(layout)
  <2>1. PICK k1, s1 : k1 = Settled(h \ {code}, l, layout) /\ s1 = s
    OBVIOUS
  <2>2. k1 \in SettledFor(layout) /\ s1 \in Seq(Syms(layout))
    BY <2>1, <1>1, <1>5
  <2>3. [kb |-> k1, seen |-> s1] \in Reads(layout)
    BY <2>2 DEF Reads
  <2> QED BY <1>8, <2>1, <2>3
<1> QED BY <1>1, <1>2, <1>8, <1>9

\* A step keeps the keyboard settled and the reader reading symbols of the layout.
LEMMA StepReads ==
    ASSUME NEW layout \in LAYOUTS, NEW acc \in Reads(layout), NEW step \in KeySteps
    PROVE  ApplyStep(acc, step, layout) \in Reads(layout)
<1>1. PICK code, down : code \in Nat /\ down \in BOOLEAN /\ step = KeyStep(code, down)
  BY DEF KeySteps, KeyStep
<1>2. CASE down = TRUE
  BY <1>1, <1>2, StepDown
<1>3. CASE down = FALSE
  BY <1>1, <1>3, StepUp
<1> QED BY <1>1, <1>2, <1>3

\* The function inside Applied, and what it holds after each step.
Running(run, acc, steps, layout) ==
    run = [n \in 0..Len(steps) |->
              IF n = 0 THEN acc ELSE ApplyStep(run[n - 1], steps[n], layout)]
Runs(run, acc, steps, layout) ==
    /\ run[0] = acc
    /\ \A n \in 1..Len(steps) : run[n] = ApplyStep(run[n - 1], steps[n], layout)

\* The recursive functions of the model have the values that their equations say: a function
\* that satisfies them exists, by adding one step at a time to one that does,
LEMMA RunningExists ==
    ASSUME NEW layout \in LAYOUTS, NEW acc \in Reads(layout), NEW steps \in Seq(KeySteps)
    PROVE  \E run \in [0..Len(steps) -> Reads(layout)] : Running(run, acc, steps, layout)
<1> DEFINE m == Len(steps)
           A == Reads(layout)
           step == [x \in A \X (1..m) |-> ApplyStep(x[1], steps[x[2]], layout)]
<1>1. m \in Nat /\ \A n \in 1..m : steps[n] \in KeySteps
  OBVIOUS
<1>2. step \in [A \X (1..m) -> A]
  <2>1. \A x \in A \X (1..m) : x[1] \in A /\ x[2] \in 1..m
    OBVIOUS
  <2>2. \A x \in A \X (1..m) : ApplyStep(x[1], steps[x[2]], layout) \in A
    BY <1>1, <2>1, StepReads
  <2> QED BY <2>2
<1>3. \A a \in A, n \in 1..m : step[<<a, n>>] = ApplyStep(a, steps[n], layout)
  <2> HIDE DEF A
  <2> QED OBVIOUS
<1> HIDE DEF step, m, A
<1>4. PICK k \in [0..m -> A] : Unrolls(k, acc, step, m)
  <2>1. acc \in A
    BY DEF A
  <2> QED BY <1>1, <1>2, <2>1, UnrollExists
<1>5. \A n \in 0..m : n # 0 => n \in 1..m /\ k[n - 1] \in A
  BY <1>1, <1>4
<1>6. \A n \in 0..m : k[n] = IF n = 0 THEN acc ELSE ApplyStep(k[n - 1], steps[n], layout)
  BY <1>3, <1>4, <1>5 DEF Unrolls
<1>7. k = [n \in 0..m |-> k[n]]
  BY <1>4
<1>8. Running(k, acc, steps, layout)
  BY <1>6, <1>7 DEF Running, m
<1> QED BY <1>4, <1>8 DEF m, A

\* the equations hold of it at each step,
LEMMA RunningRuns ==
    ASSUME NEW run, NEW acc, NEW steps, NEW layout, Len(steps) \in Nat,
           Running(run, acc, steps, layout)
    PROVE  Runs(run, acc, steps, layout)
<1>1. \A n \in 0..Len(steps) : run[n] = IF n = 0 THEN acc
                                        ELSE ApplyStep(run[n - 1], steps[n], layout)
  BY DEF Running
<1>2. 0 \in 0..Len(steps) /\ \A n \in 1..Len(steps) : n \in 0..Len(steps) /\ n # 0
  OBVIOUS
<1> QED BY <1>1, <1>2 DEF Runs

\* t is how s begins.
Begins(t, s) ==
    /\ Len(s) \in Nat /\ Len(t) \in Nat /\ Len(t) <= Len(s)
    /\ \A n \in 1..Len(t) : t[n] = s[n]

\* and two runs of which one begins the other agree as far as it goes.
LEMMA RunsAgree ==
    ASSUME NEW acc, NEW layout, NEW s, NEW t, Begins(t, s),
           NEW k, Runs(k, acc, s, layout), NEW h, Runs(h, acc, t, layout)
    PROVE  \A n \in 0..Len(t) : k[n] = h[n]
<1>1. /\ Len(s) \in Nat /\ Len(t) \in Nat /\ Len(t) <= Len(s)
      /\ \A n \in 1..Len(t) : t[n] = s[n]
  BY DEF Begins
<1> DEFINE G == {n \in 0..Len(t) : k[n] = h[n]}
<1>2. 0 \in G
  BY <1>1 DEF Runs
<1>3. ASSUME NEW m \in 0..Len(t), m # Len(t), m \in G
      PROVE  m + 1 \in G
  <2>1. k[m] = h[m] /\ m + 1 \in 1..Len(t) /\ m + 1 \in 1..Len(s) /\ (m + 1) - 1 = m
    BY <1>1, <1>3
  <2>2. k[m + 1] = h[m + 1]
    BY <1>1, <2>1 DEF Runs
  <2> QED BY <2>1, <2>2
<1> HIDE DEF G
<1>4. 0..Len(t) \subseteq G
  <2>1. \A n \in 0..Len(t) : n # Len(t) /\ n \in G => n + 1 \in G
    BY <1>3
  <2> QED BY <1>1, <1>2, <2>1, UpTo
<1> QED BY <1>4 DEF G

\* So the steps of an entry are applied one after another,
LEMMA AppliedRuns ==
    ASSUME NEW layout \in LAYOUTS, NEW acc \in Reads(layout), NEW steps \in Seq(KeySteps)
    PROVE  \E run \in [0..Len(steps) -> Reads(layout)] :
              Runs(run, acc, steps, layout) /\ Applied(acc, steps, layout) = run[Len(steps)]
<1> DEFINE k == CHOOSE k : Running(k, acc, steps, layout)
<1>1. Len(steps) \in Nat
  OBVIOUS
<1>2. PICK h \in [0..Len(steps) -> Reads(layout)] : Running(h, acc, steps, layout)
  BY RunningExists
<1>3. Running(k, acc, steps, layout)
  BY <1>2
<1>4. Applied(acc, steps, layout) = k[Len(steps)]
  BY DEF Applied, Running
<1> HIDE DEF k
<1>5. Runs(k, acc, steps, layout) /\ Runs(h, acc, steps, layout)
  BY <1>1, <1>3, <1>2, RunningRuns
<1>6. \A n \in 0..Len(steps) : k[n] = h[n]
  <2>1. Begins(steps, steps)
    BY <1>1 DEF Begins
  <2> QED BY <1>5, <2>1, RunsAgree
<1>7. Applied(acc, steps, layout) = h[Len(steps)]
  BY <1>1, <1>4, <1>6
<1> QED BY <1>2, <1>5, <1>7

\* No steps change nothing, and one more step is applied after the others.
LEMMA AppliedEmpty ==
    ASSUME NEW layout \in LAYOUTS, NEW acc \in Reads(layout)
    PROVE  Applied(acc, <<>>, layout) = acc
<1>1. PICK steps : steps = <<>>
  OBVIOUS
<1>2. steps \in Seq(KeySteps) /\ Len(steps) = 0
  BY <1>1
<1>3. PICK run \in [0..Len(steps) -> Reads(layout)] :
          Runs(run, acc, steps, layout) /\ Applied(acc, steps, layout) = run[Len(steps)]
  BY <1>2, AppliedRuns
<1> QED BY <1>1, <1>2, <1>3 DEF Runs

\* a step after some others to what they left,
LEMMA AppliedAppend ==
    ASSUME NEW layout \in LAYOUTS, NEW acc \in Reads(layout), NEW steps \in Seq(KeySteps),
           NEW step \in KeySteps
    PROVE  Applied(acc, Append(steps, step), layout)
               = ApplyStep(Applied(acc, steps, layout), step, layout)
<1>1. PICK t : t = Append(steps, step)
  OBVIOUS
<1>2. /\ t \in Seq(KeySteps) /\ Len(t) = Len(steps) + 1 /\ t[Len(steps) + 1] = step
      /\ \A n \in 1..Len(steps) : steps[n] = t[n]
      /\ Len(steps) \in Nat /\ Len(t) \in Nat /\ Len(steps) <= Len(t)
  BY <1>1
<1>3. PICK k : Runs(k, acc, t, layout) /\ Applied(acc, t, layout) = k[Len(t)]
  BY <1>2, AppliedRuns
<1>4. PICK h : Runs(h, acc, steps, layout) /\ Applied(acc, steps, layout) = h[Len(steps)]
  BY AppliedRuns
<1>5. \A n \in 0..Len(steps) : k[n] = h[n]
  <2>1. Begins(steps, t)
    BY <1>2 DEF Begins
  <2> QED BY <2>1, <1>3, <1>4, RunsAgree
<1>6. k[Len(steps)] = Applied(acc, steps, layout)
  BY <1>2, <1>4, <1>5
<1>7. k[Len(steps) + 1] = ApplyStep(k[Len(steps)], t[Len(steps) + 1], layout)
  <2>1. Len(steps) + 1 \in 1..Len(t) /\ (Len(steps) + 1) - 1 = Len(steps)
    BY <1>2
  <2> QED BY <1>3, <2>1 DEF Runs
<1> QED BY <1>1, <1>2, <1>3, <1>6, <1>7

\* and what they leave is a settled keyboard.
LEMMA AppliedTyped ==
    ASSUME NEW layout \in LAYOUTS, NEW acc \in Reads(layout), NEW steps \in Seq(KeySteps)
    PROVE  Applied(acc, steps, layout) \in Reads(layout)
<1>1. Len(steps) \in 0..Len(steps)
  OBVIOUS
<1> QED BY <1>1, AppliedRuns

-----------------------------------------------------------------------------
(* The steps of a character.                                               *)

\* The first of some numbers is one of them.
LEMMA MinIn == ASSUME NEW T \in SUBSET Nat, T # {} PROVE Min(T) \in T
<1>1. PICK x \in T : \A y \in T : ~(y < x)
  BY SmallestOf
<1>2. x \in T /\ \A y \in T : x <= y
  BY <1>1
<1> QED BY <1>2 DEF Min

\* A character that can be typed is at a level of a row.
LEMMA CharFound ==
    ASSUME NEW layout \in LAYOUTS, NEW c, Reachable(layout, c)
    PROVE  \E i \in DOMAIN Rows(layout) : \E l \in 1..LevelCount(Rows(layout)[i].kind) :
              /\ Rows(layout)[i].levels[l] = c
              /\ KeyForChar(layout, c)
                   = [code |-> Rows(layout)[i].code,
                      mods |-> ModsForLevel(Rows(layout)[i].kind, l)]
<1>1. PICK table : table = Rows(layout) /\ LayoutFits(table)
  BY EveryLayoutFits
<1>2. PICK giving : giving = {i \in DOMAIN table : c \in ToSet(table[i].levels)}
  OBVIOUS
<1>3. giving # {}
  <2>1. SUFFICES ASSUME giving = {} PROVE FALSE
    OBVIOUS
  <2>2. KeyForChar(layout, c) = Unreachable
    BY <1>1, <1>2, <2>1 DEF KeyForChar
  <2>3. "none" \in KeyForChar(layout, c).mods
    BY <2>2 DEF Unreachable
  <2> QED BY <2>3 DEF Reachable
<1>4. DOMAIN table \subseteq Nat
  BY <1>1 DEF LayoutFits
<1>5. PICK i : i = Min(giving) /\ i \in giving
  <2>1. giving \in SUBSET Nat
    BY <1>2, <1>4
  <2> QED BY <1>3, <2>1, MinIn
<1>6. i \in DOMAIN table /\ c \in ToSet(table[i].levels)
  BY <1>2, <1>5
<1>7. PICK r : r = table[i] /\ RowFits(r)
  BY <1>1, <1>6 DEF LayoutFits
<1>8. DOMAIN r.levels = 1..LevelCount(r.kind) /\ LevelCount(r.kind) \in Nat
  BY <1>7 DEF RowFits, LevelCount
<1>9. PICK at : at = {l \in DOMAIN r.levels : r.levels[l] = c}
  OBVIOUS
<1>10. PICK l : l = Min(at) /\ l \in at
  <2>1. at \in SUBSET Nat
    BY <1>8, <1>9
  <2>2. at # {}
    BY <1>6, <1>7, <1>9 DEF ToSet
  <2> QED BY <2>1, <2>2, MinIn
<1>11. KeyForChar(layout, c) = [code |-> r.code, mods |-> ModsForLevel(r.kind, l)]
  BY <1>1, <1>2, <1>3, <1>5, <1>7, <1>9, <1>10 DEF KeyForChar
<1>12. l \in 1..LevelCount(r.kind) /\ r.levels[l] = c
  BY <1>8, <1>9, <1>10
<1> QED BY <1>1, <1>6, <1>7, <1>11, <1>12

TextMods == {"Shift", "Mod5"}

\* The key that types a character is a key of the layout, with the modifiers it needs.
LEMMA CharTyped ==
    ASSUME NEW layout \in LAYOUTS, NEW c, Reachable(layout, c)
    PROVE  KeyForChar(layout, c).code \in Nat /\ KeyForChar(layout, c).mods \in SUBSET TextMods
<1>1. PICK i \in DOMAIN Rows(layout) :
          \E l : KeyForChar(layout, c) = [code |-> Rows(layout)[i].code,
                                         mods |-> ModsForLevel(Rows(layout)[i].kind, l)]
  BY CharFound
<1>2. Rows(layout)[i].code \in Nat
  BY EveryLayoutFits DEF LayoutFits, RowFits
<1>3. KeyForChar(layout, c).code \in Nat
  BY <1>1, <1>2
<1> QED BY <1>3 DEF Reachable, TextMods

\* A modifier goes down or up where it must, and a key is tapped.
Bracketed(acc, code, before, after, layout) ==
    IF before = after THEN acc ELSE ApplyStep(acc, KeyStep(code, after), layout)
Tapped(acc, code, layout) ==
    ApplyStep(ApplyStep(acc, KeyStep(code, TRUE), layout), KeyStep(code, FALSE), layout)

LEMMA StepIn ==
    /\ \A code \in Nat, down \in BOOLEAN : KeyStep(code, down) \in KeySteps
    /\ ShiftKey \in Nat /\ AltGrKey \in Nat
BY DEF KeyStep, KeySteps, ShiftKey, AltGrKey

LEMMA BracketTyped ==
    ASSUME NEW layout \in LAYOUTS, NEW acc \in Reads(layout), NEW code \in Nat,
           NEW before \in BOOLEAN, NEW after \in BOOLEAN
    PROVE  Bracketed(acc, code, before, after, layout) \in Reads(layout)
BY StepIn, StepReads DEF Bracketed

WithBracket(steps, code, before, after) == steps \o Bracket(code, before, after)

\* A bracket that is written down does to the keyboard what bracketing does,
LEMMA AppliedBracket ==
    ASSUME NEW layout \in LAYOUTS, NEW acc \in Reads(layout), NEW steps \in Seq(KeySteps),
           NEW code \in Nat, NEW before \in BOOLEAN, NEW after \in BOOLEAN
    PROVE  /\ WithBracket(steps, code, before, after) \in Seq(KeySteps)
           /\ Applied(acc, WithBracket(steps, code, before, after), layout)
                = Bracketed(Applied(acc, steps, layout), code, before, after, layout)
<1>1. CASE before = after
  <2>1. WithBracket(steps, code, before, after) = steps
    BY <1>1 DEF Bracket, WithBracket
  <2> QED BY <1>1, <2>1 DEF Bracketed
<1>2. CASE before # after
  <2>1. PICK s : s = KeyStep(code, after) /\ s \in KeySteps
    BY StepIn
  <2>2. Bracket(code, before, after) = <<s>>
    BY <1>2, <2>1 DEF Bracket
  <2>3. steps \o <<s>> = Append(steps, s) /\ Append(steps, s) \in Seq(KeySteps)
    BY <2>1
  <2>4. Applied(acc, Append(steps, s), layout) = ApplyStep(Applied(acc, steps, layout), s, layout)
    BY <2>1, AppliedAppend
  <2>5. WithBracket(steps, code, before, after) = Append(steps, s)
    BY <2>2, <2>3 DEF WithBracket
  <2>6. Bracketed(Applied(acc, steps, layout), code, before, after, layout)
          = ApplyStep(Applied(acc, steps, layout), s, layout)
    BY <1>2, <2>1 DEF Bracketed
  <2> QED BY <2>3, <2>4, <2>5, <2>6
<1> QED BY <1>1, <1>2

WithTap(steps, code) == steps \o << KeyStep(code, TRUE), KeyStep(code, FALSE) >>

\* a tap what tapping does,
LEMMA AppliedTap ==
    ASSUME NEW layout \in LAYOUTS, NEW acc \in Reads(layout), NEW steps \in Seq(KeySteps),
           NEW code \in Nat
    PROVE  /\ WithTap(steps, code) \in Seq(KeySteps)
           /\ Applied(acc, WithTap(steps, code), layout)
                = Tapped(Applied(acc, steps, layout), code, layout)
<1>1. PICK s \in KeySteps, t \in KeySteps : s = KeyStep(code, TRUE) /\ t = KeyStep(code, FALSE)
  BY StepIn
<1>2. PICK u : u = Append(steps, s)
  OBVIOUS
<1>3. u \in Seq(KeySteps)
  BY <1>2
<1>4. Append(u, t) \in Seq(KeySteps)
  BY <1>3
<1>5. steps \o <<s, t>> = Append(u, t)
  BY <1>2
<1>6. Applied(acc, u, layout) = ApplyStep(Applied(acc, steps, layout), s, layout)
  BY <1>1, <1>2, AppliedAppend
<1>7. Applied(acc, Append(u, t), layout) = ApplyStep(Applied(acc, u, layout), t, layout)
  BY <1>1, <1>3, AppliedAppend
<1>8. WithTap(steps, code) = Append(u, t)
  BY <1>1, <1>5 DEF WithTap
<1> QED BY <1>1, <1>5, <1>6, <1>7, <1>8, <1>4 DEF Tapped

\* Membership is a truth value.
LEMMA Truth == ASSUME NEW x, NEW S PROVE \E b \in BOOLEAN : b = (x \in S)
<1>1. CASE x \in S
  <2>1. TRUE = (x \in S)
    BY <1>1
  <2> QED BY <2>1
<1>2. CASE x \notin S
  <2>1. FALSE = (x \in S)
    BY <1>2
  <2> QED BY <2>1
<1> QED BY <1>1, <1>2

\* One character, after the steps of those before it.
BracketedTo(acc, mods, after, layout) ==
    Bracketed(Bracketed(acc, ShiftKey, "Shift" \in mods, "Shift" \in after, layout),
              AltGrKey, "Mod5" \in mods, "Mod5" \in after, layout)
Charred(acc, mods, key, layout) ==
    Tapped(BracketedTo(acc, mods, key.mods, layout), key.code, layout)

\* and a character what bracketing its modifiers and tapping its key do.
LEMMA AppliedChar ==
    ASSUME NEW layout \in LAYOUTS, NEW for \in LAYOUTS, NEW acc \in Reads(layout),
           NEW steps \in Seq(KeySteps), NEW mods, NEW c, Reachable(for, c)
    PROVE  /\ ExpandChar(for, steps, mods, c).steps \in Seq(KeySteps)
           /\ ExpandChar(for, steps, mods, c).mods = KeyForChar(for, c).mods
           /\ Applied(acc, ExpandChar(for, steps, mods, c).steps, layout)
                = Charred(Applied(acc, steps, layout), mods, KeyForChar(for, c), layout)
<1>1. PICK key : key = KeyForChar(for, c) /\ key.code \in Nat
  BY CharTyped
<1>2. PICK s : s = WithBracket(steps, ShiftKey, "Shift" \in mods, "Shift" \in key.mods)
  OBVIOUS
<1>3. /\ s \in Seq(KeySteps)
      /\ Applied(acc, s, layout)
           = Bracketed(Applied(acc, steps, layout), ShiftKey, "Shift" \in mods, "Shift" \in key.mods, layout)
  <2>1. PICK b \in BOOLEAN : b = ("Shift" \in mods)
    BY Truth
  <2>2. PICK a \in BOOLEAN : a = ("Shift" \in key.mods)
    BY Truth
  <2>3. PICK k \in Nat : k = ShiftKey
    BY StepIn
  <2>4. s = WithBracket(steps, k, b, a)
    BY <1>2, <2>1, <2>3, <2>2
  <2>5. /\ s \in Seq(KeySteps)
        /\ Applied(acc, s, layout) = Bracketed(Applied(acc, steps, layout), k, b, a, layout)
    BY <2>4, AppliedBracket
  <2> QED BY <2>1, <2>5, <2>3, <2>2
<1>4. PICK t : t = WithBracket(s, AltGrKey, "Mod5" \in mods, "Mod5" \in key.mods)
  OBVIOUS
<1>5. /\ t \in Seq(KeySteps)
      /\ Applied(acc, t, layout)
           = Bracketed(Applied(acc, s, layout), AltGrKey, "Mod5" \in mods, "Mod5" \in key.mods, layout)
  <2>1. PICK b \in BOOLEAN : b = ("Mod5" \in mods)
    BY Truth
  <2>2. PICK a \in BOOLEAN : a = ("Mod5" \in key.mods)
    BY Truth
  <2>3. PICK k \in Nat : k = AltGrKey
    BY StepIn
  <2>4. t = WithBracket(s, k, b, a)
    BY <1>4, <2>1, <2>3, <2>2
  <2>5. /\ t \in Seq(KeySteps)
        /\ Applied(acc, t, layout) = Bracketed(Applied(acc, s, layout), k, b, a, layout)
    BY <1>3, <2>4, AppliedBracket
  <2> QED BY <2>1, <2>5, <2>3, <2>2
<1>6. PICK u : u = WithTap(t, key.code)
  OBVIOUS
<1>7. u \in Seq(KeySteps) /\ Applied(acc, u, layout) = Tapped(Applied(acc, t, layout), key.code, layout)
  BY <1>1, <1>5, <1>6, AppliedTap
<1>8. ExpandChar(for, steps, mods, c) = [steps |-> u, mods |-> key.mods]
  BY <1>1, <1>2, <1>4, <1>6 DEF ExpandChar, WithBracket, WithTap
<1> QED BY <1>1, <1>3, <1>5, <1>7, <1>8 DEF Charred, BracketedTo

-----------------------------------------------------------------------------
(* What a bracket and a tap do to the keys that are held, in any layout.   *)

\* All that is held is in h, but for the modifiers that are on for the text.
Within(k, h, mods) ==
    k.held \subseteq h \cup (IF "Shift" \in mods THEN {ShiftKey} ELSE {})
                       \cup (IF "Mod5" \in mods THEN {AltGrKey} ELSE {})

\* What a bracket leaves held.
HeldThrough(held, code, before, after) ==
    IF before = after THEN held ELSE IF after THEN held \cup {code} ELSE held \ {code}

\* What a bracket leaves held and locked.
LEMMA BracketHolds ==
    ASSUME NEW layout \in LAYOUTS, NEW acc \in Reads(layout), NEW code \in Nat,
           NEW before \in BOOLEAN, NEW after \in BOOLEAN
    PROVE  Bracketed(acc, code, before, after, layout).kb.held
             = HeldThrough(acc.kb.held, code, before, after)
<1>1. PICK k : k = acc.kb /\ k.held \in SUBSET Nat /\ k.locked \in SUBSET Locks
  BY DEF Reads, SettledFor, IsSettled
<1>2. CASE before = after
  BY <1>2 DEF Bracketed, HeldThrough
<1>3. CASE before # after /\ after
  <2>1. PICK l \in SUBSET Locks : l = Turn(k.locked, LockBit(FirstSym(layout, code)))
    BY <1>1, BitsTyped DEF Turn
  <2>2. PICK h \in SUBSET Nat : h = k.held \cup {code}
    BY <1>1
  <2>3. ApplyStep(acc, KeyStep(code, TRUE), layout) = [kb |-> Settled(h, l, layout), seen |-> ReadOff(acc, code, layout)]
    BY <1>1, <2>1, <2>2, StepDown
  <2>4. Settled(h, l, layout).held = h
    BY SettledIn
  <2>5. Bracketed(acc, code, before, after, layout) = ApplyStep(acc, KeyStep(code, TRUE), layout)
    BY <1>3 DEF Bracketed
  <2>6. PICK k1, s1 : k1 = Settled(h, l, layout) /\ s1 = ReadOff(acc, code, layout)
    OBVIOUS
  <2>7. Bracketed(acc, code, before, after, layout) = [kb |-> k1, seen |-> s1]
    BY <2>3, <2>5, <2>6
  <2>8. Bracketed(acc, code, before, after, layout).kb.held = h
    BY <2>4, <2>6, <2>7
  <2>9. HeldThrough(acc.kb.held, code, before, after) = h
    BY <1>1, <1>3, <2>2 DEF HeldThrough
  <2> QED BY <2>8, <2>9
<1>4. CASE before # after /\ ~after
  <2>1. PICK l \in SUBSET Locks : l = k.locked
    BY <1>1
  <2>2. PICK h \in SUBSET Nat : h = k.held \ {code}
    BY <1>1
  <2>3. ApplyStep(acc, KeyStep(code, FALSE), layout) = [kb |-> Settled(h, l, layout), seen |-> acc.seen]
    BY <1>1, <2>1, <2>2, StepUp
  <2>4. Settled(h, l, layout).held = h
    BY SettledIn
  <2>5. Bracketed(acc, code, before, after, layout) = ApplyStep(acc, KeyStep(code, FALSE), layout)
    BY <1>4 DEF Bracketed
  <2>6. PICK k1, s1 : k1 = Settled(h, l, layout) /\ s1 = acc.seen
    OBVIOUS
  <2>7. Bracketed(acc, code, before, after, layout) = [kb |-> k1, seen |-> s1]
    BY <2>3, <2>5, <2>6
  <2>8. Bracketed(acc, code, before, after, layout).kb.held = h
    BY <2>4, <2>6, <2>7
  <2>9. HeldThrough(acc.kb.held, code, before, after) = h
    BY <1>1, <1>4, <2>2 DEF HeldThrough
  <2> QED BY <2>8, <2>9
<1> QED BY <1>2, <1>3, <1>4

LEMMA TapTyped ==
    ASSUME NEW layout \in LAYOUTS, NEW acc \in Reads(layout), NEW code \in Nat
    PROVE  Tapped(acc, code, layout) \in Reads(layout)
BY StepIn, StepReads DEF Tapped

\* What a tap leaves held and locked, and what is read off it.
LEMMA TapHolds ==
    ASSUME NEW layout \in LAYOUTS, NEW acc \in Reads(layout), NEW code \in Nat
    PROVE  /\ Tapped(acc, code, layout).kb.held = acc.kb.held \ {code}
           /\ Tapped(acc, code, layout).kb.locked
                = Turn(acc.kb.locked, LockBit(FirstSym(layout, code)))
           /\ Tapped(acc, code, layout).seen = ReadOff(acc, code, layout)
<1>1. PICK k : k = acc.kb /\ k.held \in SUBSET Nat /\ k.locked \in SUBSET Locks
  BY DEF Reads, SettledFor, IsSettled
<1>2. PICK l \in SUBSET Locks : l = Turn(k.locked, LockBit(FirstSym(layout, code)))
  BY <1>1, BitsTyped DEF Turn
<1>3. PICK h \in SUBSET Nat : h = k.held \cup {code}
  BY <1>1
<1>4. PICK s : s = ReadOff(acc, code, layout)
  OBVIOUS
<1>5. PICK mid \in Reads(layout) : mid = ApplyStep(acc, KeyStep(code, TRUE), layout)
  BY StepDown
<1>6. mid = [kb |-> Settled(h, l, layout), seen |-> s]
  BY <1>1, <1>2, <1>3, <1>4, <1>5, StepDown
<1>7. mid.kb.held = h /\ mid.kb.locked = l /\ mid.seen = s
  BY <1>6, SettledIn
<1>8. ApplyStep(mid, KeyStep(code, FALSE), layout)
        = [kb |-> Settled(h \ {code}, l, layout), seen |-> s]
  BY <1>7, StepUp
<1>9. PICK g \in SUBSET Nat : g = h \ {code}
  OBVIOUS
<1>10. Settled(g, l, layout).held = g /\ Settled(g, l, layout).locked = l
  BY SettledIn
<1>11. Tapped(acc, code, layout) = [kb |-> Settled(g, l, layout), seen |-> s]
  BY <1>5, <1>8, <1>9 DEF Tapped
<1>12. g = k.held \ {code}
  BY <1>3, <1>9
<1> QED BY <1>1, <1>2, <1>4, <1>10, <1>11, <1>12

\* Two modifiers go to where after says; nothing else is held than was.
LEMMA BracketsWithin ==
    ASSUME NEW layout \in LAYOUTS, NEW acc \in Reads(layout), NEW h, NEW mods, NEW after,
           Within(acc.kb, h, mods)
    PROVE  /\ BracketedTo(acc, mods, after, layout) \in Reads(layout)
           /\ Within(BracketedTo(acc, mods, after, layout).kb, h, after)
<1>1. PICK b \in BOOLEAN : b = ("Shift" \in mods)
  BY Truth
<1>2. PICK a \in BOOLEAN : a = ("Shift" \in after)
  BY Truth
<1>3. PICK d \in BOOLEAN : d = ("Mod5" \in mods)
  BY Truth
<1>4. PICK e \in BOOLEAN : e = ("Mod5" \in after)
  BY Truth
<1>5. PICK shiftKey \in Nat : shiftKey = ShiftKey
  BY StepIn
<1>6. PICK altGrKey \in Nat : altGrKey = AltGrKey
  BY StepIn
<1>7. PICK one \in Reads(layout) : one = Bracketed(acc, shiftKey, b, a, layout)
  BY BracketTyped
<1>8. one.kb.held = HeldThrough(acc.kb.held, shiftKey, b, a)
  BY <1>7, BracketHolds
<1>9. PICK mid \in Reads(layout) : mid = Bracketed(one, altGrKey, d, e, layout)
  BY BracketTyped
<1>10. mid.kb.held = HeldThrough(one.kb.held, altGrKey, d, e)
  BY <1>9, BracketHolds
<1>11. acc.kb.held \subseteq h \cup (IF b THEN {shiftKey} ELSE {}) \cup (IF d THEN {altGrKey} ELSE {})
  BY <1>1, <1>3, <1>5, <1>6 DEF Within
<1>12. one.kb.held \subseteq h \cup (IF a THEN {shiftKey} ELSE {}) \cup (IF d THEN {altGrKey} ELSE {})
  BY <1>8, <1>11 DEF HeldThrough
<1>13. mid.kb.held \subseteq h \cup (IF a THEN {shiftKey} ELSE {}) \cup (IF e THEN {altGrKey} ELSE {})
  BY <1>10, <1>12 DEF HeldThrough
<1>14. Within(mid.kb, h, after)
  BY <1>2, <1>4, <1>13, <1>5, <1>6 DEF Within
<1>15. BracketedTo(acc, mods, after, layout) = mid
  BY <1>1, <1>2, <1>3, <1>4, <1>7, <1>9, <1>5, <1>6 DEF BracketedTo
<1> QED BY <1>14, <1>15

\* A character leaves held what was, and the modifiers it was typed with.
LEMMA CharWithin ==
    ASSUME NEW layout \in LAYOUTS, NEW acc \in Reads(layout), NEW h, NEW mods, NEW key,
           key.code \in Nat, Within(acc.kb, h, mods)
    PROVE  /\ Charred(acc, mods, key, layout) \in Reads(layout)
           /\ Within(Charred(acc, mods, key, layout).kb, h, key.mods)
<1>1. PICK mid \in Reads(layout) :
          mid = BracketedTo(acc, mods, key.mods, layout) /\ Within(mid.kb, h, key.mods)
  BY BracketsWithin
<1>2. Charred(acc, mods, key, layout) = Tapped(mid, key.code, layout)
  BY <1>1 DEF Charred
<1>3. Tapped(mid, key.code, layout) \in Reads(layout)
  BY TapTyped
<1>4. Tapped(mid, key.code, layout).kb.held \subseteq mid.kb.held
  BY TapHolds
<1>5. Within(Tapped(mid, key.code, layout).kb, h, key.mods)
  BY <1>1, <1>4 DEF Within
<1> QED BY <1>2, <1>3, <1>5

-----------------------------------------------------------------------------
(* A text in the layout it was expanded for, on a seat with nothing on.    *)

\* Nothing is on but the modifiers of the text.
Clean(k, mods, layout) ==
    /\ k.locked = {} /\ BitsOf(layout, k.held \ {ShiftKey, AltGrKey}) = {}
    /\ ShiftKey \in k.held <=> "Shift" \in mods
    /\ AltGrKey \in k.held <=> "Mod5" \in mods

\* The two modifiers of a text, in every layout.
LEMMA TextKeys ==
    ASSUME NEW layout \in LAYOUTS
    PROVE  /\ FirstSym(layout, ShiftKey) = "Shift_L"
           /\ FirstSym(layout, AltGrKey) \in {"Alt_R", "ISO_Level3_Shift"}
           /\ ModifierBit(FirstSym(layout, ShiftKey)) = {"Shift"}
           /\ ModifierBit(FirstSym(layout, AltGrKey)) = {"Mod5"}
           /\ LockBit(FirstSym(layout, ShiftKey)) = {}
           /\ LockBit(FirstSym(layout, AltGrKey)) = {}
<1>1. PICK i \in DOMAIN Rows(layout) :
          Rows(layout)[i].code = ShiftKey /\ Rows(layout)[i].levels[1] = "Shift_L"
  BY EveryLayoutFits DEF LayoutFits
<1>2. PICK j \in DOMAIN Rows(layout) :
          /\ Rows(layout)[j].code = AltGrKey
          /\ Rows(layout)[j].levels[1] \in {"Alt_R", "ISO_Level3_Shift"}
  BY EveryLayoutFits DEF LayoutFits
<1>3. FirstSym(layout, ShiftKey) = "Shift_L"
  BY <1>1, RowAt DEF FirstSym
<1>4. FirstSym(layout, AltGrKey) \in {"Alt_R", "ISO_Level3_Shift"}
  BY <1>2, RowAt DEF FirstSym
<1>5. ModifierBit("Shift_L") = {"Shift"} /\ LockBit("Shift_L") = {}
  BY DEF ModifierBit, LockBit
<1>6. /\ ModifierBit("Alt_R") = {"Mod5"} /\ LockBit("Alt_R") = {}
      /\ ModifierBit("ISO_Level3_Shift") = {"Mod5"} /\ LockBit("ISO_Level3_Shift") = {}
  BY DEF ModifierBit, LockBit
<1> QED BY <1>3, <1>4, <1>5, <1>6

\* The modifiers that are on are those of the text.
LEMMA CleanBits ==
    ASSUME NEW layout \in LAYOUTS, NEW k, NEW mods \in SUBSET TextMods, Clean(k, mods, layout)
    PROVE  BitsOf(layout, k.held) = mods
<1>1. PICK h : h = k.held
  OBVIOUS
<1>2. \A c \in h : c \notin {ShiftKey, AltGrKey} => ModifierBit(FirstSym(layout, c)) = {}
  BY <1>1 DEF Clean, BitsOf
<1>3. ShiftKey \in h <=> "Shift" \in mods
  BY <1>1 DEF Clean
<1>4. AltGrKey \in h <=> "Mod5" \in mods
  BY <1>1 DEF Clean
<1>5. /\ ModifierBit(FirstSym(layout, ShiftKey)) = {"Shift"}
      /\ ModifierBit(FirstSym(layout, AltGrKey)) = {"Mod5"}
  BY TextKeys
<1>6. \A bit : bit \in BitsOf(layout, h) <=> \E c \in h : bit \in ModifierBit(FirstSym(layout, c))
  BY DEF BitsOf
<1>7. \A bit : bit \in BitsOf(layout, h) => bit \in mods
  BY <1>2, <1>3, <1>4, <1>5, <1>6
<1>8. \A bit : bit \in mods => bit \in BitsOf(layout, h)
  BY <1>3, <1>4, <1>5, <1>6 DEF TextMods
<1> QED BY <1>1, <1>7, <1>8

\* With nothing on, the keyboard is clean;
LEMMA CleanStart ==
    ASSUME NEW layout \in LAYOUTS, NEW k, k.locked = {}, BitsOf(layout, k.held) = {}
    PROVE  Clean(k, {}, layout)
<1>1. PICK h : h = k.held
  OBVIOUS
<1>2. \A c \in h : ModifierBit(FirstSym(layout, c)) = {}
  BY <1>1 DEF BitsOf
<1>3. ShiftKey \notin h /\ AltGrKey \notin h
  BY <1>2, TextKeys
<1>4. BitsOf(layout, h \ {ShiftKey, AltGrKey}) = {}
  BY <1>2 DEF BitsOf
<1> QED BY <1>1, <1>3, <1>4 DEF Clean

\* A bracket keeps it clean, and types nothing.
LEMMA BracketReads ==
    ASSUME NEW layout \in LAYOUTS, NEW acc \in Reads(layout), NEW code \in {ShiftKey, AltGrKey},
           NEW before \in BOOLEAN, NEW after \in BOOLEAN
    PROVE  /\ Bracketed(acc, code, before, after, layout).seen = acc.seen
           /\ Bracketed(acc, code, before, after, layout).kb.locked = acc.kb.locked
<1>1. code \in Nat
  BY StepIn
<1>2. PICK k : k = acc.kb /\ k.held \in SUBSET Nat /\ k.locked \in SUBSET Locks
  BY DEF Reads, SettledFor, IsSettled
<1>3. PICK s : s = acc.seen
  OBVIOUS
<1>4. PICK l \in SUBSET Locks : l = k.locked
  BY <1>2
<1>5. CASE before = after
  BY <1>5 DEF Bracketed
<1>6. CASE before # after /\ after
  <2>1. LockBit(FirstSym(layout, code)) = {} /\ ModifierBit(FirstSym(layout, code)) # {}
    BY TextKeys
  <2>2. Turn(k.locked, LockBit(FirstSym(layout, code))) = l
    BY <1>4, <2>1 DEF Turn
  <2>3. ReadOff(acc, code, layout) = s
    BY <1>3, <2>1 DEF ReadOff, Typing, IsModifierKeysym
  <2>4. PICK h \in SUBSET Nat : h = k.held \cup {code}
    BY <1>1, <1>2
  <2>5. ApplyStep(acc, KeyStep(code, TRUE), layout) = [kb |-> Settled(h, l, layout), seen |-> s]
    BY <1>1, <1>2, <2>2, <2>3, <2>4, StepDown
  <2>6. Bracketed(acc, code, before, after, layout) = [kb |-> Settled(h, l, layout), seen |-> s]
    BY <1>6, <2>5 DEF Bracketed
  <2>7. Settled(h, l, layout).locked = l
    BY SettledIn
  <2> QED BY <1>2, <1>3, <1>4, <2>6, <2>7
<1>7. CASE before # after /\ ~after
  <2>1. PICK h \in SUBSET Nat : h = k.held \ {code}
    BY <1>2
  <2>2. ApplyStep(acc, KeyStep(code, FALSE), layout) = [kb |-> Settled(h, l, layout), seen |-> s]
    BY <1>1, <1>2, <1>3, <1>4, <2>1, StepUp
  <2>3. Bracketed(acc, code, before, after, layout) = [kb |-> Settled(h, l, layout), seen |-> s]
    BY <1>7, <2>2 DEF Bracketed
  <2>4. Settled(h, l, layout).locked = l
    BY SettledIn
  <2> QED BY <1>2, <1>3, <1>4, <2>3, <2>4
<1> QED BY <1>5, <1>6, <1>7

\* brackets put exactly the modifiers that are asked for on a clean keyboard, unread;
LEMMA BracketsClean ==
    ASSUME NEW layout \in LAYOUTS, NEW acc \in Reads(layout), NEW mods, NEW after,
           Clean(acc.kb, mods, layout)
    PROVE  /\ Clean(BracketedTo(acc, mods, after, layout).kb, after, layout)
           /\ BracketedTo(acc, mods, after, layout).seen = acc.seen
<1>1. PICK b \in BOOLEAN : b = ("Shift" \in mods)
  BY Truth
<1>2. PICK a \in BOOLEAN : a = ("Shift" \in after)
  BY Truth
<1>3. PICK d \in BOOLEAN : d = ("Mod5" \in mods)
  BY Truth
<1>4. PICK e \in BOOLEAN : e = ("Mod5" \in after)
  BY Truth
<1>5. PICK shiftKey \in Nat : shiftKey = ShiftKey /\ shiftKey \in {ShiftKey, AltGrKey}
  BY StepIn
<1>6. PICK altGrKey \in Nat : altGrKey = AltGrKey /\ altGrKey \in {ShiftKey, AltGrKey}
  BY StepIn
<1>7. PICK one \in Reads(layout) : one = Bracketed(acc, shiftKey, b, a, layout)
  BY BracketTyped
<1>8. PICK mid \in Reads(layout) : mid = Bracketed(one, altGrKey, d, e, layout)
  BY BracketTyped
<1>9. BracketedTo(acc, mods, after, layout) = mid
  BY <1>1, <1>2, <1>3, <1>4, <1>5, <1>6, <1>7, <1>8 DEF BracketedTo
<1>10. /\ one.kb.held = HeldThrough(acc.kb.held, shiftKey, b, a)
       /\ mid.kb.held = HeldThrough(one.kb.held, altGrKey, d, e)
  BY <1>7, <1>8, BracketHolds
<1>11. one.seen = acc.seen /\ one.kb.locked = acc.kb.locked
  BY <1>5, <1>7, BracketReads
<1>12. mid.seen = one.seen /\ mid.kb.locked = one.kb.locked
  BY <1>6, <1>8, BracketReads
<1>13. shiftKey # altGrKey
  BY <1>5, <1>6 DEF ShiftKey, AltGrKey
<1>14. PICK h, g : h = acc.kb.held /\ g = mid.kb.held
  OBVIOUS
<1>15. /\ h \ {shiftKey, altGrKey} = g \ {shiftKey, altGrKey}
       /\ altGrKey \in g <=> (IF d = e THEN altGrKey \in h ELSE e)
       /\ shiftKey \in g <=> (IF b = a THEN shiftKey \in h ELSE a)
  BY <1>10, <1>13, <1>14 DEF HeldThrough
<1>16. (shiftKey \in h <=> b) /\ (altGrKey \in h <=> d)
  BY <1>1, <1>3, <1>5, <1>6, <1>14 DEF Clean
<1>17. shiftKey \in g <=> a
  BY <1>15, <1>16
<1>18. altGrKey \in g <=> e
  BY <1>15, <1>16
<1>19. BitsOf(layout, g \ {shiftKey, altGrKey}) = {} /\ mid.kb.locked = {}
  BY <1>5, <1>6, <1>11, <1>12, <1>14, <1>15 DEF Clean
<1>20. Clean(mid.kb, after, layout)
  BY <1>2, <1>4, <1>5, <1>6, <1>14, <1>17, <1>18, <1>19 DEF Clean
<1> QED BY <1>9, <1>11, <1>12, <1>20

\* The modifiers for a level select it.

\* The modifiers for a level select it.
LEMMA LevelBack ==
    ASSUME NEW layout \in LAYOUTS, NEW code \in Codes(layout),
           NEW level \in 1..LevelCount(Row(layout, code).kind), NEW mods,
           mods = ModsForLevel(Row(layout, code).kind, level), mods \in SUBSET TextMods
    PROVE  LevelForKey(layout, code, mods) = level
<1>1. PICK r : r = Row(layout, code) /\ RowFits(r)
  BY RowOf
<1>2. level \in 1..LevelCount(r.kind) /\ mods = ModsForLevel(r.kind, level)
  BY <1>1
<1>3. "Lock" \notin mods /\ "Mod1" \notin mods /\ "Mod2" \notin mods /\ "Control" \notin mods
  BY DEF TextMods
<1>4. level = 1 => "Shift" \notin mods /\ "Mod5" \notin mods
  BY <1>2 DEF ModsForLevel
<1>5. level = 2 => "Shift" \in mods /\ "Mod5" \notin mods /\ r.kind \notin {"Keypad", "AltLevel2", "ControlLevel2"}
  BY <1>2, <1>3 DEF ModsForLevel
<1>6. level = 3 => "Shift" \notin mods /\ "Mod5" \in mods
  BY <1>2 DEF ModsForLevel
<1>7. level = 4 => "Shift" \in mods /\ "Mod5" \in mods
  BY <1>2 DEF ModsForLevel
<1>8. CASE r.kind = "OneLevel"
  <2>1. level = 1
    BY <1>2, <1>8 DEF LevelCount
  <2>2. LevelForKey(layout, code, mods) = 1
    BY <1>1, <1>8 DEF LevelForKey, RowFits, LevelCount
  <2> QED BY <2>1, <2>2
<1>9. CASE r.kind \in {"Keypad", "AltLevel2", "ControlLevel2"}
  <2>1. level = 1
    BY <1>2, <1>5, <1>9 DEF LevelCount
  <2>2. LevelForKey(layout, code, mods) = 1
    <3>1. CASE r.kind = "Keypad"
      BY <1>1, <1>3, <1>4, <2>1, <3>1 DEF LevelForKey, RowFits, LevelCount
    <3>2. CASE r.kind = "AltLevel2"
      BY <1>1, <1>3, <1>4, <2>1, <3>2 DEF LevelForKey, RowFits, LevelCount
    <3>3. CASE r.kind = "ControlLevel2"
      BY <1>1, <1>3, <1>4, <2>1, <3>3 DEF LevelForKey, RowFits, LevelCount
    <3> QED BY <1>9, <3>1, <3>2, <3>3
  <2> QED BY <2>1, <2>2
<1>10. CASE r.kind \in {"TwoLevel", "Alphabetic"}
  <2>1. level = 1 \/ level = 2
    BY <1>2, <1>10 DEF LevelCount
  <2>2. LevelForKey(layout, code, mods) = IF "Shift" \in mods THEN 2 ELSE 1
    <3>1. CASE r.kind = "TwoLevel"
      BY <1>1, <3>1 DEF LevelForKey, RowFits, LevelCount
    <3>2. CASE r.kind = "Alphabetic"
      BY <1>1, <1>3, <3>2 DEF LevelForKey, RowFits, LevelCount
    <3> QED BY <1>10, <3>1, <3>2
  <2> QED BY <1>4, <1>5, <2>1, <2>2
<1>11. CASE r.kind \in {"FourLevel", "FourLevelAlphabetic", "FourLevelSemiAlphabetic"}
  <2>1. level = 1 \/ level = 2 \/ level = 3 \/ level = 4
    BY <1>2, <1>11 DEF LevelCount
  <2>2. LevelForKey(layout, code, mods) = (IF "Shift" \in mods THEN 2 ELSE 1)
                                          + (IF "Mod5" \in mods THEN 2 ELSE 0)
    <3>1. CASE r.kind = "FourLevel"
      BY <1>1, <3>1 DEF LevelForKey, RowFits, LevelCount
    <3>2. CASE r.kind = "FourLevelAlphabetic"
      BY <1>1, <1>3, <3>2 DEF LevelForKey, RowFits, LevelCount
    <3>3. CASE r.kind = "FourLevelSemiAlphabetic"
      BY <1>1, <1>3, <3>3 DEF LevelForKey, RowFits, LevelCount
    <3> QED BY <1>11, <3>1, <3>2, <3>3
  <2> QED BY <1>4, <1>5, <1>6, <1>7, <2>1, <2>2
<1> QED BY <1>1, <1>8, <1>9, <1>10, <1>11 DEF RowFits, Kinds

\* A character's key: it is in the layout, and does nothing to the modifiers.
LEMMA CharKey ==
    ASSUME NEW layout \in LAYOUTS, NEW c, Reachable(layout, c), ~IsModifierKeysym(c),
           NEW key, key = KeyForChar(layout, c)
    PROVE  /\ key.code \in Codes(layout) /\ key.code \in Nat /\ key.mods \in SUBSET TextMods
           /\ Typing(layout, key.code) /\ LockBit(FirstSym(layout, key.code)) = {}
           /\ \E level \in 1..LevelCount(Row(layout, key.code).kind) :
                 /\ Row(layout, key.code).levels[level] = c
                 /\ key.mods = ModsForLevel(Row(layout, key.code).kind, level)
<1>1. PICK i \in DOMAIN Rows(layout) : \E l \in 1..LevelCount(Rows(layout)[i].kind) :
              /\ Rows(layout)[i].levels[l] = c
              /\ KeyForChar(layout, c)
                   = [code |-> Rows(layout)[i].code,
                      mods |-> ModsForLevel(Rows(layout)[i].kind, l)]
  BY CharFound
<1>2. PICK r : r = Rows(layout)[i] /\ RowFits(r)
  BY EveryLayoutFits DEF LayoutFits
<1>3. PICK l \in 1..LevelCount(r.kind) :
          r.levels[l] = c /\ key = [code |-> r.code, mods |-> ModsForLevel(r.kind, l)]
  BY <1>1, <1>2
<1>4. key.code = r.code /\ key.mods = ModsForLevel(r.kind, l)
  BY <1>3
<1>5. r.code \in Codes(layout) /\ Row(layout, r.code) = r
  BY <1>2, RowAt
<1>6. key.code \in Nat /\ key.mods \in SUBSET TextMods
  BY CharTyped
<1>7. FirstSym(layout, r.code) = r.levels[1]
  BY <1>5 DEF FirstSym
<1>8. ~IsModifierKeysym(r.levels[1])
  <2>1. CASE r.kind = "OneLevel"
    <3>1. l = 1
      BY <1>3, <2>1 DEF LevelCount
    <3> QED BY <1>3, <3>1
  <2>2. CASE r.kind # "OneLevel"
    BY <1>2, <2>2 DEF RowFits
  <2> QED BY <2>1, <2>2
<1>9. Typing(layout, key.code) /\ LockBit(FirstSym(layout, key.code)) = {}
  BY <1>4, <1>5, <1>7, <1>8 DEF Typing, IsModifierKeysym
<1> QED BY <1>3, <1>4, <1>5, <1>6, <1>9

\* A clean seat's client reads the character, and the seat stays clean.
LEMMA TapClean ==
    ASSUME NEW layout \in LAYOUTS, NEW acc \in Reads(layout), NEW c, Reachable(layout, c),
           ~IsModifierKeysym(c), NEW key, key = KeyForChar(layout, c),
           Clean(acc.kb, key.mods, layout)
    PROVE  /\ Clean(Tapped(acc, key.code, layout).kb, key.mods, layout)
           /\ Tapped(acc, key.code, layout).seen = Append(acc.seen, c)
<1>1. PICK code \in Nat : code = key.code
  BY CharKey
<1>2. PICK mods \in SUBSET TextMods : mods = key.mods
  BY CharKey
<1>3. code \in Codes(layout) /\ Typing(layout, code) /\ LockBit(FirstSym(layout, code)) = {}
  BY <1>1, CharKey
<1>4. PICK level \in 1..LevelCount(Row(layout, code).kind) :
          Row(layout, code).levels[level] = c /\ mods = ModsForLevel(Row(layout, code).kind, level)
  BY <1>1, <1>2, CharKey
<1>5. LevelForKey(layout, code, mods) = level
  BY <1>3, <1>4, LevelBack
<1>6. PICK k : k = acc.kb /\ k.held \in SUBSET Nat /\ k = Settled(k.held, k.locked, layout)
  BY DEF Reads, SettledFor, IsSettled
<1>7. Clean(k, mods, layout)
  BY <1>2, <1>6
<1>8. k.sent = Mods(k.held, k.locked, layout)
  BY <1>6 DEF Settled
<1>9. k.sent.depressed \cup k.sent.locked = mods
  <2>1. BitsOf(layout, k.held) = mods
    BY <1>7, CleanBits
  <2>2. k.locked = {}
    BY <1>7 DEF Clean
  <2> QED BY <1>8, <2>1, <2>2 DEF Mods
<1>10. ClientLevel(layout, code, k.sent) = level
  <2>1. PICK sent : sent = k.sent /\ sent.depressed \cup sent.locked = mods
    BY <1>9
  <2>2. LevelForKey(layout, code, mods) = ClientLevel(layout, code, sent)
    BY <1>3, <2>1, LevelsAgree
  <2> QED BY <1>5, <2>1, <2>2
<1>11. ReadOff(acc, code, layout) = Append(acc.seen, c)
  BY <1>3, <1>4, <1>6, <1>10 DEF ReadOff
<1>12. PICK done : done = Tapped(acc, code, layout)
  OBVIOUS
<1>13. /\ done.kb.held = k.held \ {code}
       /\ done.kb.locked = Turn(k.locked, {})
       /\ done.seen = Append(acc.seen, c)
  <2>1. /\ done.kb.held = acc.kb.held \ {code}
        /\ done.kb.locked = Turn(acc.kb.locked, LockBit(FirstSym(layout, code)))
        /\ done.seen = ReadOff(acc, code, layout)
    BY <1>12, TapHolds
  <2> QED BY <1>3, <1>6, <1>11, <2>1
<1>14. code # ShiftKey /\ code # AltGrKey
  <2>1. ModifierBit(FirstSym(layout, code)) = {}
    BY <1>3 DEF Typing, IsModifierKeysym
  <2> QED BY <2>1, TextKeys
<1>15. Clean(done.kb, mods, layout)
  <2>1. PICK h, g : h = k.held /\ g = done.kb.held
    OBVIOUS
  <2>2. g \ {ShiftKey, AltGrKey} \subseteq h \ {ShiftKey, AltGrKey}
    BY <1>13, <2>1
  <2>3. BitsOf(layout, g \ {ShiftKey, AltGrKey}) = {}
    BY <1>7, <2>1, <2>2 DEF Clean, BitsOf
  <2>4. (ShiftKey \in g <=> ShiftKey \in h) /\ (AltGrKey \in g <=> AltGrKey \in h)
    BY <1>13, <1>14, <2>1
  <2>5. done.kb.locked = {}
    BY <1>7, <1>13 DEF Clean, Turn
  <2> QED BY <1>7, <2>1, <2>3, <2>4, <2>5 DEF Clean
<1> QED BY <1>1, <1>2, <1>12, <1>13, <1>15

\* and a character that a clean keyboard types is the one that is read.
LEMMA CharClean ==
    ASSUME NEW layout \in LAYOUTS, NEW acc \in Reads(layout), NEW c, Reachable(layout, c),
           ~IsModifierKeysym(c), NEW key, key = KeyForChar(layout, c), NEW mods,
           Clean(acc.kb, mods, layout)
    PROVE  /\ Clean(Charred(acc, mods, key, layout).kb, key.mods, layout)
           /\ Charred(acc, mods, key, layout).seen = Append(acc.seen, c)
<1>1. PICK h : Within(acc.kb, h, mods)
  <2>1. Within(acc.kb, acc.kb.held, mods)
    BY DEF Within
  <2> QED BY <2>1
<1>2. PICK mid \in Reads(layout) : mid = BracketedTo(acc, mods, key.mods, layout)
  BY <1>1, BracketsWithin
<1>3. Clean(mid.kb, key.mods, layout) /\ mid.seen = acc.seen
  BY <1>2, BracketsClean
<1>4. /\ Clean(Tapped(mid, key.code, layout).kb, key.mods, layout)
      /\ Tapped(mid, key.code, layout).seen = Append(mid.seen, c)
  BY <1>3, TapClean
<1> QED BY <1>2, <1>3, <1>4 DEF Charred

-----------------------------------------------------------------------------
(* A whole text, and a whole entry.                                        *)

\* The steps of a text, up to each of its characters.
Spelt == [steps : Seq(KeySteps), mods : SUBSET TextMods]
Spells(typed, for, text) ==
    /\ typed[0] = [steps |-> <<>>, mods |-> {}]
    /\ \A n \in 1..Len(text) :
          typed[n] = ExpandChar(for, typed[n - 1].steps, typed[n - 1].mods, text[n])
Spelling(typed, for, text) ==
    typed = [n \in 0..Len(text) |->
                IF n = 0 THEN [steps |-> <<>>, mods |-> {}]
                ELSE ExpandChar(for, typed[n - 1].steps, typed[n - 1].mods, text[n])]

\* A text is spelt character by character,
LEMMA SpeltOn ==
    ASSUME NEW for \in LAYOUTS, NEW x \in Spelt, NEW c, Reachable(for, c)
    PROVE  ExpandChar(for, x.steps, x.mods, c) \in Spelt
<1>1. PICK steps \in Seq(KeySteps), mods \in SUBSET TextMods : steps = x.steps /\ mods = x.mods
  BY DEF Spelt
<1>2. PICK acc \in Reads("us") : TRUE
  <2>1. Settled({}, {}, "us") \in SettledFor("us")
    BY SettledIn
  <2>2. [kb |-> Settled({}, {}, "us"), seen |-> <<>>] \in Reads("us")
    BY <2>1 DEF Reads
  <2> QED BY <2>2
<1>3. "us" \in LAYOUTS
  BY DEF LAYOUTS
<1>4. /\ ExpandChar(for, steps, mods, c).steps \in Seq(KeySteps)
      /\ ExpandChar(for, steps, mods, c).mods = KeyForChar(for, c).mods
  BY <1>2, <1>3, AppliedChar
<1>5. KeyForChar(for, c).mods \in SUBSET TextMods
  BY CharTyped
<1>6. PICK s, m : ExpandChar(for, steps, mods, c) = [steps |-> s, mods |-> m]
  BY DEF ExpandChar
<1> QED BY <1>1, <1>4, <1>5, <1>6 DEF Spelt

\* and its spelling has the value that its equations say.
LEMMA SpellingExists ==
    ASSUME NEW for \in LAYOUTS, NEW S, NEW text \in Seq(S),
           \A c \in ToSet(text) : Reachable(for, c)
    PROVE  \E typed \in [0..Len(text) -> Spelt] : Spelling(typed, for, text)
<1> DEFINE m == Len(text)
           A == Spelt
           next(x, n) == ExpandChar(for, x.steps, x.mods, text[n])
           step == [p \in A \X (1..m) |-> next(p[1], p[2])]
           none == [steps |-> <<>>, mods |-> {}]
<1>1. m \in Nat /\ none \in A
  BY DEF Spelt
<1>2. \A x \in A, n \in 1..m : next(x, n) \in A
  <2>1. \A n \in 1..m : Reachable(for, text[n])
    BY DEF ToSet
  <2> QED BY <2>1, SpeltOn
<1> HIDE DEF A, m, next
<1>3. step \in [A \X (1..m) -> A] /\ \A x \in A, n \in 1..m : step[<<x, n>>] = next(x, n)
  BY <1>2
<1> HIDE DEF step, none
<1>4. PICK k \in [0..m -> A] : Unrolls(k, none, step, m)
  BY <1>1, <1>3, UnrollExists
<1>5. \A n \in 0..m : n # 0 => n \in 1..m /\ k[n - 1] \in A
  BY <1>1, <1>4
<1>6. \A n \in 0..m : k[n] = IF n = 0 THEN none ELSE next(k[n - 1], n)
  BY <1>3, <1>4, <1>5 DEF Unrolls
<1>7. k = [n \in 0..m |-> k[n]]
  BY <1>4
<1>8. k = [n \in 0..m |-> IF n = 0 THEN none ELSE next(k[n - 1], n)]
  BY <1>6, <1>7
<1>9. Spelling(k, for, text)
  BY <1>8 DEF Spelling, m, none, next
<1> QED BY <1>4, <1>9 DEF m, A

\* What a text is expanded to.
LEMMA TextSpelt ==
    ASSUME NEW for \in LAYOUTS, NEW e, NEW S, e.kind = "text", e.text \in Seq(S),
           \A c \in ToSet(e.text) : Reachable(for, c)
    PROVE  \E typed \in [0..Len(e.text) -> Spelt] :
              Spells(typed, for, e.text) /\ Expand(for, e) = LetGo(typed[Len(e.text)])
<1> DEFINE so == CHOOSE typed : Spelling(typed, for, e.text)
<1>1. PICK text \in Seq(S) : text = e.text
  OBVIOUS
<1>2. PICK m \in Nat : m = Len(text)
  BY <1>1
<1>3. Spelling(so, for, text)
  BY <1>1, SpellingExists
<1>4. Expand(for, e) = LetGo(so[m])
  <2>1. e.kind # "key"
    OBVIOUS
  <2> QED BY <1>1, <1>2, <2>1 DEF Expand, Spelling
<1> HIDE DEF so
<1>5. \A n \in 0..m : so[n] = IF n = 0 THEN [steps |-> <<>>, mods |-> {}]
                              ELSE ExpandChar(for, so[n - 1].steps, so[n - 1].mods, text[n])
  BY <1>2, <1>3 DEF Spelling
<1> DEFINE G == {n \in 0..m : so[n] \in Spelt}
<1>6. 0 \in G
  <2>1. [steps |-> <<>>, mods |-> {}] \in Spelt
    BY DEF Spelt
  <2> QED BY <1>5, <2>1
<1>7. ASSUME NEW n \in 0..m, n # m, n \in G PROVE n + 1 \in G
  <2>1. n + 1 \in 1..m /\ n + 1 \in 0..m /\ n + 1 # 0 /\ (n + 1) - 1 = n /\ so[n] \in Spelt
    BY <1>7
  <2>2. so[n + 1] = ExpandChar(for, so[n].steps, so[n].mods, text[n + 1])
    BY <1>5, <2>1
  <2>3. Reachable(for, text[n + 1])
    BY <1>1, <1>2, <2>1 DEF ToSet
  <2> QED BY <2>1, <2>2, <2>3, SpeltOn
<1> HIDE DEF G
<1>8. 0..m \subseteq G
  BY <1>6, <1>7, UpTo
<1>9. \A n \in 0..m : so[n] \in Spelt
  BY <1>8 DEF G
<1>10. so = [n \in 0..m |-> so[n]]
  BY <1>2, <1>3 DEF Spelling
<1>11. so \in [0..m -> Spelt]
  BY <1>9, <1>10
<1>12. Spells(so, for, text)
  <2>1. 0 \in 0..m /\ \A n \in 1..m : n \in 0..m /\ n # 0
    OBVIOUS
  <2> QED BY <1>2, <1>5, <2>1 DEF Spells
<1> QED BY <1>1, <1>2, <1>4, <1>11, <1>12

\* At its end a text lets its modifiers go.
LEMMA AppliedLetGo ==
    ASSUME NEW layout \in LAYOUTS, NEW acc \in Reads(layout), NEW x \in Spelt
    PROVE  /\ LetGo(x) \in Seq(KeySteps)
           /\ Applied(acc, LetGo(x), layout)
                = BracketedTo(Applied(acc, x.steps, layout), x.mods, {}, layout)
<1>1. PICK steps \in Seq(KeySteps) : steps = x.steps
  BY DEF Spelt
<1>2. PICK b \in BOOLEAN : b = ("Shift" \in x.mods)
  BY Truth
<1>3. PICK d \in BOOLEAN : d = ("Mod5" \in x.mods)
  BY Truth
<1>4. PICK shiftKey \in Nat : shiftKey = ShiftKey
  BY StepIn
<1>5. PICK altGrKey \in Nat : altGrKey = AltGrKey
  BY StepIn
<1>6. PICK none \in BOOLEAN : none = FALSE
  OBVIOUS
<1>7. PICK s : s = WithBracket(steps, shiftKey, b, none)
  OBVIOUS
<1>8. /\ s \in Seq(KeySteps)
      /\ Applied(acc, s, layout) = Bracketed(Applied(acc, steps, layout), shiftKey, b, none, layout)
  BY <1>7, AppliedBracket
<1>9. PICK t : t = WithBracket(s, altGrKey, d, none)
  OBVIOUS
<1>10. /\ t \in Seq(KeySteps)
       /\ Applied(acc, t, layout) = Bracketed(Applied(acc, s, layout), altGrKey, d, none, layout)
  BY <1>8, <1>9, AppliedBracket
<1>11. LetGo(x) = t
  BY <1>1, <1>2, <1>3, <1>4, <1>5, <1>6, <1>7, <1>9 DEF LetGo, WithBracket
<1>12. none = ("Shift" \in {}) /\ none = ("Mod5" \in {})
  BY <1>6
<1>13. BracketedTo(Applied(acc, steps, layout), x.mods, {}, layout)
        = Bracketed(Bracketed(Applied(acc, steps, layout), shiftKey, b, none, layout),
                    altGrKey, d, none, layout)
  BY <1>2, <1>3, <1>4, <1>5, <1>12 DEF BracketedTo
<1> QED BY <1>1, <1>8, <1>10, <1>11, <1>13

\* A text leaves no key down that was not, whatever the layouts.
LEMMA TextHolds ==
    ASSUME NEW layout \in LAYOUTS, NEW for \in LAYOUTS, NEW acc \in Reads(layout),
           NEW e, NEW S, e.kind = "text", e.text \in Seq(S),
           \A c \in ToSet(e.text) : Reachable(for, c)
    PROVE  /\ Applied(acc, Expand(for, e), layout) \in Reads(layout)
           /\ Applied(acc, Expand(for, e), layout).kb.held \subseteq acc.kb.held
<1>1. PICK text \in Seq(S) : text = e.text
  OBVIOUS
<1>2. PICK m \in Nat : m = Len(text)
  OBVIOUS
<1>3. PICK typed \in [0..m -> Spelt] : Spells(typed, for, text) /\ Expand(for, e) = LetGo(typed[m])
  BY <1>1, <1>2, TextSpelt
<1>4. PICK h : h = acc.kb.held
  OBVIOUS
<1> DEFINE At(n) == Applied(acc, typed[n].steps, layout)
           G == {n \in 0..m : Within(At(n).kb, h, typed[n].mods)}
<1>5. \A n \in 0..m : typed[n] \in Spelt /\ typed[n].steps \in Seq(KeySteps) /\ At(n) \in Reads(layout)
  BY AppliedTyped DEF Spelt
<1>6. 0 \in G
  <2>1. typed[0].steps = <<>> /\ typed[0].mods = {}
    BY <1>3 DEF Spells
  <2>2. At(0) = acc
    BY <2>1, AppliedEmpty
  <2> QED BY <1>4, <2>2 DEF Within
<1>7. ASSUME NEW n \in 0..m, n # m, n \in G PROVE n + 1 \in G
  <2>1. n + 1 \in 1..m /\ n + 1 \in 0..m /\ (n + 1) - 1 = n
    BY <1>7
  <2>2. PICK c : c = text[n + 1] /\ Reachable(for, c)
    BY <1>1, <1>2, <2>1 DEF ToSet
  <2>3. PICK steps \in Seq(KeySteps) : steps = typed[n].steps
    BY <1>5
  <2>4. PICK mods : mods = typed[n].mods
    OBVIOUS
  <2>5. typed[n + 1] = ExpandChar(for, steps, mods, c)
    BY <1>2, <1>3, <2>1, <2>2, <2>3, <2>4 DEF Spells
  <2>6. PICK key : key = KeyForChar(for, c) /\ key.code \in Nat
    BY <2>2, CharTyped
  <2>7. At(n + 1) = Charred(At(n), mods, key, layout) /\ typed[n + 1].mods = key.mods
    BY <2>2, <2>3, <2>5, <2>6, AppliedChar
  <2>8. Within(At(n).kb, h, mods) /\ At(n) \in Reads(layout)
    BY <1>5, <1>7, <2>3, <2>4
  <2>9. Within(Charred(At(n), mods, key, layout).kb, h, key.mods)
    <3> HIDE DEF At
    <3> QED BY <2>6, <2>8, CharWithin
  <2> QED BY <2>1, <2>7, <2>9
<1> HIDE DEF G
<1>8. 0..m \subseteq G
  BY <1>6, <1>7, UpTo
<1>9. PICK a \in Reads(layout), x \in Spelt :
          /\ x = typed[m] /\ a = Applied(acc, x.steps, layout) /\ Within(a.kb, h, x.mods)
  <2>1. m \in 0..m
    OBVIOUS
  <2> QED BY <1>5, <1>8, <2>1 DEF G
<1>10. Applied(acc, Expand(for, e), layout) = BracketedTo(a, x.mods, {}, layout)
  BY <1>3, <1>9, AppliedLetGo
<1>11. /\ BracketedTo(a, x.mods, {}, layout) \in Reads(layout)
       /\ Within(BracketedTo(a, x.mods, {}, layout).kb, h, {})
  BY <1>9, BracketsWithin
<1> QED BY <1>4, <1>10, <1>11 DEF Within

\* One list read after the other.
ReadOn(s, t) == s \o t

\* One more character of a text is read.
LEMMA ReadFurther ==
    ASSUME NEW T, NEW s \in Seq(T), NEW t \in Seq(T), NEW n \in 0..Len(t), n # Len(t)
    PROVE  ReadOn(s, SubSeq(t, 1, n + 1)) = Append(ReadOn(s, SubSeq(t, 1, n)), t[n + 1])
<1>1. PICK a \in Seq(T) : a = SubSeq(t, 1, n)
  <2>1. SubSeq(t, 1, n) \in Seq(T)
    BY SubSeqProperties
  <2> QED BY <2>1
<1>2. SubSeq(t, 1, n + 1) = Append(a, t[n + 1])
  BY <1>1
<1>3. s \o Append(a, t[n + 1]) = Append(s \o a, t[n + 1])
  OBVIOUS
<1> QED BY <1>1, <1>2, <1>3 DEF ReadOn

\* On a clean seat, in the layout it was expanded for, a text is read as it is.
LEMMA TextIsRead ==
    ASSUME NEW layout \in LAYOUTS, NEW acc \in Reads(layout), NEW e, NEW S,
           e.kind = "text", e.text \in Seq(S), \A c \in ToSet(e.text) : Reachable(layout, c),
           \A c \in ToSet(e.text) : ~IsModifierKeysym(c), Clean(acc.kb, {}, layout)
    PROVE  /\ Clean(Applied(acc, Expand(layout, e), layout).kb, {}, layout)
           /\ Applied(acc, Expand(layout, e), layout).seen = ReadOn(acc.seen, e.text)
<1>1. PICK text \in Seq(S) : text = e.text
  OBVIOUS
<1>2. PICK m \in Nat : m = Len(text)
  OBVIOUS
<1>3. PICK typed \in [0..m -> Spelt] : /\ Spells(typed, layout, text)
                                      /\ Expand(layout, e) = LetGo(typed[m])
  BY <1>1, <1>2, TextSpelt
<1>4. PICK T : /\ acc.seen \in Seq(T) /\ text \in Seq(T)
  <2>1. acc.seen \in Seq(Syms(layout) \cup S) /\ text \in Seq(Syms(layout) \cup S)
    BY DEF Reads
  <2> QED BY <2>1
<1>5. PICK s \in Seq(T) : s = acc.seen
  BY <1>4
<1> DEFINE At(n) == Applied(acc, typed[n].steps, layout)
           G == {n \in 0..m : /\ Clean(At(n).kb, typed[n].mods, layout)
                              /\ At(n).seen = ReadOn(s, SubSeq(text, 1, n))}
<1>6. \A n \in 0..m : typed[n] \in Spelt /\ typed[n].steps \in Seq(KeySteps) /\ At(n) \in Reads(layout)
  BY AppliedTyped DEF Spelt
<1>7. 0 \in G
  <2>1. typed[0].steps = <<>> /\ typed[0].mods = {}
    BY <1>3 DEF Spells
  <2>2. At(0) = acc
    BY <2>1, AppliedEmpty
  <2>3. SubSeq(text, 1, 0) = <<>>
    OBVIOUS
  <2>4. ReadOn(s, <<>>) = s
    BY DEF ReadOn
  <2> HIDE DEF At
  <2>5. At(0).seen = ReadOn(s, SubSeq(text, 1, 0))
    BY <1>5, <2>2, <2>3, <2>4
  <2>6. Clean(At(0).kb, typed[0].mods, layout)
    BY <2>1, <2>2
  <2> QED BY <2>5, <2>6
<1>8. ASSUME NEW n \in 0..m, n # m, n \in G PROVE n + 1 \in G
  <2>1. n + 1 \in 1..m /\ n + 1 \in 0..m /\ (n + 1) - 1 = n
    BY <1>8
  <2>2. PICK c : c = text[n + 1] /\ Reachable(layout, c) /\ ~IsModifierKeysym(c)
    BY <1>1, <1>2, <2>1 DEF ToSet
  <2>3. PICK steps \in Seq(KeySteps) : steps = typed[n].steps
    BY <1>6
  <2>4. PICK mods : mods = typed[n].mods
    OBVIOUS
  <2>5. typed[n + 1] = ExpandChar(layout, steps, mods, c)
    BY <1>2, <1>3, <2>1, <2>2, <2>3, <2>4 DEF Spells
  <2>6. PICK key : key = KeyForChar(layout, c)
    OBVIOUS
  <2>7. At(n + 1) = Charred(At(n), mods, key, layout) /\ typed[n + 1].mods = key.mods
    BY <2>2, <2>3, <2>5, <2>6, AppliedChar
  <2>8. PICK a \in Reads(layout) : a = At(n) /\ Clean(a.kb, mods, layout)
                                   /\ a.seen = ReadOn(s, SubSeq(text, 1, n))
    BY <1>6, <1>8, <2>3, <2>4
  <2> HIDE DEF At
  <2>9. /\ Clean(Charred(a, mods, key, layout).kb, key.mods, layout)
        /\ Charred(a, mods, key, layout).seen = Append(a.seen, c)
    BY <2>2, <2>6, <2>8, CharClean
  <2>10. ReadOn(s, SubSeq(text, 1, n + 1)) = Append(ReadOn(s, SubSeq(text, 1, n)), text[n + 1])
    <3>1. n \in 0..Len(text) /\ n # Len(text) /\ text \in Seq(T)
      BY <1>2, <1>4, <1>8
    <3> QED BY <3>1, ReadFurther
  <2> QED BY <2>1, <2>2, <2>7, <2>8, <2>9, <2>10
<1> HIDE DEF G
<1>9. 0..m \subseteq G
  BY <1>7, <1>8, UpTo
<1>10. PICK a \in Reads(layout), x \in Spelt :
          /\ x = typed[m] /\ a = Applied(acc, x.steps, layout) /\ Clean(a.kb, x.mods, layout)
          /\ a.seen = ReadOn(s, SubSeq(text, 1, m))
  <2>1. m \in 0..m
    OBVIOUS
  <2> QED BY <1>6, <1>9, <2>1 DEF G
<1>11. Applied(acc, Expand(layout, e), layout) = BracketedTo(a, x.mods, {}, layout)
  BY <1>3, <1>10, AppliedLetGo
<1>12. /\ Clean(BracketedTo(a, x.mods, {}, layout).kb, {}, layout)
       /\ BracketedTo(a, x.mods, {}, layout).seen = a.seen
  BY <1>10, BracketsClean
<1>13. SubSeq(text, 1, m) = text
  BY <1>2
<1> QED BY <1>1, <1>5, <1>10, <1>11, <1>12, <1>13

\* What an entry leaves held, at most.
Leaves(held, e) ==
    IF e.kind = "text" THEN held
    ELSE IF e.down THEN held \cup {e.code} ELSE held \ {e.code}

\* An entry of any kind leaves the keyboard settled, and holds no more than its kind does.
LEMMA EntryApplied ==
    ASSUME NEW layout \in LAYOUTS, NEW for \in LAYOUTS, NEW acc \in Reads(layout),
           NEW e, IsEntry(e), Expands(for, e)
    PROVE  /\ Applied(acc, Expand(for, e), layout) \in Reads(layout)
           /\ Applied(acc, Expand(for, e), layout).kb.held \subseteq Leaves(acc.kb.held, e)
<1>1. CASE e.kind = "text"
  <2>1. e.text \in Seq(ToSet(e.text)) /\ \A c \in ToSet(e.text) : Reachable(for, c)
    BY <1>1 DEF IsEntry, Expands
  <2>2. PICK S : e.text \in Seq(S)
    BY <2>1
  <2>3. /\ Applied(acc, Expand(for, e), layout) \in Reads(layout)
        /\ Applied(acc, Expand(for, e), layout).kb.held \subseteq acc.kb.held
    BY <1>1, <2>1, <2>2, TextHolds
  <2> QED BY <1>1, <2>3 DEF Leaves
<1>2. CASE e.kind # "text"
  <2>1. PICK code \in Nat : code = e.code
    BY <1>2 DEF IsEntry
  <2>2. PICK down \in BOOLEAN : down = e.down
    BY <1>2 DEF IsEntry
  <2>3. e.kind = "key"
    BY <1>2 DEF IsEntry
  <2>4. PICK step \in KeySteps : step = KeyStep(code, down)
    BY StepIn
  <2>5. PICK none \in Seq(KeySteps) : none = <<>>
    <3>1. <<>> \in Seq(KeySteps)
      OBVIOUS
    <3> QED BY <3>1
  <2>6. Expand(for, e) = Append(none, step)
    BY <2>1, <2>2, <2>3, <2>4, <2>5 DEF Expand
  <2>7. Applied(acc, Append(none, step), layout) = ApplyStep(Applied(acc, none, layout), step, layout)
    BY AppliedAppend
  <2>8. Applied(acc, none, layout) = acc
    BY <2>5, AppliedEmpty
  <2>9. Applied(acc, Expand(for, e), layout) = ApplyStep(acc, step, layout)
    BY <2>6, <2>7, <2>8
  <2>10. ApplyStep(acc, step, layout) \in Reads(layout)
    BY StepReads
  <2>11. PICK undone \in BOOLEAN : undone # down
    OBVIOUS
  <2>12. Bracketed(acc, code, undone, down, layout) = ApplyStep(acc, step, layout)
    BY <2>4, <2>11 DEF Bracketed
  <2>13. ApplyStep(acc, step, layout).kb.held = HeldThrough(acc.kb.held, code, undone, down)
    BY <2>12, BracketHolds
  <2>14. ApplyStep(acc, step, layout).kb.held = Leaves(acc.kb.held, e)
    BY <1>2, <2>1, <2>2, <2>11, <2>13 DEF HeldThrough, Leaves
  <2> QED BY <2>9, <2>10, <2>14
<1> QED BY <1>1, <1>2

-----------------------------------------------------------------------------
(* The drain.                                                              *)

EntryStep(acc, e, for, layout) ==
    IF Expands(for, e) THEN Applied(acc, Expand(for, e), layout) ELSE acc

DrainRuns(run, k, entries, for, layout) ==
    /\ run[0] = [kb |-> k, seen |-> <<>>]
    /\ \A n \in 1..Len(entries) : run[n] = EntryStep(run[n - 1], entries[n], for, layout)
Draining(run, k, entries, for, layout) ==
    run = [n \in 0..Len(entries) |->
              IF n = 0 THEN [kb |-> k, seen |-> <<>>]
              ELSE EntryStep(run[n - 1], entries[n], for, layout)]

LEMMA EntryStepIn ==
    ASSUME NEW layout \in LAYOUTS, NEW for \in LAYOUTS, NEW acc \in Reads(layout),
           NEW e, IsEntry(e)
    PROVE  /\ EntryStep(acc, e, for, layout) \in Reads(layout)
           /\ EntryStep(acc, e, for, layout).kb.held \subseteq Leaves(acc.kb.held, e)
<1>1. CASE Expands(for, e)
  BY <1>1, EntryApplied DEF EntryStep
<1>2. CASE ~Expands(for, e)
  <2>1. e.kind = "text"
    BY <1>2 DEF Expands
  <2> QED BY <1>2, <2>1 DEF EntryStep, Leaves
<1> QED BY <1>1, <1>2

\* The queue is drained entry by entry, as its equations say,
LEMMA DrainingExists ==
    ASSUME NEW layout \in LAYOUTS, NEW for \in LAYOUTS, NEW k \in SettledFor(layout),
           NEW S, NEW entries \in Seq(S), \A e \in S : IsEntry(e)
    PROVE  \E run \in [0..Len(entries) -> Reads(layout)] : Draining(run, k, entries, for, layout)
<1> DEFINE m == Len(entries)
           A == Reads(layout)
           next(x, n) == EntryStep(x, entries[n], for, layout)
           step == [p \in A \X (1..m) |-> next(p[1], p[2])]
           first == [kb |-> k, seen |-> <<>>]
<1>1. m \in Nat /\ first \in A
  BY DEF Reads
<1>2. \A x \in A, n \in 1..m : next(x, n) \in A
  BY EntryStepIn
<1> HIDE DEF A, m, next
<1>3. step \in [A \X (1..m) -> A] /\ \A x \in A, n \in 1..m : step[<<x, n>>] = next(x, n)
  BY <1>2
<1> HIDE DEF step, first
<1>4. PICK r \in [0..m -> A] : Unrolls(r, first, step, m)
  BY <1>1, <1>3, UnrollExists
<1>5. \A n \in 0..m : n # 0 => n \in 1..m /\ r[n - 1] \in A
  BY <1>1, <1>4
<1>6. \A n \in 0..m : r[n] = IF n = 0 THEN first ELSE next(r[n - 1], n)
  BY <1>3, <1>4, <1>5 DEF Unrolls
<1>7. r = [n \in 0..m |-> r[n]]
  BY <1>4
<1>8. r = [n \in 0..m |-> IF n = 0 THEN first ELSE next(r[n - 1], n)]
  BY <1>6, <1>7
<1>9. Draining(r, k, entries, for, layout)
  BY <1>8 DEF Draining, m, first, next
<1> QED BY <1>4, <1>9 DEF m, A

\* and so is the model's.
LEMMA DrainedRuns ==
    ASSUME NEW layout \in LAYOUTS, NEW for \in LAYOUTS, NEW k \in SettledFor(layout),
           NEW S, NEW entries \in Seq(S), \A e \in S : IsEntry(e),
           kb = k, pendingInput = entries, servedLayout = layout, KeymapFor(published) = for
    PROVE  \E run \in [0..Len(entries) -> Reads(layout)] :
              DrainRuns(run, k, entries, for, layout) /\ Drained = run[Len(entries)]
<1> DEFINE so == CHOOSE run : Draining(run, k, entries, for, layout)
<1>1. PICK m \in Nat : m = Len(entries)
  OBVIOUS
<1>2. Draining(so, k, entries, for, layout)
  BY DrainingExists
<1>3. Drained = so[m]
  BY <1>1 DEF Drained, Draining, EntryStep
<1> HIDE DEF so
<1>4. \A n \in 0..m : so[n] = IF n = 0 THEN [kb |-> k, seen |-> <<>>]
                              ELSE EntryStep(so[n - 1], entries[n], for, layout)
  BY <1>1, <1>2 DEF Draining
<1> DEFINE G == {n \in 0..m : so[n] \in Reads(layout)}
<1>5. 0 \in G
  <2>1. [kb |-> k, seen |-> <<>>] \in Reads(layout)
    BY DEF Reads
  <2> QED BY <1>4, <2>1
<1>6. ASSUME NEW n \in 0..m, n # m, n \in G PROVE n + 1 \in G
  <2>1. n + 1 \in 1..m /\ n + 1 \in 0..m /\ n + 1 # 0 /\ (n + 1) - 1 = n /\ so[n] \in Reads(layout)
    BY <1>6
  <2>2. so[n + 1] = EntryStep(so[n], entries[n + 1], for, layout)
    BY <1>4, <2>1
  <2>3. IsEntry(entries[n + 1])
    BY <1>1, <2>1
  <2> QED BY <2>1, <2>2, <2>3, EntryStepIn
<1> HIDE DEF G
<1>7. 0..m \subseteq G
  BY <1>5, <1>6, UpTo
<1>8. so = [n \in 0..m |-> so[n]]
  BY <1>1, <1>2 DEF Draining
<1>9. so \in [0..m -> Reads(layout)]
  BY <1>7, <1>8 DEF G
<1>10. DrainRuns(so, k, entries, for, layout)
  <2>1. 0 \in 0..m /\ \A n \in 1..m : n \in 0..m /\ n # 0
    OBVIOUS
  <2> QED BY <1>1, <1>4, <2>1 DEF DrainRuns
<1> QED BY <1>1, <1>3, <1>9, <1>10

\* What callers have asked to hold.
HoldOne(kept0, e) ==
    IF e.kind # "key" THEN kept0
    ELSE IF e.down THEN kept0 \cup {e.code} ELSE kept0 \ {e.code}
HoldRuns(keys, kept0, entries) ==
    keys[0] = kept0 /\ \A n \in 1..Len(entries) : keys[n] = HoldOne(keys[n - 1], entries[n])
Holding(keys, kept0, entries) ==
    keys = [n \in 0..Len(entries) |->
               IF n = 0 THEN kept0 ELSE HoldOne(keys[n - 1], entries[n])]

LEMMA HoldOneIn ==
    ASSUME NEW kept0 \in SUBSET Nat, NEW e, IsEntry(e)
    PROVE  HoldOne(kept0, e) \in SUBSET Nat
BY DEF HoldOne, IsEntry

\* What the socket keeps down is counted entry by entry, as its equations say,
LEMMA HoldingExists ==
    ASSUME NEW kept0 \in SUBSET Nat, NEW S, NEW entries \in Seq(S), \A e \in S : IsEntry(e)
    PROVE  \E keys \in [0..Len(entries) -> SUBSET Nat] : Holding(keys, kept0, entries)
<1> DEFINE m == Len(entries)
           A == SUBSET Nat
           next(x, n) == HoldOne(x, entries[n])
           step == [p \in A \X (1..m) |-> next(p[1], p[2])]
<1>1. m \in Nat /\ kept0 \in A
  OBVIOUS
<1>2. \A x \in A, n \in 1..m : next(x, n) \in A
  BY HoldOneIn
<1> HIDE DEF A, m, next
<1>3. step \in [A \X (1..m) -> A] /\ \A x \in A, n \in 1..m : step[<<x, n>>] = next(x, n)
  BY <1>2
<1> HIDE DEF step
<1>4. PICK r \in [0..m -> A] : Unrolls(r, kept0, step, m)
  BY <1>1, <1>3, UnrollExists
<1>5. \A n \in 0..m : n # 0 => n \in 1..m /\ r[n - 1] \in A
  BY <1>1, <1>4
<1>6. \A n \in 0..m : r[n] = IF n = 0 THEN kept0 ELSE next(r[n - 1], n)
  BY <1>3, <1>4, <1>5 DEF Unrolls
<1>7. r = [n \in 0..m |-> r[n]]
  BY <1>4
<1>8. r = [n \in 0..m |-> IF n = 0 THEN kept0 ELSE next(r[n - 1], n)]
  BY <1>6, <1>7
<1>9. Holding(r, kept0, entries)
  BY <1>8 DEF Holding, m, next
<1> QED BY <1>4, <1>9 DEF m, A

\* and so is the model's.
LEMMA HoldsRuns ==
    ASSUME NEW kept0 \in SUBSET Nat, NEW S, NEW entries \in Seq(S), \A e \in S : IsEntry(e)
    PROVE  \E keys \in [0..Len(entries) -> SUBSET Nat] :
              HoldRuns(keys, kept0, entries) /\ Holds(kept0, entries) = keys[Len(entries)]
<1> DEFINE so == CHOOSE keys : Holding(keys, kept0, entries)
<1>1. PICK m \in Nat : m = Len(entries)
  OBVIOUS
<1>2. Holding(so, kept0, entries)
  BY HoldingExists
<1>3. Holds(kept0, entries) = so[m]
  BY <1>1 DEF Holds, Holding, HoldOne
<1> HIDE DEF so
<1>4. \A n \in 0..m : so[n] = IF n = 0 THEN kept0 ELSE HoldOne(so[n - 1], entries[n])
  BY <1>1, <1>2 DEF Holding
<1> DEFINE G == {n \in 0..m : so[n] \in SUBSET Nat}
<1>5. 0 \in G
  <2>1. 0 \in 0..m
    OBVIOUS
  <2>2. so[0] = kept0
    BY <1>4, <2>1
  <2> QED BY <2>1, <2>2
<1>6. ASSUME NEW n \in 0..m, n # m, n \in G PROVE n + 1 \in G
  <2>1. n + 1 \in 1..m /\ n + 1 \in 0..m /\ n + 1 # 0 /\ (n + 1) - 1 = n /\ so[n] \in SUBSET Nat
    BY <1>6
  <2>2. so[n + 1] = HoldOne(so[n], entries[n + 1])
    BY <1>4, <2>1
  <2>3. IsEntry(entries[n + 1])
    BY <1>1, <2>1
  <2> QED BY <2>1, <2>2, <2>3, HoldOneIn
<1> HIDE DEF G
<1>7. 0..m \subseteq G
  BY <1>5, <1>6, UpTo
<1>8. so = [n \in 0..m |-> so[n]]
  BY <1>1, <1>2 DEF Holding
<1>9. so \in [0..m -> SUBSET Nat]
  BY <1>7, <1>8 DEF G
<1>10. HoldRuns(so, kept0, entries)
  <2>1. 0 \in 0..m /\ \A n \in 1..m : n \in 0..m /\ n # 0
    OBVIOUS
  <2> QED BY <1>1, <1>4, <2>1 DEF HoldRuns
<1> QED BY <1>1, <1>3, <1>9, <1>10

\* What is held after a drain is under a finger, or kept for a caller.
LEMMA DrainHolds ==
    ASSUME NEW layout \in LAYOUTS, NEW for \in LAYOUTS, NEW k \in SettledFor(layout),
           NEW S, NEW entries \in Seq(S), \A e \in S : IsEntry(e),
           kb = k, pendingInput = entries, servedLayout = layout, KeymapFor(published) = for,
           NEW down, NEW kept0 \in SUBSET Nat, k.held \subseteq down \cup kept0
    PROVE  /\ Drained \in Reads(layout)
           /\ Drained.kb.held \subseteq down \cup Holds(kept0, entries)
           /\ Holds(kept0, entries) \in SUBSET Nat
<1>1. PICK m \in Nat : m = Len(entries)
  OBVIOUS
<1>2. PICK run \in [0..m -> Reads(layout)] :
          DrainRuns(run, k, entries, for, layout) /\ Drained = run[m]
  BY <1>1, DrainedRuns
<1>3. PICK keys \in [0..m -> SUBSET Nat] :
          HoldRuns(keys, kept0, entries) /\ Holds(kept0, entries) = keys[m]
  BY <1>1, HoldsRuns
<1> DEFINE G == {n \in 0..m : run[n].kb.held \subseteq down \cup keys[n]}
<1>4. 0 \in G
  <2>1. run[0].kb = k /\ keys[0] = kept0
    BY <1>2, <1>3 DEF DrainRuns, HoldRuns
  <2> QED BY <2>1
<1>5. ASSUME NEW n \in 0..m, n # m, n \in G PROVE n + 1 \in G
  <2>1. n + 1 \in 1..m /\ n + 1 \in 0..m /\ (n + 1) - 1 = n
    BY <1>5
  <2>2. PICK e : e = entries[n + 1] /\ IsEntry(e)
    BY <1>1, <2>1
  <2>3. PICK acc \in Reads(layout) : acc = run[n] /\ acc.kb.held \subseteq down \cup keys[n]
    BY <1>5
  <2>4. run[n + 1] = EntryStep(acc, e, for, layout)
    BY <1>1, <1>2, <2>1, <2>2, <2>3 DEF DrainRuns
  <2>5. keys[n + 1] = HoldOne(keys[n], e)
    BY <1>1, <1>3, <2>1, <2>2 DEF HoldRuns
  <2>6. run[n + 1].kb.held \subseteq Leaves(acc.kb.held, e)
    BY <2>2, <2>4, EntryStepIn
  <2>7. Leaves(acc.kb.held, e) \subseteq down \cup HoldOne(keys[n], e)
    BY <2>2, <2>3 DEF Leaves, HoldOne, IsEntry
  <2> QED BY <2>1, <2>5, <2>6, <2>7
<1> HIDE DEF G
<1>6. 0..m \subseteq G
  BY <1>4, <1>5, UpTo
<1>7. m \in 0..m
  OBVIOUS
<1>8. run[m].kb.held \subseteq down \cup keys[m]
  BY <1>6, <1>7 DEF G
<1> QED BY <1>2, <1>3, <1>7, <1>8

\* A clean seat drains texts: the client reads them one after the other.
LEMMA DrainReads ==
    ASSUME NEW layout \in LAYOUTS, NEW k \in SettledFor(layout),
           NEW S, NEW entries \in Seq(S), \A e \in S : IsEntry(e),
           kb = k, pendingInput = entries, servedLayout = layout, KeymapFor(published) = layout,
           Clean(k, {}, layout),
           \A i \in 1..Len(entries) : entries[i].kind = "text" /\ Expands(layout, entries[i])
    PROVE  Drained.seen = Chained([i \in DOMAIN entries |-> entries[i].text])
<1>1. PICK m \in Nat : m = Len(entries) /\ DOMAIN entries = 1..m
  OBVIOUS
<1>2. PICK run \in [0..m -> Reads(layout)] :
          DrainRuns(run, k, entries, layout, layout) /\ Drained = run[m]
  BY <1>1, DrainedRuns
<1>3. PICK T : T = UNION {ToSet(entries[i].text) : i \in 1..m}
  OBVIOUS
<1>4. PICK texts : texts = [i \in DOMAIN entries |-> entries[i].text]
  OBVIOUS
<1>5. \A i \in 1..m : IsEntry(entries[i]) /\ entries[i].kind = "text"
  BY <1>1
<1>6. ASSUME NEW i \in 1..m PROVE texts[i] \in Seq(T) /\ texts[i] = entries[i].text
  <2>1. texts[i] = entries[i].text
    BY <1>1, <1>4
  <2>2. texts[i] \in Seq(ToSet(texts[i]))
    BY <1>5, <2>1 DEF IsEntry
  <2>3. ToSet(texts[i]) \subseteq T
    BY <1>3, <2>1
  <2> QED BY <2>1, <2>2, <2>3
<1>7. texts \in Seq(Seq(T)) /\ Len(texts) = m
  <2>1. texts \in [1..m -> Seq(T)]
    BY <1>1, <1>4, <1>6
  <2> QED BY <2>1
<1>8. PICK chain \in [0..Len(texts) -> Seq(T)] :
          Chains(chain, texts) /\ Chained(texts) = chain[Len(texts)]
  BY <1>7, ChainedChains
<1> DEFINE G == {n \in 0..m : run[n].seen = chain[n] /\ Clean(run[n].kb, {}, layout)}
<1>9. 0 \in G
  <2>1. run[0] = [kb |-> k, seen |-> <<>>] /\ chain[0] = <<>>
    BY <1>2, <1>8 DEF DrainRuns, Chains
  <2>2. run[0].kb = k /\ run[0].seen = <<>>
    BY <2>1
  <2> QED BY <2>1, <2>2
<1>10. ASSUME NEW n \in 0..m, n # m, n \in G PROVE n + 1 \in G
  <2>1. n + 1 \in 1..m /\ n + 1 \in 0..m /\ (n + 1) - 1 = n
    BY <1>10
  <2>2. PICK e : e = entries[n + 1]
    OBVIOUS
  <2>3. IsEntry(e) /\ e.kind = "text" /\ Expands(layout, e)
    BY <1>1, <1>5, <2>1, <2>2
  <2>4. PICK acc \in Reads(layout) :
            acc = run[n] /\ acc.seen = chain[n] /\ Clean(acc.kb, {}, layout)
    BY <1>10
  <2>5. run[n + 1] = Applied(acc, Expand(layout, e), layout)
    BY <1>1, <1>2, <2>1, <2>2, <2>3, <2>4 DEF DrainRuns, EntryStep
  <2>6. /\ e.text \in Seq(ToSet(e.text)) /\ \A c \in ToSet(e.text) : Reachable(layout, c)
        /\ \A c \in ToSet(e.text) : ~IsModifierKeysym(c)
    BY <2>3 DEF IsEntry, Expands
  <2>7. PICK U : e.text \in Seq(U)
    BY <2>6
  <2>8. /\ Clean(Applied(acc, Expand(layout, e), layout).kb, {}, layout)
        /\ Applied(acc, Expand(layout, e), layout).seen = ReadOn(acc.seen, e.text)
    BY <2>3, <2>4, <2>6, <2>7, TextIsRead
  <2>9. chain[n + 1] = chain[n] \o texts[n + 1]
    BY <1>7, <1>8, <2>1 DEF Chains
  <2>10. texts[n + 1] = e.text
    BY <1>6, <2>1, <2>2
  <2>11. ReadOn(acc.seen, e.text) = chain[n + 1]
    BY <2>4, <2>9, <2>10 DEF ReadOn
  <2> QED BY <2>1, <2>5, <2>8, <2>11
<1> HIDE DEF G
<1>11. 0..m \subseteq G
  BY <1>9, <1>10, UpTo
<1>12. run[m].seen = chain[m]
  <2>1. m \in 0..m
    OBVIOUS
  <2> QED BY <1>11, <2>1 DEF G
<1> QED BY <1>2, <1>4, <1>7, <1>8, <1>12

-----------------------------------------------------------------------------
(* The seat's keyboard.                                                    *)

\* Every entry that is asked for, queued, or drained.
AllEntries == UNION {ToSet(request) : request \in Requests}

\* The keyboard is settled for the layout that is served, and what is held is accounted for.
KeyboardInv ==
    /\ servedLayout \in LAYOUTS
    /\ kb \in SettledFor(servedLayout)
    /\ fingers \in SUBSET Nat /\ kept \in SUBSET Nat
    /\ kb.held \subseteq fingers \cup kept
    /\ pushing \in Seq(AllEntries) /\ pendingInput \in Seq(AllEntries)

\* Only entries are ever queued.
LEMMA AllAreEntries == \A e \in AllEntries : IsEntry(e)
BY KeyboardAssumption DEF AllEntries

\* A settled keyboard means the same to both sides.
LEMMA InvAgrees == KeyboardInv => KeyboardsAgree
<1> SUFFICES ASSUME KeyboardInv PROVE KeyboardsAgree
  OBVIOUS
<1>1. PICK layout \in LAYOUTS : layout = servedLayout
  BY DEF KeyboardInv
<1>2. PICK k \in SettledFor(layout) : k = kb
  BY <1>1 DEF KeyboardInv
<1>3. k = Settled(k.held, k.locked, layout)
  BY <1>2 DEF SettledFor, IsSettled
<1>4. PICK d, l : d = BitsOf(layout, k.held) /\ l = k.locked
  OBVIOUS
<1>5. k.depressed = d /\ k.sent = [depressed |-> d, locked |-> l]
  BY <1>3, <1>4 DEF Settled, Mods
<1>6. PICK sent : sent = k.sent /\ sent.depressed \cup sent.locked = Effective(k)
  BY <1>4, <1>5 DEF Effective
<1>7. \A code \in Codes(layout) :
          LevelForKey(layout, code, Effective(k)) = ClientLevel(layout, code, sent)
  BY <1>6, LevelsAgree
<1>8. SidesAgree
  BY <1>1, <1>2, <1>6, <1>7 DEF SidesAgree
<1>9. NothingStranded
  BY DEF KeyboardInv, NothingStranded
<1> QED BY <1>8, <1>9 DEF KeyboardsAgree

LEMMA InitHolds == KeyboardInit => KeyboardInv
<1> SUFFICES ASSUME KeyboardInit PROVE KeyboardInv
  OBVIOUS
<1>1. PICK k : k = kb /\ k = [held |-> {}, depressed |-> {}, locked |-> {},
                              sent |-> [depressed |-> {}, locked |-> {}]]
  BY DEF KeyboardInit
<1>2. BitsOf("us", {}) = {}
  BY DEF BitsOf
<1>3. k = Settled({}, {}, "us")
  BY <1>1, <1>2 DEF Settled, Mods
<1>4. k \in SettledFor("us") /\ k.held = {}
  BY <1>3, SettledIn
<1>5. "us" \in LAYOUTS
  BY DEF LAYOUTS
<1>6. pushing \in Seq(AllEntries) /\ pendingInput \in Seq(AllEntries)
  BY DEF KeyboardInit
<1> QED BY <1>1, <1>4, <1>5, <1>6 DEF KeyboardInit, KeyboardInv

\* A step that leaves the keyboard as it is, and asks for nothing new.
LEMMA PressHolds ==
    ASSUME KeyboardInv, NEW code \in FingerKeys, OperatorPresses(code)
    PROVE  KeyboardInv'
<1>1. PICK layout \in LAYOUTS : layout = servedLayout
  BY DEF KeyboardInv
<1>2. PICK k \in SettledFor(layout) : k = kb /\ k.held \subseteq fingers \cup kept
  BY <1>1 DEF KeyboardInv
<1>3. PICK h \in SUBSET Nat : h = k.held
  BY DEF SettledFor, IsSettled
<1>4. PICK l \in SUBSET Locks : l = k.locked
  BY DEF SettledFor, IsSettled
<1>5. k = Settled(h, l, layout)
  BY <1>3, <1>4 DEF SettledFor, IsSettled
<1>6. code \in Nat
  BY KeyboardAssumption
<1>7. PICK g \in SUBSET Nat : g = h \cup {code}
  BY <1>6
<1>8. PICK t \in SUBSET Locks : t = Turn(l, LockBit(FirstSym(layout, code)))
  BY BitsTyped DEF Turn
<1>9. UpdateKey(Settled(h, l, layout), layout, code, TRUE) = Settled(g, t, layout)
  BY <1>7, <1>8, KeyGoesDown
<1>10. kb' = Settled(g, t, layout)
  BY <1>1, <1>2, <1>5, <1>9 DEF OperatorPresses
<1>11. kb' \in SettledFor(layout) /\ kb'.held = g
  BY <1>10, SettledIn
<1>12. /\ fingers' = fingers \cup {code} /\ servedLayout' = servedLayout /\ kept' = kept
       /\ pushing' = pushing /\ pendingInput' = pendingInput
  BY DEF OperatorPresses, layoutVars, socketVars
<1> QED BY <1>1, <1>2, <1>3, <1>6, <1>7, <1>11, <1>12 DEF KeyboardInv

LEMMA ReleaseHolds ==
    ASSUME KeyboardInv, NEW code \in FingerKeys, OperatorReleases(code)
    PROVE  KeyboardInv'
<1>1. PICK layout \in LAYOUTS : layout = servedLayout
  BY DEF KeyboardInv
<1>2. PICK k \in SettledFor(layout) : k = kb /\ k.held \subseteq fingers \cup kept
  BY <1>1 DEF KeyboardInv
<1>3. PICK h \in SUBSET Nat : h = k.held
  BY DEF SettledFor, IsSettled
<1>4. PICK l \in SUBSET Locks : l = k.locked
  BY DEF SettledFor, IsSettled
<1>5. k = Settled(h, l, layout)
  BY <1>3, <1>4 DEF SettledFor, IsSettled
<1>6. PICK g \in SUBSET Nat : g = h \ {code}
  OBVIOUS
<1>7. UpdateKey(Settled(h, l, layout), layout, code, FALSE) = Settled(g, l, layout)
  BY <1>6, KeyGoesUp
<1>8. kb' = Settled(g, l, layout)
  BY <1>1, <1>2, <1>5, <1>7 DEF OperatorReleases
<1>9. kb' \in SettledFor(layout) /\ kb'.held = g
  BY <1>8, SettledIn
<1>10. /\ fingers' = fingers \ {code} /\ servedLayout' = servedLayout /\ kept' = kept
       /\ pushing' = pushing /\ pendingInput' = pendingInput
  BY DEF OperatorReleases, layoutVars, socketVars
<1> QED BY <1>1, <1>2, <1>3, <1>6, <1>9, <1>10 DEF KeyboardInv

LEMMA ReleaseAllHolds ==
    ASSUME KeyboardInv, ReleaseAllKeys
    PROVE  KeyboardInv'
<1>1. PICK layout \in LAYOUTS : layout = servedLayout
  BY DEF KeyboardInv
<1>2. PICK k \in SettledFor(layout) : k = kb
  BY <1>1 DEF KeyboardInv
<1>3. PICK h \in SUBSET Nat : h = k.held
  BY DEF SettledFor, IsSettled
<1>4. PICK l \in SUBSET Locks : l = k.locked
  BY DEF SettledFor, IsSettled
<1>5. k = Settled(h, l, layout)
  BY <1>3, <1>4 DEF SettledFor, IsSettled
<1>6. Told(k, [k EXCEPT !.held = {}, !.depressed = {}]) = Settled({}, l, layout)
  BY <1>5, AllGoUp
<1>7. kb' = Settled({}, l, layout)
  BY <1>2, <1>6 DEF ReleaseAllKeys
<1>8. kb' \in SettledFor(layout) /\ kb'.held = {}
  BY <1>7, SettledIn
<1>9. /\ fingers' = {} /\ kept' = {} /\ servedLayout' = servedLayout
      /\ pushing' = pushing /\ pendingInput' = pendingInput
  BY DEF ReleaseAllKeys, layoutVars
<1> QED BY <1>1, <1>8, <1>9 DEF KeyboardInv

LEMMA AskHolds ==
    ASSUME KeyboardInv, NEW request \in Requests, Asks(request)
    PROVE  KeyboardInv'
<1>1. request \in Seq(AllEntries)
  <2>1. request \in Seq(ToSet(request)) /\ ToSet(request) \subseteq AllEntries
    BY KeyboardAssumption DEF AllEntries
  <2> QED BY <2>1
<1>2. pushing' = request
  BY DEF Asks
<1>3. UNCHANGED <<kb, servedLayout, fingers, kept, pendingInput>>
  BY DEF Asks, layoutVars
<1> QED BY <1>1, <1>2, <1>3 DEF KeyboardInv

LEMMA QueueHolds ==
    ASSUME KeyboardInv, QueueInput
    PROVE  KeyboardInv'
<1>1. pushing \in Seq(AllEntries) /\ pendingInput \in Seq(AllEntries) /\ pushing # <<>>
  BY DEF KeyboardInv, QueueInput
<1>2. Tail(pushing) \in Seq(AllEntries) /\ Append(pendingInput, Head(pushing)) \in Seq(AllEntries)
  BY <1>1
<1>3. pushing' = Tail(pushing) /\ pendingInput' = Append(pendingInput, Head(pushing))
  BY DEF QueueInput
<1>4. UNCHANGED <<kb, servedLayout, fingers, kept>>
  BY DEF QueueInput, layoutVars
<1> QED BY <1>2, <1>3, <1>4 DEF KeyboardInv

\* A drain, and what the client reads in it.
LEMMA DrainIsSound ==
    ASSUME KeyboardInv, DrainInput
    PROVE  /\ KeyboardInv'
           /\ ( /\ Effective(kb) = {} /\ KeymapFor(published) = servedLayout
                /\ \A i \in DOMAIN pendingInput : /\ pendingInput[i].kind = "text"
                                                  /\ Expands(servedLayout, pendingInput[i]) )
              => seen' = Chained([i \in DOMAIN pendingInput |-> pendingInput[i].text])
<1>1. PICK layout \in LAYOUTS : layout = servedLayout
  BY DEF KeyboardInv
<1>2. PICK k \in SettledFor(layout) : k = kb
  BY <1>1 DEF KeyboardInv
<1>3. PICK for \in LAYOUTS : for = KeymapFor(published)
  BY DEF KeymapFor, LAYOUTS
<1>4. PICK entries \in Seq(AllEntries) : entries = pendingInput
  BY DEF KeyboardInv
<1>5. PICK kept0 \in SUBSET Nat : kept0 = kept
  BY DEF KeyboardInv
<1>6. PICK down \in SUBSET Nat : down = fingers
  BY DEF KeyboardInv
<1>7. k.held \subseteq down \cup kept0
  BY <1>2, <1>5, <1>6 DEF KeyboardInv
<1>8. /\ Drained \in Reads(layout)
      /\ Drained.kb.held \subseteq down \cup Holds(kept0, entries)
      /\ Holds(kept0, entries) \in SUBSET Nat
  BY <1>1, <1>2, <1>3, <1>4, <1>7, AllAreEntries, DrainHolds
<1>9. /\ kb' = Drained.kb /\ seen' = Drained.seen /\ kept' = Holds(kept0, entries)
      /\ pendingInput' = <<>> /\ servedLayout' = servedLayout /\ fingers' = fingers /\ pushing' = pushing
  BY <1>4, <1>5 DEF DrainInput, layoutVars
<1>10. kb' \in SettledFor(layout)
  BY <1>8, <1>9 DEF Reads
<1>11. pushing \in Seq(AllEntries) /\ pendingInput' \in Seq(AllEntries)
  BY <1>9 DEF KeyboardInv
<1>12. KeyboardInv'
  BY <1>1, <1>6, <1>8, <1>9, <1>10, <1>11 DEF KeyboardInv
<1>13. ASSUME Effective(kb) = {}, KeymapFor(published) = servedLayout,
              \A i \in DOMAIN pendingInput : /\ pendingInput[i].kind = "text"
                                             /\ Expands(servedLayout, pendingInput[i])
       PROVE  seen' = Chained([i \in DOMAIN pendingInput |-> pendingInput[i].text])
  <2>1. k = Settled(k.held, k.locked, layout)
    BY DEF SettledFor, IsSettled
  <2>2. k.depressed = BitsOf(layout, k.held)
    BY <2>1 DEF Settled
  <2>3. k.depressed = {} /\ k.locked = {}
    BY <1>2, <1>13 DEF Effective
  <2>4. Clean(k, {}, layout)
    BY <2>2, <2>3, CleanStart
  <2>5. \A i \in 1..Len(entries) : entries[i].kind = "text" /\ Expands(layout, entries[i])
    BY <1>1, <1>4, <1>13
  <2>6. KeymapFor(published) = layout
    BY <1>1, <1>13
  <2>7. Drained.seen = Chained([i \in DOMAIN entries |-> entries[i].text])
    BY <1>1, <1>2, <1>4, <2>4, <2>5, <2>6, AllAreEntries, DrainReads
  <2> QED BY <1>4, <1>9, <2>7
<1> QED BY <1>12, <1>13

\* A keymap is applied, or none.
LEMMA KeymapHolds ==
    ASSUME KeyboardInv, NEW name, ApplyKeymap(name),
           UNCHANGED <<fingers, kept, pushing, pendingInput>>
    PROVE  KeyboardInv'
<1>1. CASE name # NoKeymap /\ name \in LAYOUTS
  <2>1. PICK old \in LAYOUTS : old = servedLayout
    BY DEF KeyboardInv
  <2>2. PICK k \in SettledFor(old) : k = kb /\ k.held \subseteq fingers \cup kept
    BY <2>1 DEF KeyboardInv
  <2>3. PICK h \in SUBSET Nat : h = k.held
    BY DEF SettledFor, IsSettled
  <2>4. PICK locked : locked = k.locked
    OBVIOUS
  <2>5. kb = Settled(h, locked, old)
    BY <2>2, <2>3, <2>4 DEF SettledFor, IsSettled
  <2>6. PICK l \in SUBSET Locks : Recompiled(name) = Settled(h, l, name)
    BY <2>5, RecompiledSettles
  <2>7. servedLayout' = name /\ kb' = Settled(h, l, name)
    BY <1>1, <2>6 DEF ApplyKeymap
  <2>8. kb' \in SettledFor(name) /\ kb'.held = h
    BY <2>7, SettledIn
  <2> QED BY <1>1, <2>2, <2>3, <2>7, <2>8 DEF KeyboardInv
<1>2. CASE ~(name # NoKeymap /\ name \in LAYOUTS)
  <2>1. UNCHANGED <<servedLayout, kb>>
    BY <1>2 DEF ApplyKeymap
  <2> QED BY <2>1 DEF KeyboardInv
<1> QED BY <1>1, <1>2

\* What every step keeps, and what a drain gives the client to read.
Arriving ==
    (/\ pendingInput # <<>> /\ pendingInput' = <<>>
     /\ Effective(kb) = {} /\ KeymapFor(published) = servedLayout
     /\ \A i \in DOMAIN pendingInput : /\ pendingInput[i].kind = "text"
                                       /\ Expands(servedLayout, pendingInput[i]))
    => seen' = Chained([i \in DOMAIN pendingInput |-> pendingInput[i].text])

\* Every step keeps the invariant, and a text that is drained arrives.
LEMMA KeyboardStep ==
    ASSUME KeyboardInv, [KeyboardNext]_kbVars
    PROVE  KeyboardInv' /\ Arriving
<1>1. CASE UNCHANGED kbVars
  BY <1>1 DEF kbVars, KeyboardInv, Arriving
<1>2. ASSUME NEW code \in FingerKeys, OperatorPresses(code) PROVE KeyboardInv' /\ Arriving
  <2>1. pendingInput' = pendingInput
    BY <1>2 DEF OperatorPresses, socketVars
  <2> QED BY <1>2, <2>1, PressHolds DEF Arriving
<1>3. ASSUME NEW code \in FingerKeys, OperatorReleases(code) PROVE KeyboardInv' /\ Arriving
  <2>1. pendingInput' = pendingInput
    BY <1>3 DEF OperatorReleases, socketVars
  <2> QED BY <1>3, <2>1, ReleaseHolds DEF Arriving
<1>4. CASE ReleaseAllKeys
  <2>1. pendingInput' = pendingInput
    BY <1>4 DEF ReleaseAllKeys
  <2> QED BY <1>4, <2>1, ReleaseAllHolds DEF Arriving
<1>5. ASSUME NEW request \in Requests, Asks(request) PROVE KeyboardInv' /\ Arriving
  <2>1. pendingInput' = pendingInput
    BY <1>5 DEF Asks
  <2> QED BY <1>5, <2>1, AskHolds DEF Arriving
<1>6. CASE QueueInput
  <2>1. pendingInput' # <<>>
    <3>1. pushing \in Seq(AllEntries) /\ pendingInput \in Seq(AllEntries) /\ pushing # <<>>
      BY <1>6 DEF KeyboardInv, QueueInput
    <3>2. Head(pushing) \in AllEntries
      BY <3>1
    <3>3. \A queue \in Seq(AllEntries), entry \in AllEntries : Append(queue, entry) # <<>>
      BY AppendProperties
    <3>4. Append(pendingInput, Head(pushing)) # <<>>
      BY <3>1, <3>2, <3>3, Zenon
    <3> QED BY <1>6, <3>4 DEF QueueInput
  <2> QED BY <1>6, <2>1, QueueHolds DEF Arriving
<1>7. CASE DrainInput
  BY <1>7, DrainIsSound DEF Arriving
<1>8. ASSUME NEW config \in KeymapConfigs, AdoptKeymap(config) PROVE KeyboardInv' /\ Arriving
  <2>1. PICK name : ApplyKeymap(name)
    BY <1>8 DEF AdoptKeymap
  <2>2. UNCHANGED <<fingers, kept, pushing, pendingInput>>
    BY <1>8 DEF AdoptKeymap, socketVars
  <2> QED BY <2>1, <2>2, KeymapHolds DEF Arriving
<1>9. CASE NextLayout
  <2>1. PICK name : ApplyKeymap(name)
    BY <1>9 DEF NextLayout
  <2>2. UNCHANGED <<fingers, kept, pushing, pendingInput>>
    BY <1>9 DEF NextLayout, socketVars
  <2> QED BY <2>1, <2>2, KeymapHolds DEF Arriving
<1> QED BY <1>1, <1>2, <1>3, <1>4, <1>5, <1>6, <1>7, <1>8, <1>9 DEF KeyboardNext

\* What a key means to the seat it means to its clients, no key the socket typed is left
\* down, and a text arrives as it was asked: for whatever is pressed, asked for and
\* configured, and however the queue and the keymap are changed between.
THEOREM TypingAlwaysArrives == KeyboardSpec => TypingArrives
<1>1. KeyboardInit => KeyboardInv
  BY InitHolds
<1>2. KeyboardInv /\ [KeyboardNext]_kbVars => KeyboardInv'
  BY KeyboardStep
<1>3. KeyboardInv => KeyboardsAgree
  BY InvAgrees
<1>4. KeyboardInv /\ [KeyboardNext]_kbVars
        => [ (/\ pendingInput # <<>> /\ pendingInput' = <<>>
              /\ Effective(kb) = {} /\ KeymapFor(published) = servedLayout
              /\ \A i \in DOMAIN pendingInput : /\ pendingInput[i].kind = "text"
                                                /\ Expands(servedLayout, pendingInput[i]))
             => seen' = Chained([i \in DOMAIN pendingInput |-> pendingInput[i].text]) ]_kbVars
  BY KeyboardStep DEF Arriving
<1> QED BY <1>1, <1>2, <1>3, <1>4, PTL DEF KeyboardSpec, TypingArrives, TextArrives
=============================================================================
