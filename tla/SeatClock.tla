----------------------------- MODULE SeatClock -----------------------------
(***************************************************************************)
(* The two clocks of the seat's one-second tick: the idle clock, which     *)
(* locks and blanks a seat nobody uses, and the supervisor that starts     *)
(* lock clients until one of them holds a locked session.  A third clock,  *)
(* the frame loop's, lights the panel behind their back when the display   *)
(* returns from another VT.                                                *)
(*                                                                         *)
(* Instants are ages: idleFor is now - last_input, respawnIn is            *)
(* respawn_at - now.  Seconds pass one at a time, and the tick runs in     *)
(* each of them.                                                           *)
(***************************************************************************)
EXTENDS Integers, FiniteSets

CONSTANTS
    Policies,       \* what the world may say: [blank, lock, client]
    Never,          \* the value of a policy that is not set
    Surface,        \* the surfaces that may inhibit idleness
    RespawnFirst, RespawnLast,
    MaxIdle,        \* bound: ages are not told apart beyond it
    MaxAsking       \* bound on the lock clients that are starting at once

ASSUME SeatClockAssumption ==
    /\ RespawnFirst \in Nat \ {0} /\ RespawnLast \in Nat /\ RespawnFirst <= RespawnLast
    /\ MaxIdle \in Nat /\ MaxAsking \in Nat \ {0}
    /\ Policies \subseteq [blank: Nat \cup {Never}, lock: Nat \cup {Never}, client: BOOLEAN]
    /\ IsFiniteSet(Surface)

VARIABLES
    policy,         \* idle.policy, and whether lock.client is configured
    idleFor,        \* now - last_input
    blanked,        \* the steps that were handed out since
    lockStep,
    inhibiting,     \* Omoya.inhibiting
    inhibitors,     \* Idle.inhibitors
    quiet,          \* history: seconds without input, unlock, resume or inhibitor
    panel, panelWake,
    seatAt,         \* home, away or returning
    resting,        \* the bar modules were sent Pause and logind IdleHint(true),
                    \* and neither Resume nor IdleHint(false) since
    sealed, served, \* the session is locked, and by a client
    asking,         \* lock clients that were started and did not ask yet
    respawnIn,      \* respawn_at - now, or NotArmed
    respawnWait,    \* 0 when there is none
    sinceTry,       \* history: seconds since the last start, or NotArmed after an arming
    lastGap,        \* history: the seconds between the last two starts
    tickDue         \* the second has begun and the tick has not run

clockVars == <<policy, idleFor, blanked, lockStep, inhibiting, inhibitors, quiet>>
shownVars == <<panel, panelWake, resting>>
superVars == <<respawnIn, respawnWait, sinceTry, lastGap>>
seatClockVars == <<clockVars, shownVars, superVars, seatAt, sealed, served, asking, tickDue>>

NotArmed == -1
Least(a, b) == IF a < b THEN a ELSE b

-----------------------------------------------------------------------------
(* The idle clock.                                                         *)

Touched ==
    /\ idleFor' = 0 /\ blanked' = FALSE /\ lockStep' = FALSE /\ quiet' = 0
    /\ UNCHANGED <<policy, inhibiting, inhibitors>>

\* note_input: a panel that is not On is told to wake, and so are its followers.
NoteInput ==
    /\ Touched
    /\ panelWake' = (panelWake \/ panel # "on")
    /\ resting' = (resting /\ panel = "on")
    /\ UNCHANGED panel

\* Events reach a seat whose devices are not paused.
Input ==
    /\ seatAt # "away"
    /\ NoteInput
    /\ UNCHANGED <<superVars, seatAt, sealed, served, asking, tickDue>>

Inhibit(s) ==
    /\ s \notin inhibiting
    /\ inhibiting' = inhibiting \cup {s}
    /\ inhibitors' = inhibitors + 1
    /\ quiet' = 0
    /\ UNCHANGED <<policy, idleFor, blanked, lockStep, shownVars, superVars, seatAt, sealed,
                   served, asking, tickDue>>

\* Mutant: uninhibit that releases without looking whether the surface was listed.
UninhibitUnlisted(s) ==
    /\ inhibiting' = inhibiting \ {s}
    /\ inhibitors' = IF inhibitors > 0 THEN inhibitors - 1 ELSE inhibitors
    /\ idleFor' = IF inhibitors' = 0 THEN 0 ELSE idleFor
    /\ quiet' = IF inhibiting # {} THEN 0 ELSE quiet
    /\ UNCHANGED <<policy, blanked, lockStep, shownVars, superVars, seatAt, sealed, served,
                   asking, tickDue>>

\* Mutant: the count is taken down for a surface that was never counted.
UninhibitBelowNone(s) ==
    /\ inhibiting' = inhibiting \ {s}
    /\ inhibitors' = inhibitors - 1
    /\ idleFor' = IF inhibitors' = 0 THEN 0 ELSE idleFor
    /\ quiet' = IF inhibiting # {} THEN 0 ELSE quiet
    /\ UNCHANGED <<policy, blanked, lockStep, shownVars, superVars, seatAt, sealed, served,
                   asking, tickDue>>

\* The surface may inhibit nothing: its inhibitor object dies after the surface.
Uninhibit(s) ==
    /\ inhibiting' = inhibiting \ {s}
    /\ inhibitors' = IF s \in inhibiting /\ inhibitors > 0 THEN inhibitors - 1 ELSE inhibitors
    /\ idleFor' = IF s \in inhibiting /\ inhibitors' = 0 THEN 0 ELSE idleFor
    /\ quiet' = IF inhibiting # {} THEN 0 ELSE quiet
    /\ UNCHANGED <<policy, blanked, lockStep, shownVars, superVars, seatAt, sealed, served,
                   asking, tickDue>>

AdoptPolicy(p) ==
    /\ policy' = p
    /\ UNCHANGED <<idleFor, blanked, lockStep, inhibiting, inhibitors, quiet, shownVars,
                   superVars, seatAt, sealed, served, asking, tickDue>>

Past(after) == after # Never /\ idleFor >= after
LockDue == inhibitors = 0 /\ ~lockStep /\ Past(policy.lock)
BlankDue == inhibitors = 0 /\ ~blanked /\ Past(policy.blank)

BlankPanel ==
    IF panel = "on"
    THEN panel' = "darkening" /\ resting' = TRUE /\ UNCHANGED panelWake
    ELSE UNCHANGED shownVars

-----------------------------------------------------------------------------
(* The supervisor.  needs_a_client: locked, and nobody holds the lock.     *)

\* Mutant: a client is started only when some path armed the supervisor.
DueWhenArmed(locked, held, at) == locked /\ ~held /\ at = 0

RespawnDue(locked, held, at) == locked /\ ~held /\ at \in {NotArmed, 0}

\* Mutant: the pause never grows.
FlatWait(wait) == RespawnFirst

\* The pause after a start: the first one, then the double of the last.
NextWait(wait) == IF wait = 0 THEN RespawnFirst ELSE Least(2 * wait, RespawnLast)

\* respawn_due and the start it asks for; `at` and `wait` are the armed ones.
Supervise(locked, held, at, wait, since) ==
    CASE ~locked \/ held ->
            /\ respawnIn' = NotArmed /\ respawnWait' = 0 /\ sinceTry' = NotArmed
            /\ UNCHANGED <<lastGap, asking>>
      [] RespawnDue(locked, held, at) ->
            /\ respawnIn' = NextWait(wait) /\ respawnWait' = NextWait(wait)
            /\ lastGap' = since /\ sinceTry' = 0
            /\ asking' = IF policy.client THEN Least(asking + 1, MaxAsking) ELSE asking
      [] OTHER ->
            /\ respawnIn' = at /\ respawnWait' = wait /\ sinceTry' = since
            /\ UNCHANGED <<lastGap, asking>>

\* arm_respawn.
Armed == respawnIn' = 0 /\ respawnWait' = 0 /\ sinceTry' = NotArmed /\ UNCHANGED lastGap

\* lock_session: a seat that is not sealed is sealed and a client is started;
\* one whose seal a client holds keeps it, and nothing is started.
LockSession ==
    IF policy.client /\ ~sealed
    THEN sealed' = TRUE /\ served' = FALSE /\ Supervise(TRUE, FALSE, 0, 0, NotArmed)
    ELSE UNCHANGED <<sealed, served, superVars, asking>>

LockAsked ==
    /\ LockSession
    /\ UNCHANGED <<clockVars, shownVars, seatAt, tickDue>>

ClientAsks ==
    /\ asking > 0
    /\ asking' = asking - 1
    /\ sealed' = TRUE /\ served' = TRUE
    /\ UNCHANGED <<clockVars, shownVars, superVars, seatAt, tickDue>>

ClientFails ==
    /\ asking > 0
    /\ asking' = asking - 1
    /\ UNCHANGED <<clockVars, shownVars, superVars, seatAt, sealed, served, tickDue>>

\* The holder's object is destroyed; by its own `destroy` the machine has
\* forgotten it before, and nothing is armed.
HolderGone(byDestroy) ==
    /\ sealed /\ served
    /\ served' = FALSE
    /\ IF byDestroy THEN UNCHANGED superVars ELSE Armed
    /\ UNCHANGED <<clockVars, shownVars, seatAt, sealed, asking, tickDue>>

SessionOpened ==
    /\ sealed /\ served
    /\ sealed' = FALSE /\ served' = FALSE
    /\ Touched /\ Armed
    /\ UNCHANGED <<shownVars, seatAt, asking, tickDue>>

-----------------------------------------------------------------------------
(* The tick of the seat, and the frame loop's part.                        *)

\* One timer, every second: the idle steps, then the supervisor.
SeatTick ==
    /\ tickDue
    /\ tickDue' = FALSE
    /\ lockStep' = (lockStep \/ LockDue)
    /\ blanked' = (blanked \/ BlankDue)
    /\ IF BlankDue THEN BlankPanel ELSE UNCHANGED shownVars
    /\ IF LockDue /\ policy.client /\ ~sealed
       THEN LockSession
       ELSE /\ UNCHANGED <<sealed, served>>
            /\ Supervise(sealed, served, respawnIn, respawnWait, sinceTry)
    /\ UNCHANGED <<policy, idleFor, inhibiting, inhibitors, quiet, seatAt>>

Second ==
    /\ ~tickDue
    /\ tickDue' = TRUE
    /\ idleFor' = Least(idleFor + 1, MaxIdle)
    /\ quiet' = IF inhibiting = {} THEN Least(quiet + 1, MaxIdle) ELSE 0
    /\ respawnIn' = IF respawnIn > 0 THEN respawnIn - 1 ELSE respawnIn
    /\ sinceTry' = IF sinceTry = NotArmed THEN NotArmed ELSE Least(sinceTry + 1, RespawnLast)
    /\ UNCHANGED <<policy, blanked, lockStep, inhibiting, inhibitors, shownVars, respawnWait,
                   lastGap, seatAt, sealed, served, asking>>

Leave ==
    /\ seatAt' = "away"
    /\ UNCHANGED <<clockVars, shownVars, superVars, sealed, served, asking, tickDue>>

ComeBack ==
    /\ seatAt = "away"
    /\ seatAt' = "returning"
    /\ UNCHANGED <<clockVars, shownVars, superVars, sealed, served, asking, tickDue>>

\* sleep_ended: input, then away and back at once, then note_input.
SleepEnded ==
    /\ seatAt' = "returning"
    /\ NoteInput
    /\ UNCHANGED <<superVars, sealed, served, asking, tickDue>>

\* The frame loop settles a return (and then lights the panel itself), turns
\* a black panel off, and turns it on for a waking input.
FrameTick ==
    /\ seatAt # "away"
    /\ seatAt' = "home"
    /\ panel' = CASE seatAt = "returning" \/ panelWake -> "on"
                  [] panel = "darkening" -> "dark"
                  [] OTHER -> panel
    /\ panelWake' = FALSE
    /\ UNCHANGED <<clockVars, resting, superVars, sealed, served, asking, tickDue>>

SeatClockInit ==
    /\ policy \in Policies
    /\ idleFor = 0 /\ quiet = 0 /\ blanked = FALSE /\ lockStep = FALSE
    /\ inhibiting = {} /\ inhibitors = 0
    /\ panel = "on" /\ panelWake = FALSE /\ seatAt = "home"
    /\ resting = FALSE
    /\ sealed = FALSE /\ served = FALSE /\ asking = 0
    /\ respawnIn = NotArmed /\ respawnWait = 0 /\ sinceTry = NotArmed /\ lastGap = 0
    /\ tickDue = FALSE

SeatClockNext ==
    \/ Input
    \/ \E s \in Surface: Inhibit(s) \/ Uninhibit(s)
    \/ \E p \in Policies: AdoptPolicy(p)
    \/ LockAsked \/ ClientAsks \/ ClientFails \/ SessionOpened
    \/ \E byDestroy \in BOOLEAN: HolderGone(byDestroy)
    \/ SeatTick \/ Second
    \/ Leave \/ ComeBack \/ SleepEnded \/ FrameTick

\* The timer fires, and a client that is started over and over asks some day.
SeatClockFairness ==
    /\ WF_seatClockVars(SeatTick) /\ WF_seatClockVars(Second)
    /\ SF_seatClockVars(ClientAsks)

SeatClockSpec == SeatClockInit /\ [][SeatClockNext]_seatClockVars /\ SeatClockFairness

-----------------------------------------------------------------------------
(* Properties.                                                             *)

SeatClockTypeOK ==
    /\ policy \in Policies
    /\ idleFor \in 0..MaxIdle /\ quiet \in 0..MaxIdle
    /\ {blanked, lockStep, panelWake, resting, sealed, served, tickDue} \subseteq BOOLEAN
    /\ inhibiting \subseteq Surface /\ inhibitors \in Nat
    /\ panel \in {"on", "darkening", "dark"} /\ seatAt \in {"home", "away", "returning"}
    /\ asking \in 0..MaxAsking
    /\ respawnIn \in NotArmed..RespawnLast /\ respawnWait \in 0..RespawnLast
    /\ sinceTry \in NotArmed..RespawnLast /\ lastGap \in NotArmed..RespawnLast

\* An idle step is handed out only to a seat that was left alone for the whole
\* period, nothing inhibiting it in any second of it.
IdleStepsAfterQuiet ==
    [][/\ ~lockStep /\ lockStep' => quiet >= policy.lock
       /\ ~blanked /\ blanked' => quiet >= policy.blank]_seatClockVars

\* Between two starts of a lock client that nothing re-armed the pause doubles,
\* up to the ceiling (respawn_due); it is never shorter than the first one.
StartsAreSpaced ==
    [][respawnIn <= 0 /\ respawnIn' > 0 /\ sinceTry # NotArmed =>
         /\ sinceTry >= RespawnFirst
         /\ sinceTry >= Least(2 * lastGap, RespawnLast)]_seatClockVars

\* A locked session that nobody holds gets a holder, if a client is configured:
\* there is no other way back in.
VacantIsServed == (sealed /\ ~served) ~> (served \/ ~sealed \/ ~policy.client)

\* The clock is the last input and the policy is two numbers: after the tick a
\* seat that was left alone for blank_s and is here does not show a lit panel.
BlankedWhenQuiet ==
    [][tickDue /\ ~tickDue' /\ seatAt = "home" /\ inhibiting = {} /\ Past(policy.blank)
         => panel' # "on" \/ panelWake']_seatClockVars

\* The clock neither steps nor starts a client before its time: an idle step
\* comes after a whole period that was quiet, and the pauses between two starts
\* double up to the ceiling.
NothingBeforeItsTime == IdleStepsAfterQuiet /\ StartsAreSpaced
=============================================================================
