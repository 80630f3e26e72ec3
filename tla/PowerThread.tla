----------------------------- MODULE PowerThread -----------------------------
(***************************************************************************)
(* The power thread: one queue of commands, run one after the other, that  *)
(* sets the brightness, runs wpctl (each call for seconds, if it hangs),   *)
(* holds logind's sleep inhibitor and tells logind whether the seat is     *)
(* locked or idle.  The seat sends and does not wait.                      *)
(***************************************************************************)
EXTENDS Integers, Sequences

CONSTANTS
    MaxLevel,       \* the panel's max_brightness, 0 where there is no panel
    Steps,          \* the steps of the brightness keys, in percent
    MaxCommands,    \* bound on the commands that wait
    MaxSleeps       \* bound on the sleeps

ASSUME PowerAssumption ==
    /\ MaxLevel \in Nat /\ MaxCommands \in Nat \ {0} /\ MaxSleeps \in Nat
    /\ Steps \subseteq -128..127

VARIABLES
    commands,       \* the channel
    tool,           \* wpctl: none, setting or getting
    level,          \* the panel's brightness
    inhibitor,      \* the thread holds logind's inhibitor
    hint,           \* LockedHint, as logind knows it
    machine,        \* awake, going to sleep, asleep
    sleeps,
    meant,          \* history: [inhibitor, hint], what the seat last asked for
    refused         \* history: logind refused, and nothing was asked again since

powerVars == <<commands, tool, level, inhibitor, hint, machine, sleeps, meant, refused>>

Percent(n, pct) == (n * pct) \div 100
AtLeast(n, floor) == IF n < floor THEN floor ELSE n
AtMost(n, top) == IF n > top THEN top ELSE n

StepSize(step) == AtLeast(Percent(MaxLevel, IF step < 0 THEN -step ELSE step), 1)

\* A mutant: the panel may be stepped down to nothing.
NoFloor == 0

Floor == AtLeast(MaxLevel \div 100, 1)

\* A mutant: a step up from the top goes past it.
SteppedPast(step) ==
    LET next == IF step >= 0 THEN level + StepSize(step) ELSE AtLeast(level - StepSize(step), 0)
    IN  AtLeast(next, Floor)

\* stepped: a step moves at least by one, and never to the dark.
Stepped(step) ==
    LET next == IF step >= 0 THEN level + StepSize(step) ELSE AtLeast(level - StepSize(step), 0)
    IN  AtMost(AtLeast(next, Floor), MaxLevel)

-----------------------------------------------------------------------------
(* The seat.                                                               *)

\* A mutant: the inhibitor is urgent and passes the keys.
SendUrgent(c) == commands' = IF c.do = "take" THEN <<c>> \o commands ELSE Append(commands, c)

Send(c) == commands' = Append(commands, c)
Room == Len(commands) < MaxCommands

PowerKey ==
    /\ machine # "asleep" /\ Room
    /\ \E c \in {[do |-> "volume"]} \cup [do : {"backlight"}, step : Steps] : Send(c)
    /\ UNCHANGED <<tool, level, inhibitor, hint, machine, sleeps, meant, refused>>

\* lock_session and the unlock.
LockedChanges ==
    /\ machine # "asleep" /\ Room
    /\ Send([do |-> "locked", is |-> ~meant.hint])
    /\ meant' = [meant EXCEPT !.hint = ~@]
    /\ UNCHANGED <<tool, level, inhibitor, hint, machine, sleeps, refused>>

\* PrepareForSleep(TRUE): the lock stands or its deadline passed.
SleepPrepared ==
    /\ machine = "awake" /\ sleeps < MaxSleeps
    /\ machine' = "going" /\ sleeps' = sleeps + 1
    /\ Send([do |-> "release"])
    /\ meant' = [meant EXCEPT !.inhibitor = FALSE]
    /\ UNCHANGED <<tool, level, inhibitor, hint, refused>>

\* logind sleeps when nobody delays it, or when its own patience ends; the
\* thread stands still meanwhile.
FallAsleep ==
    /\ machine = "going" /\ machine' = "asleep"
    /\ UNCHANGED <<commands, tool, level, inhibitor, hint, sleeps, meant, refused>>

\* sleep_ended.
WakeUp ==
    /\ machine = "asleep" /\ machine' = "awake"
    /\ Send([do |-> "take"])
    /\ meant' = [meant EXCEPT !.inhibitor = TRUE]
    /\ UNCHANGED <<tool, level, inhibitor, hint, sleeps, refused>>

-----------------------------------------------------------------------------
(* The thread.                                                             *)

Takes(what) ==
    /\ machine # "asleep" /\ tool = "none"
    /\ commands # <<>> /\ Head(commands).do = what
    /\ commands' = Tail(commands)

\* backlight: no panel, or logind refuses.
Backlight ==
    /\ Takes("backlight")
    /\ level' \in {level} \cup (IF MaxLevel = 0 THEN {} ELSE {Stepped(Head(commands).step)})
    /\ UNCHANGED <<tool, inhibitor, hint, machine, sleeps, meant, refused>>

\* sound: the tool is run, then asked; either may fail or hang for its limit.
SoundBegins ==
    /\ Takes("volume") /\ tool' = "setting"
    /\ UNCHANGED <<level, inhibitor, hint, machine, sleeps, meant, refused>>

ToolReturns ==
    /\ machine # "asleep" /\ tool # "none"
    /\ tool' \in IF tool = "setting" THEN {"getting", "none"} ELSE {"none"}
    /\ UNCHANGED <<commands, level, inhibitor, hint, machine, sleeps, meant, refused>>

TakeInhibitor ==
    /\ Takes("take")
    /\ IF inhibitor THEN UNCHANGED <<inhibitor, refused>>
       ELSE \/ inhibitor' = TRUE /\ refused' = [refused EXCEPT !.inhibitor = FALSE]
            \/ refused' = [refused EXCEPT !.inhibitor = TRUE] /\ inhibitor' = inhibitor
    /\ UNCHANGED <<tool, level, hint, machine, sleeps, meant>>

ReleaseInhibitor ==
    /\ Takes("release") /\ inhibitor' = FALSE
    /\ refused' = [refused EXCEPT !.inhibitor = FALSE]
    /\ UNCHANGED <<tool, level, hint, machine, sleeps, meant>>

TellLocked ==
    /\ Takes("locked")
    /\ \/ hint' = Head(commands).is /\ refused' = [refused EXCEPT !.hint = FALSE]
       \/ refused' = [refused EXCEPT !.hint = TRUE] /\ hint' = hint
    /\ UNCHANGED <<tool, level, inhibitor, machine, sleeps, meant>>

PowerLoop ==
    \/ Backlight \/ SoundBegins \/ ToolReturns
    \/ TakeInhibitor \/ ReleaseInhibitor \/ TellLocked

PowerInit ==
    /\ level \in 0..MaxLevel
    /\ commands = <<[do |-> "take"]>> /\ tool = "none" /\ inhibitor = FALSE /\ hint = FALSE
    /\ machine = "awake" /\ sleeps = 0
    /\ meant = [inhibitor |-> TRUE, hint |-> FALSE]
    /\ refused = [inhibitor |-> FALSE, hint |-> FALSE]

PowerNext ==
    \/ PowerKey \/ LockedChanges \/ SleepPrepared \/ FallAsleep \/ WakeUp
    \/ PowerLoop

PowerTypeOK ==
    /\ commands \in Seq([do : {"volume", "take", "release"}]
                          \cup [do : {"backlight"}, step : Steps] \cup [do : {"locked"}, is : BOOLEAN])
    /\ Len(commands) <= MaxCommands + 1 + 2 * MaxSleeps
    /\ tool \in {"none", "setting", "getting"} /\ level \in 0..MaxLevel
    /\ {inhibitor, hint} \subseteq BOOLEAN /\ machine \in {"awake", "going", "asleep"}
    /\ meant \in [inhibitor : BOOLEAN, hint : BOOLEAN]
    /\ refused \in [inhibitor : BOOLEAN, hint : BOOLEAN] /\ sleeps \in 0..MaxSleeps

\* When the queue is empty logind holds what the seat last asked for, unless
\* logind refused it: a release that waited behind a tool that hangs, until
\* after the machine slept and woke, does not undo the take that followed it.
PowerSettles ==
    commands = <<>> =>
        /\ inhibitor = meant.inhibitor \/ refused.inhibitor
        /\ hint = meant.hint \/ refused.hint

\* No key makes the panel dark, and a key that was obeyed did something unless
\* the panel was at that end already.
KeysKeepLight ==
    [][Backlight => \/ level' = level
                    \/ /\ level' \in (MaxLevel \div 100)..MaxLevel /\ level' > 0
                       /\ level' < level => Head(commands).step < 0]_powerVars

PowerSpec == PowerInit /\ [][PowerNext]_powerVars
=============================================================================
