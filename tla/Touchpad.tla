------------------------------ MODULE Touchpad ------------------------------
(***************************************************************************)
(* The touchpad machine: contacts in the slots of a multi-touch pad, the   *)
(* frames that settle them and make motion, scrolling, clicks and taps of  *)
(* them, and the reset a revoked or unplugged device gets.                 *)
(*                                                                         *)
(* A position is one of a few spots, in millimetres; time is a number of   *)
(* ticks, and ages are not told apart once the tap time is over.           *)
(***************************************************************************)
EXTENDS Integers, Sequences, FiniteSets, FiniteSetsExt

CONSTANTS
    Slot,           \* the slots of the pad
    Spot,           \* positions <<x, y>>
    TapTravel,      \* tap_max_travel_mm, which is the slop of a scroll too
    MaxJump,        \* MAX_JUMP_MM
    RestZone,       \* the y of right_click_height_pct
    RightEdge,      \* the x of right_click_width_pct
    TapLimit,       \* tap_max_ms
    Pads,           \* the kinds of pad: TRUE for a clickpad
    PalmSlot,       \* bound: the slots whose contact may turn into a palm
    MaxRaw          \* bound: raw events between two reports

ASSUME TouchpadAssumption ==
    /\ IsFiniteSet(Slot) /\ PalmSlot \subseteq Slot /\ Spot \subseteq Int \X Int /\ Spot # {}
    /\ {TapTravel, MaxJump, TapLimit, MaxRaw} \subseteq Nat
    /\ {RestZone, RightEdge} \subseteq Int /\ Pads \subseteq BOOLEAN

VARIABLES
    clickpad,
    palm,           \* the slots whose tool is MT_TOOL_PALM
    contact,        \* the slots' contacts, with the position of the slot
    leftEdge,       \* left_edge: none, press or release
    touchEnded,
    others,         \* presses and releases of the pad's own buttons, in this frame
    pressedButton,           \* the button the clickpad was pressed as, or none
    flow,           \* Free, Tail or the axes of a scroll
    twoFinger,      \* two_finger_mm, twice
    tap,            \* the tap under way, or NoTap
    previous,       \* previous_fingers
    raw,            \* raw events since the report, for the bound
    finger,         \* the truth: a button of the pad is physically down
    buttons,        \* what the pad told the seat is down
    doubled,        \* history: a button was pressed that was down, or released that was not
    scrolled,       \* history: the axes that scrolled since the last stop
    busy,           \* history: since fingers landed, something scrolled or was pressed
    clicked         \* the last frame made a click of a tap

rawVars == <<palm, contact, leftEdge, touchEnded, others>>
machineVars == <<pressedButton, flow, twoFinger, tap, previous>>
toldVars == <<buttons, doubled, scrolled, busy, clicked>>
touchpadVars == <<clickpad, rawVars, machineVars, raw, finger, toldVars>>

Axis == {"x", "y"}
NoContact == [here |-> FALSE]
NoTap == [age |-> -1, peak |-> 0, spoiled |-> FALSE]
SpoiledTap == [age |-> 0, peak |-> 0, spoiled |-> TRUE]
Free == [kind |-> "free", axes |-> {}]
Trailing == [kind |-> "tail", axes |-> {}]
Scrolling(axes) == [kind |-> "scrolling", axes |-> axes]

Minus(a, b) == <<a[1] - b[1], a[2] - b[2]>>
Plus(a, b) == <<a[1] + b[1], a[2] + b[2]>>
Within(v, n) == v[1] * v[1] + v[2] * v[2] <= n * n
Older(age) == IF age > TapLimit THEN age ELSE age + 1

-----------------------------------------------------------------------------
(* Raw events: key and abs.                                                *)

RawEvent == raw < MaxRaw /\ raw' = raw + 1

\* BTN_LEFT of a clickpad is an edge, of any other pad a button of its own.
\* A repeat is not an edge.
Press ==
    /\ RawEvent /\ finger' = ~finger
    /\ IF clickpad
       THEN leftEdge' = (IF finger THEN "release" ELSE "press") /\ others' = others
       ELSE others' = Append(others, ~finger) /\ leftEdge' = leftEdge
    /\ UNCHANGED <<clickpad, palm, contact, touchEnded, machineVars, toldVars>>

TouchOff ==
    /\ RawEvent /\ touchEnded' = TRUE
    /\ UNCHANGED <<clickpad, palm, contact, leftEdge, others, machineVars, finger, toldVars>>

\* A tracking id that is new makes a fresh contact, wherever the slot is.
Land(s) ==
    /\ RawEvent
    /\ \E p \in Spot :
          contact' = [contact EXCEPT ![s] = [here |-> TRUE, settled |-> FALSE, pos |-> p, last |-> p,
                            start |-> p, far |-> FALSE, age |-> 0, rest |-> "never", excluded |-> FALSE]]
    /\ UNCHANGED <<clickpad, palm, leftEdge, touchEnded, others, machineVars, finger, toldVars>>

Lift(s) ==
    /\ RawEvent /\ contact[s].here
    /\ contact' = [contact EXCEPT ![s] = NoContact]
    /\ UNCHANGED <<clickpad, palm, leftEdge, touchEnded, others, machineVars, finger, toldVars>>

Move(s) ==
    /\ RawEvent /\ contact[s].here
    /\ \E p \in Spot : contact' = [contact EXCEPT ![s].pos = p]
    /\ UNCHANGED <<clickpad, palm, leftEdge, touchEnded, others, machineVars, finger, toldVars>>

ToolChange(s) ==
    /\ RawEvent /\ s \in PalmSlot
    /\ palm' = IF s \in palm THEN palm \ {s} ELSE palm \cup {s}
    /\ UNCHANGED <<clickpad, contact, leftEdge, touchEnded, others, machineVars, finger, toldVars>>

-----------------------------------------------------------------------------
(* settle_contacts.                                                        *)

Settle(c, p) ==
    [c EXCEPT !.settled = TRUE, !.last = p, !.start = p, !.age = 0,
              !.rest = IF p[2] < RestZone THEN "never"
                       ELSE IF previous > 0 THEN "at once" ELSE "after tap time"]

\* A stride past the limit is a jump: no motion, but travel.  What cannot
\* matter any more is not kept: the start of a contact that went far, the age
\* of one that does not wait for it.
Advance(c, p, ticks) ==
    LET from == IF Within(Minus(p, c.last), MaxJump) THEN c.start ELSE c.last
        far == c.far \/ ~Within(Minus(p, from), TapTravel)
    IN  [c EXCEPT !.last = p, !.far = far, !.start = IF far THEN p ELSE @,
                  !.age = IF ticks = 0 \/ far \/ c.rest # "after tap time" THEN @ ELSE Older(@)]

Delta(c, p) ==
    IF c.settled /\ ~c.excluded /\ Within(Minus(p, c.last), MaxJump) THEN Minus(p, c.last) ELSE <<0, 0>>

Resting(c) == ~c.far /\ (c.rest = "at once" \/ (c.rest = "after tap time" /\ c.age > TapLimit))

\* BTN_TOUCH says nothing touches any more: contacts whose lift was lost end.
Swept == IF touchEnded THEN {s \in Slot : s \notin palm /\ contact[s].here} ELSE {}

Settled(ticks) ==
    [s \in Slot |->
        IF s \in Swept \/ ~contact[s].here THEN NoContact
        ELSE LET c == IF contact[s].settled THEN Advance(contact[s], contact[s].pos, ticks)
                      ELSE Settle(contact[s], contact[s].pos)
             IN  [c EXCEPT !.excluded = s \in palm \/ Resting(c)]]

Fingers(cs) == {s \in Slot : cs[s].here /\ ~cs[s].excluded}

-----------------------------------------------------------------------------
(* steer, buttons and tap_step.                                            *)

\* A direction that is less than half of the other is none.
Dominant(v) ==
    LET x == IF v[1] < 0 THEN -v[1] ELSE v[1]
        y == IF v[2] < 0 THEN -v[2] ELSE v[2]
    IN  (IF x * 2 >= y /\ x > 0 THEN {"x"} ELSE {}) \cup (IF y * 2 >= x /\ y > 0 THEN {"y"} ELSE {})

\* The scroll of a frame with two fingers and no button: past the slop.
Scroll(sum) ==
    LET moved == Plus(twoFinger, sum)
        begins == flow.kind = "scrolling" \/ ~Within(moved, 2 * TapTravel)
    IN  /\ twoFinger' = IF begins THEN <<0, 0>> ELSE moved
        /\ flow' = IF begins THEN Scrolling(flow.axes \cup Dominant(sum)) ELSE flow
        /\ scrolled' = IF begins THEN scrolled \cup Dominant(sum) ELSE scrolled

\* stop_scroll, and a pad nobody touches is free again.
StopScroll(fingers) ==
    /\ twoFinger' = <<0, 0>>
    /\ flow' = IF fingers = {} THEN Free ELSE IF flow.kind = "scrolling" THEN Trailing ELSE flow
    /\ scrolled' = scrolled \ flow.axes

\* A mutant: a scroll is no reason not to click.
ScrollKeepsTap(begins) == FALSE

ScrollSpoils(begins) == begins

\* A tap ends when the last finger is gone.  A click is a press and a release.
TapStep(cs, ticks, pressed) ==
    LET fingers == Fingers(cs)
        n == Cardinality(fingers)
        spoils == pressed \/ \E s \in fingers : cs[s].far
        age == IF ticks = 0 THEN tap.age ELSE Older(tap.age)
        now == [age |-> age, peak |-> IF n > tap.peak THEN n ELSE tap.peak,
                spoiled |-> \/ tap.spoiled \/ Swept # {} \/ spoils \/ age > TapLimit
                            \/ ScrollSpoils(flow'.kind = "scrolling")]
    IN  IF tap # NoTap
        THEN /\ tap' = IF n = 0 THEN NoTap ELSE IF now.spoiled THEN SpoiledTap ELSE now
             /\ clicked' = IF n = 0 /\ ~now.spoiled /\ now.peak \in 1..2
                           THEN (IF now.peak = 1 THEN "left" ELSE "right") ELSE "no"
        ELSE /\ tap' = IF previous = 0 /\ n > 0 /\ pressedButton' = "none"
                       THEN (IF spoils THEN SpoiledTap ELSE [age |-> 0, peak |-> n, spoiled |-> FALSE])
                       ELSE NoTap
             /\ clicked' = "no"

RightArea(cs) == \E s \in Slot : cs[s].here /\ s \notin palm /\ contact[s].pos[1] >= RightEdge /\ contact[s].pos[2] >= RestZone
ClickCode(cs) == IF Cardinality(Fingers(cs)) >= 2 \/ RightArea(cs) THEN "right" ELSE "left"

\* A mutant: a release is coded like a press.
ReleasedByCount(cs) == ClickCode(cs)

ReleasedCode(cs) == pressedButton

\* What is said of the buttons in a frame, in order: the clickpad's edge, the
\* pad's own, and the two halves of a click.
Edges(cs) ==
    (IF leftEdge = "press" /\ pressedButton = "none" THEN <<<<ClickCode(cs), TRUE>>>> ELSE <<>>)
    \o (IF leftEdge = "release" /\ pressedButton # "none" THEN <<<<ReleasedCode(cs), FALSE>>>> ELSE <<>>)
    \o [i \in DOMAIN others |-> <<"left", others[i]>>]
    \o (IF clicked' = "no" THEN <<>> ELSE <<<<clicked', TRUE>>, <<clicked', FALSE>>>>)

\* The seat's count of them.
Tell(says) ==
    LET downAfter[i \in 0..Len(says)] ==
            IF i = 0 THEN buttons
            ELSE IF says[i][2] THEN downAfter[i - 1] \cup {says[i][1]} ELSE downAfter[i - 1] \ {says[i][1]}
    IN  /\ buttons' = downAfter[Len(says)]
        /\ doubled' = (doubled \/ \E i \in DOMAIN says : says[i][2] = (says[i][1] \in downAfter[i - 1]))

Frame ==
    \E ticks \in 0..1 :
       LET cs == Settled(ticks)
           fingers == Fingers(cs)
           holding == pressedButton # "none" \/ leftEdge = "press"
           pressed == leftEdge = "press" \/ \E i \in DOMAIN others : others[i]
           sum == FoldSet(LAMBDA s, v : Plus(Delta(contact[s], contact[s].pos), v), <<0, 0>>, fingers)
       IN
       /\ contact' = cs
       /\ pressedButton' = IF leftEdge = "press" /\ pressedButton = "none" THEN ClickCode(cs)
                  ELSE IF leftEdge = "release" THEN "none" ELSE pressedButton
       /\ IF ~holding /\ Cardinality(fingers) = 2 THEN Scroll(sum) ELSE StopScroll(fingers)
       /\ TapStep(cs, ticks, pressed)
       /\ Tell(Edges(cs))
       /\ busy' = ((previous > 0 \/ fingers # {}) /\ clicked' = "no"
                     /\ ((busy /\ previous > 0) \/ pressed \/ flow'.kind = "scrolling"))
       /\ previous' = Cardinality(fingers)
       /\ leftEdge' = "none" /\ others' = <<>> /\ touchEnded' = FALSE /\ raw' = 0
       /\ UNCHANGED <<clickpad, palm, finger>>

\* A mutant: a reset forgets the scroll without a word.
ResetInSilence == scrolled

ResetStops == scrolled \ flow.axes

\* The device was revoked or unplugged: what is owed is said, the rest forgotten.
ResetPad ==
    /\ scrolled' = ResetStops
    /\ Tell(IF pressedButton = "none" THEN <<>> ELSE <<<<pressedButton, FALSE>>>>)
    /\ pressedButton' = "none" /\ flow' = Free /\ tap' = NoTap /\ twoFinger' = <<0, 0>> /\ previous' = 0
    /\ contact' = [s \in Slot |-> NoContact]
    /\ leftEdge' = "none" /\ touchEnded' = FALSE /\ others' = <<>>
    /\ busy' = FALSE /\ clicked' = "no" /\ raw' = 0
    /\ UNCHANGED <<clickpad, palm, finger>>

-----------------------------------------------------------------------------
TouchpadInit ==
    /\ clickpad \in Pads
    /\ palm = {}
    /\ contact = [s \in Slot |-> NoContact]
    /\ leftEdge = "none" /\ touchEnded = FALSE /\ others = <<>>
    /\ pressedButton = "none" /\ flow = Free /\ twoFinger = <<0, 0>> /\ tap = NoTap /\ previous = 0
    /\ raw = 0 /\ finger = FALSE
    /\ buttons = {} /\ doubled = FALSE /\ scrolled = {} /\ busy = FALSE /\ clicked = "no"

TouchpadNext ==
    \/ Press \/ TouchOff
    \/ \E s \in Slot : Land(s) \/ Lift(s) \/ Move(s) \/ ToolChange(s)
    \/ Frame \/ ResetPad

TouchpadSpec == TouchpadInit /\ [][TouchpadNext]_touchpadVars

-----------------------------------------------------------------------------
TouchpadTypeOK ==
    /\ clickpad \in Pads /\ palm \subseteq Slot
    /\ \A s \in Slot : contact[s].here =>
          /\ contact[s].age \in 0..TapLimit + 1
          /\ contact[s].rest \in {"never", "after tap time", "at once"}
          /\ {contact[s].pos, contact[s].last, contact[s].start} \subseteq Spot
    /\ leftEdge \in {"none", "press", "release"}
    /\ touchEnded \in BOOLEAN /\ others \in Seq(BOOLEAN)
    /\ pressedButton \in {"none", "left", "right"} /\ buttons \subseteq {"left", "right"}
    /\ flow \in {Free, Trailing} \cup {Scrolling(axes) : axes \in SUBSET Axis}
    /\ Within(twoFinger, 2 * TapTravel)
    /\ tap = NoTap \/ tap.age \in 0..TapLimit + 1
    /\ previous \in 0..Cardinality(Slot) /\ raw \in 0..MaxRaw
    /\ scrolled \subseteq Axis /\ busy \in BOOLEAN /\ clicked \in {"no", "left", "right"}

\* A scroll a client was told of is one it will be told the end of, on every
\* axis that scrolled: through lifted fingers, a third finger, a press, a palm
\* and a device that is taken away.
ScrollIsOwed == scrolled = flow.axes

\* A tap is a tap: the fingers that made the click did nothing else since they
\* landed, neither scroll nor press the pad.
TapIsOnlyATap == [][clicked' # "no" => ~busy]_touchpadVars

\* A clickpad's press is released as the button it was pressed as, however
\* many fingers are there by then, and never twice.
ButtonsAlternate == clickpad => ~doubled

\* Expected to fail.  The same of every pad: a finger that lands while the
\* button is held cannot tap (nazoru/tests/machine.rs 128).
NoTapUnderAButton == [][clicked' # "no" => ~finger]_touchpadVars

\* What the touchpad began it ends: an axis that scrolled is owed a stop, and a
\* button that went down comes up under the same code.
PadEventsPair == ScrollIsOwed /\ ButtonsAlternate

\* What a finger began is ended as it began, and nothing of it is read as a tap:
\* no stop or release is lost to a reset, no scroll ends in a click.
GesturesAreWhole == []PadEventsPair /\ TapIsOnlyATap
=============================================================================
