------------------------------ MODULE MCHands ------------------------------
(***************************************************************************)
(* The components under the operator's hands, for TLC: the keys and the    *)
(* pointer (SeatInput), the touchpad's gestures (Touchpad), and the        *)
(* layouts and synthetic input (Keyboard).  They share no variable: a      *)
(* behaviour picks one and runs it, the others stay in one initial state.  *)
(***************************************************************************)
EXTENDS SeatInput, Touchpad, Keyboard

CONSTANTS k1, k2, s1, s2

VARIABLE part       \* the component this behaviour runs

\* Three tables: none, the two keys swapped, and both the modifier.
SomeRemaps == {[k \in Key |-> k], [k \in Key |-> IF k = k1 THEN k2 ELSE k1],
               [k \in Key |-> k1]}

\* Two fingers' breadth apart, and one far away.
PadSpots == {<<0, 0>>, <<0, 2>>, <<4, 4>>}

\* Texts with a plain key, a shifted key, a dead key and a key of another
\* layout, and one raw key.
TextOf(t) == <<[kind |-> "text", text |-> t]>>
KeyOf(c, d) == [kind |-> "key", code |-> c, down |-> d]
SomeRequests == {TextOf(<<"A", "/">>), TextOf(<<"?", "ccedilla">>),
                 TextOf(<<"apostrophe", ":">>), <<KeyOf(50, TRUE), KeyOf(50, FALSE)>>}
SomeLayouts == {[keymap |-> "none", layouts |-> <<>>],
                [keymap |-> "de", layouts |-> <<"us+intl", "br">>]}

\* A component that is not looked at starts in one state.
Rests(p, v, S) == part = p \/ v = CHOOSE x \in S : TRUE

HandsInit ==
    /\ part \in {"input", "touchpad", "keyboard"}
    /\ InputInit /\ TouchpadInit /\ KeyboardInit
    /\ Rests("touchpad", clickpad, Pads) /\ Rests("input", remap, Remaps)

HandsNext ==
    /\ UNCHANGED part
    /\ \/ part = "input" /\ InputNext /\ UNCHANGED <<touchpadVars, kbVars>>
       \/ part = "touchpad" /\ TouchpadNext /\ UNCHANGED <<inputVars, kbVars>>
       \/ part = "keyboard" /\ KeyboardNext /\ UNCHANGED <<inputVars, touchpadVars>>

handsVars == <<part, inputVars, touchpadVars, kbVars>>
HandsSpec == HandsInit /\ [][HandsNext]_handsVars

\* Every variable of the three components is in its type.
HandsTypeOK == InputTypeOK /\ TouchpadTypeOK /\ KeyboardTypeOK
=============================================================================
