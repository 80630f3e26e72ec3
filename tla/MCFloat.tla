------------------------------ MODULE MCFloat ------------------------------
(***************************************************************************)
(* Five more components for TLC, none of which shares a variable with      *)
(* another: the floating desk and its grabs (FloatDesk), the tiling tree   *)
(* (Tiling), the world file and the cells the loop resolves it to          *)
(* (WorldFile), what a world binds chords to (Bindings), and the thread    *)
(* that sets the backlight and the volume (PowerThread).  A behaviour      *)
(* picks one and runs it, the others stay in one initial state.            *)
(***************************************************************************)
EXTENDS FloatDesk, Tiling, WorldFile, Bindings, PowerThread

CONSTANT a

VARIABLE part       \* the component this behaviour runs

\* A screen of 7 by 8 with a bar of 2, and one window with a titlebar of 1.
SmallScreen == [screenW |-> 7, screenH |-> 8, bar |-> 2, title |-> 1, button |-> 1,
                pad |-> 0, margin |-> 1, corner |-> 0, edge |-> 0, run |-> 1, gap |-> 0,
                threshold |-> 1, step |-> 1, minW |-> 2, minH |-> 2, nudge |-> 1]
ManagedOnly == [w \in Win |-> "managed"]
\* For FixedStartsCentred.
FixedOnly == [w \in Win |-> "fixed"]
OwnSizes == <<2, 2>>
DragSpots == {<<0, 0>>, <<4, 2>>}
\* For DragMeetsLayout: a drag to the lower edge.
DragSpotsLow == {<<4, 4>>, <<4, 7>>}

SomeWorlds == {{a}, {}}
LevelSteps == {-128, -10, 10}

\* A usable zone below a bar.
Zone == Span(0, 2, 12, 8)

\* Two worlds that differ in what they bind, flag and declare, no world, and a
\* refused one.  Chords are bound twice, reserved, bare and to what is no action.
Declares(name, value) == [entry |-> "command", name |-> name, value |-> value]
Sets(field, value) == [entry |-> "config", field |-> field, value |-> value]
Binds(chord, action, flag) ==
    [entry |-> "bind", chord |-> chord, action |-> action, locked |-> flag]
KeyA == Chord(Logo, "a")
KeyH == Chord(Logo, "h")
WayOut == Chord({"ctrl", "alt"}, "F2")
Entries1 ==
    <<Declares("louder", [kind |-> "volume", step |-> 5]),
      Declares("shut", [kind |-> "deed", verb |-> "close"]),
      Declares("go", [kind |-> "run", argv |-> <<"program">>]),
      Binds(KeyA, "shut", TRUE), Binds(KeyH, "go", TRUE), Binds(WayOut, "go", FALSE),
      Binds(Chord({}, "F2"), "spawn_terminal", FALSE), Binds(Chord(Logo, "Pause"), "go", FALSE)>>
Entries2 ==
    <<Sets("modifier", AltKey), Sets("modifier", {"ctrl"}), Sets("floating", FALSE),
      Declares("go", [kind |-> "screenshot"]),
      Declares("bad", [kind |-> "deed", verb |-> "command:go"]),
      Binds(KeyH, "screenshot", TRUE), Binds(KeyA, "go", TRUE), Binds(KeyH, "none", FALSE),
      Binds(Chord({}, "a"), "go", FALSE), Binds(KeyA, "bad", FALSE),
      Binds(Chord({}, "F2"), "spawn_terminal", TRUE)>>
BindingWorlds ==
    {[state |-> "refused"], [state |-> "absent"],
     [state |-> "judged", entries |-> Entries1], [state |-> "judged", entries |-> Entries2]}
WaysOut == {WayOut}
AskedDeeds == {ByName("go"), ByName("shut"), Verb("close"), Verb("screenshot")}

\* A component that is not looked at starts in one state.
Rests(p, v, S) == part = p \/ v = CHOOSE x \in S : TRUE

FloatWorldPowerInit ==
    /\ part \in {"desk", "tiling", "world", "bindings", "power"}
    /\ FloatInit /\ TilingInit /\ WorldInit /\ BindingsInit /\ PowerInit
    /\ Rests("desk", pointer, DragSpot) /\ Rests("power", level, 0..MaxLevel)
    /\ Rests("world", file, Worlds) /\ (part = "world" \/ ~overtaken)

FloatWorldPowerNext ==
    /\ UNCHANGED part
    /\ \/ /\ part = "desk" /\ FloatNext
          /\ UNCHANGED <<tilingVars, worldVars, bindingVars, powerVars>>
       \/ /\ part = "tiling" /\ TilingNext
          /\ UNCHANGED <<floatVars, worldVars, bindingVars, powerVars>>
       \/ /\ part = "world" /\ WorldNext
          /\ UNCHANGED <<floatVars, tilingVars, bindingVars, powerVars>>
       \/ /\ part = "bindings" /\ BindingsNext
          /\ UNCHANGED <<floatVars, tilingVars, worldVars, powerVars>>
       \/ /\ part = "power" /\ PowerNext
          /\ UNCHANGED <<floatVars, tilingVars, worldVars, bindingVars>>

fiveVars == <<part, floatVars, tilingVars, worldVars, bindingVars, powerVars>>
FloatWorldPowerSpec == FloatWorldPowerInit /\ [][FloatWorldPowerNext]_fiveVars

\* Every variable of the five components is in its type.
FloatWorldPowerTypeOK ==
    FloatTypeOK /\ TilingTypeOK /\ WorldTypeOK /\ BindingsTypeOK /\ PowerTypeOK
=============================================================================
