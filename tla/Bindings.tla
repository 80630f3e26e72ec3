------------------------------ MODULE Bindings ------------------------------
(***************************************************************************)
(* What a chord does: the seat's own bindings, what a world declares over  *)
(* them, and the gate every deed passes while the session is locked.       *)
(*                                                                         *)
(* A chord is a set of modifiers and a key, a deed a verb of the seat or   *)
(* the name of a command a world declares.  A world is the list of the     *)
(* entries the worker accepted, or a refusal.  What a chord is spelled     *)
(* like, and awase's map of bindings, are only seen by their effect.       *)
(***************************************************************************)
EXTENDS Lists, SequencesExt, FiniteSets, Functions

CONSTANTS
    WorldFiles,     \* the worlds that are adopted, each with its `state` and `entries`
    Reserved,       \* awase's Reserved::fleet_linux: the chords of the way out
    UnseenKeys,     \* keys no keysym reaches
    Asked           \* the verbs asked for over the socket

\* Every way out is Ctrl and Alt with a key (ukeire.rs, RESERVED_KEY_CODES), and
\* a world that was judged is a list of entries.
ASSUME BindingsAssumption ==
    /\ \A c \in Reserved : {"ctrl", "alt"} \subseteq c.modifiers
    /\ \A w \in WorldFiles : w.state = "judged" =>
          Len(w.entries) \in Nat /\ DOMAIN w.entries = 1..Len(w.entries)

VARIABLES
    worldAdopted,   \* SeatWorld.generation, 0, 1 or more
    worldCommands,  \* SeatWorld.commands: name |-> what it does
    binds,          \* SeatWorld.binds
    seatLook,       \* the modifier and the layout mode of the config
    bindings,       \* Omoya::bindings: chord |-> deed
    behindLock,     \* SeatWorld.behind_lock
    pendingDeeds,   \* the deeds asked over the socket, not performed yet
    isShut,         \* the session is locked
    lastDeed        \* what the last deed came to

bindingVars == <<worldAdopted, worldCommands, binds, seatLook, bindings, behindLock, pendingDeeds,
                 isShut, lastDeed>>

Chord(modifiers, key) == [modifiers |-> modifiers, key |-> key]
ByName(deed) == [verb |-> "command", name |-> deed]
Verb(v) == [verb |-> v, name |-> "none"]
NoDeed == Verb("refused")

\* A map with v at key, whatever was there before.
Put(map, key, v) == [k \in DOMAIN map \cup {key} |-> IF k = key THEN v ELSE map[k]]

-----------------------------------------------------------------------------
(* The verbs and the seat's own bindings.                                  *)

\* The verbs that name a side.
Focus == [left |-> "focus-left", right |-> "focus-right", up |-> "focus-up", down |-> "focus-down"]
Resize ==
    [left |-> "resize-left", right |-> "resize-right", up |-> "resize-up", down |-> "resize-down"]
Snap == [left |-> "snap-left", right |-> "snap-right", up |-> "snap-up", down |-> "snap-down"]
\* VERBS, and what parse makes of any of them.
Verbs ==
    Range(Focus) \cup Range(Resize) \cup Range(Snap)
    \cup {"close", "spawn-terminal", "spawn-launcher", "toggle-maximize", "minimize",
          "restore-last", "tab-next", "tab-prev", "tab-join", "tab-leave", "none", "next-layout",
          "volume-up", "volume-down", "mute", "brightness-up", "brightness-down", "lock",
          "suspend", "dismiss-note", "screenshot"}

\* A verb is spelled with dashes; an action may have underscores in their place.
Spelled == [undashed \in {"spawn_terminal"} |-> "spawn-terminal"]
Dashed(action) == IF action \in DOMAIN Spelled THEN Spelled[action] ELSE action

AltKey == {"alt"}
Logo == {"super"}
\* default_bindings_for, in the order the chords are bound.
DefaultList(logo, floating) ==
    LET shifted == logo \cup {"shift"}
        plain(key, v) == <<Chord(logo, key), v>>
        shift(key, v) == <<Chord(shifted, key), v>>
        letter(key, side) == <<plain(key, Focus[side]), shift(key, Resize[side])>>
        arrow(key, side) ==
            <<plain(key, IF floating THEN Snap[side] ELSE Focus[side]), shift(key, Resize[side])>>
        bare(key, v) == <<Chord({}, key), v>>
    IN  Chained(<<letter("h", "left"), letter("j", "down"), letter("k", "up"), letter("l", "right"),
                  arrow("Left", "left"), arrow("Down", "down"), arrow("Up", "up"),
                  arrow("Right", "right"),
                  <<plain("q", "close"),
                    plain("f", "toggle-maximize"), shift("f", "toggle-maximize"),
                    plain("m", "minimize"), shift("m", "restore-last"),
                    plain("Tab", "tab-next"), shift("Tab", "tab-prev"),
                    plain("t", "tab-join"), shift("t", "tab-leave"),
                    plain("Return", "spawn-terminal"),
                    <<Chord({"ctrl"}, "Space"), "spawn-launcher">>>>,
                  <<plain("n", "dismiss-note"), plain("Escape", "lock"),
                    plain("Space", "next-layout"),
                    bare("PrintScreen", "screenshot"), shift("s", "screenshot"),
                    bare("VolumeUp", "volume-up"), bare("VolumeDown", "volume-down"),
                    bare("Mute", "mute"), bare("BrightnessUp", "brightness-up"),
                    bare("BrightnessDown", "brightness-down")>>>>)

\* try_bind keeps the first of two bindings of a chord.
DefaultBindings(look) ==
    LET list == DefaultList(look.modifier, look.floating)
        chords == {list[i][1] : i \in DOMAIN list}
        first(c) == list[CHOOSE i \in DOMAIN list :
                            list[i][1] = c /\ \A j \in 1..(i - 1) : list[j][1] # c]
    IN  [c \in chords |-> Verb(first(c)[2])]

-----------------------------------------------------------------------------
(* A world, resolved.                                                      *)

SeatCommand(does, verb) == [does |-> does, verb |-> verb]

\* SeatCommand::from_world: the command a value declares, none when refused.
FromWorld(value) ==
    CASE value.kind = "run" /\ value.argv # <<>> -> {SeatCommand("run", "none")}
      [] value.kind = "deed" /\ Dashed(value.verb) \in Verbs ->
            {SeatCommand("deed", Dashed(value.verb))}
      [] value.kind = "volume" /\ value.step \in -100..100 -> {SeatCommand("deed", "volume-up")}
      [] value.kind = "screenshot" -> {SeatCommand("screenshot", "none")}
      [] OTHER -> {}

WorldBind(e) == [chord |-> e.chord, action |-> e.action, locked |-> e.locked]
NoWorldYet == [commands |-> <<>>, binds |-> <<>>, look |-> [modifier |-> Logo, floating |-> TRUE]]

\* set_field: a value the field cannot take is refused alone.
FieldTakes == [modifier |-> {Logo, AltKey}, floating |-> BOOLEAN]
SetField(resolved, field, value) ==
    IF value \in FieldTakes[field] THEN [resolved EXCEPT !.look[field] = value] ELSE resolved

\* apply_entry: a later command takes the name of an earlier one, and a bind is
\* kept whatever it says.
ApplyEntry(resolved, e) ==
    CASE e.entry = "command" ->
            LET new == FromWorld(e.value)
            IN  IF new = {} THEN resolved
                ELSE [resolved EXCEPT !.commands = Put(@, e.name, CHOOSE c \in new : TRUE)]
      [] e.entry = "bind" -> [resolved EXCEPT !.binds = Append(@, WorldBind(e))]
      [] e.entry = "config" -> SetField(resolved, e.field, e.value)
      [] OTHER -> resolved

\* resolve_with: the entries applied one after the other.
Resolved(w) ==
    IF w.state = "judged"
    THEN LET so[n \in 0..Len(w.entries)] ==
                 IF n = 0 THEN NoWorldYet ELSE ApplyEntry(so[n - 1], w.entries[n])
         IN  so[Len(w.entries)]
    ELSE NoWorldYet

MediaKeys == {"VolumeUp", "VolumeDown", "Mute", "BrightnessUp", "BrightnessDown", "PlayPause",
              "NextTrack", "PreviousTrack", "PrintScreen"}
FunctionKeys == {"F1", "F2", "F3", "F4", "F5", "F6", "F7", "F8", "F9", "F10", "F11", "F12"}

\* parse_chord: a key no keysym reaches is no chord.
IsSeen(c) == c.key \notin UnseenKeys

IsBareApplicationKey(c) == c.modifiers = {} /\ c.key \notin MediaKeys \cup FunctionKeys

\* action_deed: a verb comes before a command of the same name.
ActionDeed(action, cs) ==
    CASE Dashed(action) \in Verbs -> Verb(Dashed(action))
      [] Dashed(action) \notin Verbs /\ action \in DOMAIN cs -> ByName(action)
      [] OTHER -> NoDeed

\* Mutant: the chords of the way out can be bound.
StandsOverReserved(b, cs) ==
    /\ IsSeen(b.chord)
    /\ ~IsBareApplicationKey(b.chord)
    /\ ActionDeed(b.action, cs) # NoDeed

\* A bind that world_bindings does not refuse.
Stands(b, cs) ==
    /\ IsSeen(b.chord)
    /\ b.chord \notin Reserved
    /\ ~IsBareApplicationKey(b.chord)
    /\ ActionDeed(b.action, cs) # NoDeed

\* Mutant: the flags of the worlds before this one stay.
FlagsAppended(bs, cs) ==
    behindLock \cup {bs[i].action : i \in {j \in DOMAIN bs : bs[j].locked /\ Stands(bs[j], cs)}}

Flags(bs, cs) == {bs[i].action : i \in {j \in DOMAIN bs : bs[j].locked /\ Stands(bs[j], cs)}}

\* The world's binds over a map, of which the last on a chord stays.
BoundOver(map, bs, cs) ==
    LET over[n \in 0..Len(bs)] ==
            IF n = 0 THEN map
            ELSE IF Stands(bs[n], cs)
                 THEN Put(over[n - 1], bs[n].chord, ActionDeed(bs[n].action, cs))
                 ELSE over[n - 1]
    IN  over[Len(bs)]

\* Mutant: the binds of a world go over the map that stood before it.
RebuildOnTop(look, bs, cs) == bindings' = BoundOver(bindings, bs, cs)

\* rebuild_bindings: the seat's own for the config, and the world's over them.
Rebuild(look, bs, cs) == bindings' = BoundOver(DefaultBindings(look), bs, cs)

\* adopt_world: a refused world leaves what stood, unless it is the first.
AdoptWorldBindings(w) ==
    /\ worldAdopted' = IF worldAdopted = 0 THEN 1 ELSE 2
    /\ IF w.state = "refused" /\ worldAdopted > 0
       THEN UNCHANGED <<worldCommands, binds, seatLook, bindings, behindLock>>
       ELSE LET r == Resolved(w)
            IN  /\ worldCommands' = r.commands
                /\ binds' = r.binds
                /\ seatLook' = r.look
                /\ Rebuild(r.look, r.binds, r.commands)
                /\ behindLock' = Flags(r.binds, r.commands)
    /\ UNCHANGED <<pendingDeeds, isShut, lastDeed>>

-----------------------------------------------------------------------------
(* Deeds.                                                                  *)

AlwaysRuns == {"volume-up", "volume-down", "mute", "brightness-up", "brightness-down", "lock",
               "suspend"}

RunsBehindLock(deed) ==
    IF deed.verb = "command" THEN deed.name \in behindLock
    ELSE deed.verb \in AlwaysRuns \/ \E a \in behindLock : Dashed(a) = deed.verb

\* A verb as perform takes it: what it came to.
PerformVerb(v) ==
    IF v = "none" \/ (isShut /\ ~RunsBehindLock(Verb(v))) THEN NoDeed ELSE Verb(v)

\* Mutant: a command that may run behind the lock does what it likes there.
PerformCommandUngated(name) ==
    IF worldCommands[name].does = "deed" THEN Verb(worldCommands[name].verb) ELSE ByName(name)

\* perform_command: a verb goes through perform again.
PerformCommand(name) ==
    IF worldCommands[name].does = "deed" THEN PerformVerb(worldCommands[name].verb) ELSE ByName(name)

Perform(deed) ==
    IF deed.verb # "command" THEN PerformVerb(deed.verb)
    ELSE IF \/ deed.name \notin DOMAIN worldCommands
            \/ isShut /\ (~RunsBehindLock(deed) \/ worldCommands[deed.name].does = "screenshot")
         THEN NoDeed
         ELSE PerformCommand(deed.name)

\* A chord of the way out is looked for before the bindings are.
PressChord(c) ==
    /\ lastDeed' = Perform(bindings[c])
    /\ UNCHANGED <<worldAdopted, worldCommands, binds, seatLook, bindings, behindLock, pendingDeeds, isShut>>

\* The socket: a verb, or a name after "command:", is queued for the next tick.
AskDeed(deed) ==
    /\ deed.verb \in Verbs \cup {"command"}
    /\ pendingDeeds = <<>>
    /\ pendingDeeds' = <<deed>>
    /\ UNCHANGED <<worldAdopted, worldCommands, binds, seatLook, bindings, behindLock, isShut, lastDeed>>

DrainDeeds ==
    /\ pendingDeeds # <<>>
    /\ lastDeed' = Perform(Head(pendingDeeds))
    /\ pendingDeeds' = Tail(pendingDeeds)
    /\ UNCHANGED <<worldAdopted, worldCommands, binds, seatLook, bindings, behindLock, isShut>>

ShutOrOpen ==
    /\ isShut' = ~isShut
    /\ UNCHANGED <<worldAdopted, worldCommands, binds, seatLook, bindings, behindLock, pendingDeeds, lastDeed>>

BindingsInit ==
    /\ worldAdopted = 0
    /\ worldCommands = <<>> /\ binds = <<>>
    /\ seatLook = NoWorldYet.look
    /\ bindings = DefaultBindings(seatLook)
    /\ behindLock = {}
    /\ pendingDeeds = <<>>
    /\ isShut = FALSE
    /\ lastDeed = NoDeed

BindingsNext ==
    \/ \E w \in WorldFiles : AdoptWorldBindings(w)
    \/ \E c \in DOMAIN bindings : PressChord(c)
    \/ \E deed \in Asked : AskDeed(deed)
    \/ DrainDeeds \/ ShutOrOpen

BindingsSpec == BindingsInit /\ [][BindingsNext]_bindingVars

-----------------------------------------------------------------------------
(* Properties.                                                             *)

BindingsTypeOK ==
    /\ worldAdopted \in 0..2
    /\ \A n \in DOMAIN worldCommands : worldCommands[n].does \in {"run", "deed", "screenshot"}
    /\ \A c \in DOMAIN bindings : bindings[c].verb \in Verbs \cup {"command"}
    /\ lastDeed.verb \in Verbs \cup {"command", "refused"}

\* No sequence of worlds binds a chord of the way out, a key that belongs to
\* the applications, or a command that is not declared; and no chord keeps
\* what an earlier world bound it to (deed.rs, world_bindings; world.rs,
\* rebuild_bindings).
BindingsAreOfThisWorld ==
    LET own == ToSet(DefaultList(seatLook.modifier, seatLook.floating)) IN
    \A c \in DOMAIN bindings :
        /\ c \notin Reserved /\ ~IsBareApplicationKey(c)
        /\ bindings[c].verb = "command" => bindings[c].name \in DOMAIN worldCommands
        /\ \/ \E i \in DOMAIN binds : binds[i].chord = c
           \/ <<c, bindings[c].verb>> \in own

\* Behind the lock nothing comes of a deed that the standing world did not
\* flag, by whatever way it was asked for and however it is wrapped in a
\* command, except what always may (deed.rs, perform and runs_behind_lock).
OnlyFlaggedRuns ==
    [][isShut /\ lastDeed' # lastDeed /\ lastDeed' # NoDeed =>
          \/ lastDeed'.verb \in AlwaysRuns
          \/ \E i \in DOMAIN binds :
                /\ binds[i].locked
                /\ ActionDeed(binds[i].action, worldCommands) = lastDeed']_bindingVars

\* Chords do what the standing world says, and behind the lock no more than it
\* flagged.
BindingsHold == []BindingsAreOfThisWorld /\ OnlyFlaggedRuns

\* docs/DAILY-SEAT.md:196: "Screencopy and the screenshot chord refuse while
\* `Held`".
NoPictureBehindTheLock ==
    [][isShut /\ lastDeed' # lastDeed => lastDeed'.verb # "screenshot"]_bindingVars
=============================================================================
