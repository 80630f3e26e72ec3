------------------------------ MODULE Keyboard ------------------------------
(***************************************************************************)
(* The keyboard: hairetsu's layouts and state, the keymap the clients are  *)
(* given and read for themselves, the layouts the seat serves, and the     *)
(* keys that the query socket types.                                       *)
(*                                                                         *)
(* A layout has a row for each kind of key and for each character whose    *)
(* place differs from layout to layout, in the order of the keycodes.      *)
(* What becomes of a key before it reaches the keymap is SeatInput's, and  *)
(* the clients and the keyboard that smithay keeps are external.           *)
(***************************************************************************)
EXTENDS FiniteSets, Lists, SequencesExt

CONSTANTS
    FingerKeys,        \* the keycodes an operator presses
    Requests,       \* what a caller asks of the socket, as queue entries
    KeymapConfigs,  \* the configurations: [keymap, layouts]
    MaxQueue        \* bound: entries waiting for the loop

VARIABLES
    kb,             \* the seat's keyboard: held, depressed, locked, and sent
    servedLayout,   \* the layout its keymap was compiled from
    published,      \* ukeire_keymap_layout
    keymapConfig,   \* config.ukeire's keymap and layouts
    layoutIndex,    \* world.layout_index
    fingers,        \* the keys the operator has down
    kept,           \* keys a caller has asked to hold
    pushing,        \* what the query thread has still to queue
    pendingInput,   \* pending_input
    seen            \* what the last drain gave the client to read

kbVars == <<kb, servedLayout, published, keymapConfig, layoutIndex, fingers, kept, pushing,
            pendingInput, seen>>

NoKeymap == "none"

-----------------------------------------------------------------------------
(* Layouts.                                                                *)

KeyRow(code, kind, levels) == [code |-> code, kind |-> kind, levels |-> levels]

US == << KeyRow(10, "TwoLevel", <<"1", "!">>),
         KeyRow(38, "Alphabetic", <<"a", "A">>),
         KeyRow(47, "TwoLevel", <<";", ":">>),
         KeyRow(50, "OneLevel", <<"Shift_L">>),
         KeyRow(61, "TwoLevel", <<"/", "?">>),
         KeyRow(62, "OneLevel", <<"Shift_R">>),
         KeyRow(66, "OneLevel", <<"Caps_Lock">>),
         KeyRow(77, "OneLevel", <<"Num_Lock">>),
         KeyRow(79, "Keypad", <<"KP_Home", "7">>),
         KeyRow(107, "AltLevel2", <<"Print", "Sys_Req">>),
         KeyRow(108, "OneLevel", <<"Alt_R">>),
         KeyRow(127, "ControlLevel2", <<"Pause", "Break">>) >>

BR == << KeyRow(10, "FourLevel", <<"1", "!", "onesuperior", "exclamdown">>),
         KeyRow(24, "FourLevelAlphabetic", <<"q", "Q", "/", "/">>),
         KeyRow(38, "FourLevelAlphabetic", <<"a", "A", "ae", "AE">>),
         KeyRow(47, "FourLevelAlphabetic",
                <<"ccedilla", "Ccedilla", "dead_acute", "dead_doubleacute">>),
         KeyRow(50, "OneLevel", <<"Shift_L">>),
         KeyRow(61, "FourLevel", <<";", ":", "dead_belowdot", "dead_abovedot">>),
         KeyRow(62, "OneLevel", <<"Shift_R">>),
         KeyRow(66, "OneLevel", <<"Caps_Lock">>),
         KeyRow(77, "OneLevel", <<"Num_Lock">>),
         KeyRow(79, "Keypad", <<"KP_Home", "7">>),
         KeyRow(97, "FourLevel", <<"/", "?", "degree", "questiondown">>),
         KeyRow(107, "AltLevel2", <<"Print", "Sys_Req">>),
         KeyRow(108, "OneLevel", <<"ISO_Level3_Shift">>),
         KeyRow(127, "ControlLevel2", <<"Pause", "Break">>) >>

US_INTL == << KeyRow(10, "FourLevel", <<"1", "!", "exclamdown", "onesuperior">>),
              KeyRow(38, "FourLevelAlphabetic", <<"a", "A", "aacute", "Aacute">>),
              KeyRow(39, "FourLevelSemiAlphabetic", <<"s", "S", "ssharp", "section">>),
              KeyRow(47, "FourLevel", <<";", ":", "paragraph", "degree">>),
              KeyRow(48, "FourLevel",
                     <<"dead_acute", "dead_diaeresis", "apostrophe", "quotedbl">>),
              KeyRow(50, "OneLevel", <<"Shift_L">>),
              KeyRow(61, "FourLevel", <<"/", "?", "questiondown", "dead_hook">>),
              KeyRow(62, "OneLevel", <<"Shift_R">>),
              KeyRow(66, "OneLevel", <<"Caps_Lock">>),
              KeyRow(77, "OneLevel", <<"Num_Lock">>),
              KeyRow(79, "Keypad", <<"KP_Home", "7">>),
              KeyRow(107, "AltLevel2", <<"Print", "Sys_Req">>),
              KeyRow(108, "OneLevel", <<"ISO_Level3_Shift">>),
              KeyRow(127, "ControlLevel2", <<"Pause", "Break">>) >>

LAYOUTS == {"us", "br", "us+intl"}
Rows(layout) == CASE layout = "us" -> US [] layout = "br" -> BR [] layout = "us+intl" -> US_INTL
Row(layout, code) == CHOOSE r \in ToSet(Rows(layout)) : r.code = code
Codes(layout) == {r.code : r \in ToSet(Rows(layout))}

\* The first symbol decides what a key does to the modifiers.
FirstSym(layout, code) ==
    IF code \in Codes(layout) THEN Row(layout, code).levels[1] ELSE "none"

ModifierBit(sym) ==
    CASE sym \in {"Shift_L", "Shift_R"} -> {"Shift"}
      [] sym = "Alt_L" -> {"Mod1"}
      [] sym \in {"Control_L", "Control_R"} -> {"Control"}
      [] sym \in {"Alt_R", "ISO_Level3_Shift"} -> {"Mod5"}
      [] OTHER -> {}

LockBit(sym) ==
    CASE sym = "Caps_Lock" -> {"Lock"}
      [] sym = "Num_Lock" -> {"Mod2"}
      [] OTHER -> {}

IsModifierKeysym(sym) == ModifierBit(sym) \cup LockBit(sym) # {}

\* mods_for_level: what to hold for a level.
ModsForLevel(kind, level) ==
    CASE level = 1 -> {}
      [] level = 2 -> CASE kind = "Keypad" -> {"Mod2"}
                        [] kind = "AltLevel2" -> {"Mod1"}
                        [] kind = "ControlLevel2" -> {"Control"}
                        [] OTHER -> {"Shift"}
      [] level = 3 -> {"Mod5"}
      [] level = 4 -> {"Shift", "Mod5"}

\* key_for_char: the rows in the order of their codes, each from its lowest level.
Unreachable == [code |-> 0, mods |-> {"none"}]
KeyForChar(layout, c) ==
    LET giving == {i \in DOMAIN Rows(layout) : c \in ToSet(Rows(layout)[i].levels)}
        r == Rows(layout)[Min(giving)]
        level == Min({l \in DOMAIN r.levels : r.levels[l] = c})
    IN  IF giving = {} THEN Unreachable
        ELSE [code |-> r.code, mods |-> ModsForLevel(r.kind, level)]

-----------------------------------------------------------------------------
(* The state, and what it resolves a key to.                               *)

Effective(k) == k.depressed \cup k.locked
Reported(k) == [depressed |-> k.depressed, locked |-> k.locked]

BitsOf(layout, codes) == UNION {ModifierBit(FirstSym(layout, c)) : c \in codes}

\* update_key, and the modifiers smithay sends on when it reports a change.
Down(k, layout, code) ==
    LET bit == LockBit(FirstSym(layout, code))
    IN  [k EXCEPT !.held = @ \cup {code},
                  !.depressed = @ \cup ModifierBit(FirstSym(layout, code)),
                  !.locked = (@ \ bit) \cup (bit \ @)]
Up(k, layout, code) ==
    [k EXCEPT !.held = @ \ {code},
              !.depressed = BitsOf(layout, k.held \ {code})]

\* Mutant of Changed: a lock is only told to the panel.
ChangedHeld(before, after) == before.depressed # after.depressed
Changed(before, after) ==
    before.depressed # after.depressed \/ before.locked # after.locked
Told(before, after) ==
    IF Changed(before, after) THEN [after EXCEPT !.sent = Reported(after)] ELSE after

UpdateKey(k, layout, code, down) ==
    Told(k, IF down THEN Down(k, layout, code) ELSE Up(k, layout, code))

\* level_for_key, counted from one.
LevelForKey(layout, code, mods) ==
    LET r == Row(layout, code)
        shift == "Shift" \in mods
        level3 == "Mod5" \in mods
        capsed == shift # ("Lock" \in mods)
        second == CASE r.kind = "OneLevel" -> FALSE
                    [] r.kind \in {"TwoLevel", "FourLevel"} -> shift
                    [] r.kind \in {"Alphabetic", "FourLevelAlphabetic"} -> capsed
                    [] r.kind = "FourLevelSemiAlphabetic" -> IF level3 THEN shift ELSE capsed
                    [] r.kind = "Keypad" -> "Mod2" \in mods /\ ~shift
                    [] r.kind = "AltLevel2" -> "Mod1" \in mods
                    [] r.kind = "ControlLevel2" -> "Control" \in mods
    IN  (IF second THEN 2 ELSE 1) + (IF level3 /\ Len(r.levels) >= 4 THEN 2 ELSE 0)

\* TYPES of the emitted keymap: the modifiers a type looks at, and for each further
\* level the combinations that select it.
TYPES ==
    [OneLevel |-> [looks |-> {}, selects |-> <<>>],
     TwoLevel |-> [looks |-> {"Shift"}, selects |-> << {{"Shift"}} >>],
     Alphabetic |-> [looks |-> {"Shift", "Lock"}, selects |-> << {{"Shift"}, {"Lock"}} >>],
     Keypad |-> [looks |-> {"Shift", "Mod2"}, selects |-> << {{"Mod2"}} >>],
     AltLevel2 |-> [looks |-> {"Mod1"}, selects |-> << {{"Mod1"}} >>],
     ControlLevel2 |-> [looks |-> {"Control"}, selects |-> << {{"Control"}} >>],
     FourLevel |->
        [looks |-> {"Shift", "Mod5"},
         selects |-> << {{"Shift"}}, {{"Mod5"}}, {{"Shift", "Mod5"}} >>],
     FourLevelAlphabetic |->
        [looks |-> {"Shift", "Lock", "Mod5"},
         selects |-> << {{"Shift"}, {"Lock"}},
                        {{"Mod5"}, {"Shift", "Lock", "Mod5"}},
                        {{"Shift", "Mod5"}, {"Lock", "Mod5"}} >>],
     FourLevelSemiAlphabetic |->
        [looks |-> {"Shift", "Lock", "Mod5"},
         selects |-> << {{"Shift"}, {"Lock"}},
                        {{"Mod5"}, {"Lock", "Mod5"}},
                        {{"Shift", "Mod5"}, {"Shift", "Lock", "Mod5"}} >>]]

\* The level a client finds for itself, in the keymap and with the modifiers it was sent.
ClientLevel(layout, code, sent) ==
    LET type == TYPES[Row(layout, code).kind]
        mods == (sent.depressed \cup sent.locked) \cap type.looks
    IN  1 + SelectInSeq(type.selects, LAMBDA combinations : mods \in combinations)

-----------------------------------------------------------------------------
(* What is typed over the socket.                                          *)

\* keymap_for.
KeymapFor(shown) == IF shown \in LAYOUTS THEN shown ELSE "us"

ShiftKey == 50
AltGrKey == 108

\* An entry of the queue: characters, none of which names a modifier, or one key.
IsEntry(e) ==
    \/ /\ e.kind = "text" /\ e.text \in Seq(ToSet(e.text))
       /\ \A c \in ToSet(e.text) : ~IsModifierKeysym(c)
    \/ e.kind = "key" /\ e.code \in Nat /\ e.down \in BOOLEAN

ASSUME KeyboardAssumption ==
    /\ FingerKeys \subseteq Nat
    /\ \A request \in Requests : /\ request \in Seq(ToSet(request))
                                 /\ \A e \in ToSet(request) : IsEntry(e)

Reachable(layout, c) == KeyForChar(layout, c).mods \subseteq {"Shift", "Mod5"}
Expands(layout, entry) ==
    entry.kind = "text" => \A c \in ToSet(entry.text) : Reachable(layout, c)

KeyStep(code, down) == [code |-> code, down |-> down]
Bracket(code, before, after) ==
    IF before = after THEN <<>> ELSE << KeyStep(code, after) >>

\* Mutant of ExpandChar: both modifiers are only ever added.
ExpandHolding(layout, steps, mods, c) ==
    LET key == KeyForChar(layout, c)
    IN  [steps |-> steps
                   \o Bracket(ShiftKey, "Shift" \in mods, "Shift" \in mods \cup key.mods)
                   \o Bracket(AltGrKey, "Mod5" \in mods, "Mod5" \in mods \cup key.mods)
                   \o << KeyStep(key.code, TRUE), KeyStep(key.code, FALSE) >>,
         mods |-> mods \cup key.mods]

\* expand: a character at a time, the two modifiers carried from one to the next.
ExpandChar(layout, steps, mods, c) ==
    LET key == KeyForChar(layout, c)
    IN  [steps |-> steps
                   \o Bracket(ShiftKey, "Shift" \in mods, "Shift" \in key.mods)
                   \o Bracket(AltGrKey, "Mod5" \in mods, "Mod5" \in key.mods)
                   \o << KeyStep(key.code, TRUE), KeyStep(key.code, FALSE) >>,
         mods |-> key.mods]
\* Mutant of LetGo: AltGr is left to the next character.
LetGoShift(typed) == typed.steps \o Bracket(ShiftKey, "Shift" \in typed.mods, FALSE)
LetGo(typed) ==
    typed.steps \o Bracket(ShiftKey, "Shift" \in typed.mods, FALSE)
                \o Bracket(AltGrKey, "Mod5" \in typed.mods, FALSE)
Expand(layout, entry) ==
    IF entry.kind = "key" THEN << KeyStep(entry.code, entry.down) >>
    ELSE LET typed[n \in 0 .. Len(entry.text)] ==
                 IF n = 0 THEN [steps |-> <<>>, mods |-> {}]
                 ELSE ExpandChar(layout, typed[n - 1].steps, typed[n - 1].mods, entry.text[n])
         IN  LetGo(typed[Len(entry.text)])

\* apply_step: the key, and what the client reads in it.
ApplyStep(acc, step, layout) ==
    [kb |-> UpdateKey(acc.kb, layout, step.code, step.down),
     seen |-> IF step.down /\ step.code \in Codes(layout)
                 /\ ~IsModifierKeysym(FirstSym(layout, step.code))
              THEN LET level == ClientLevel(layout, step.code, acc.kb.sent)
                   IN  Append(acc.seen, Row(layout, step.code).levels[level])
              ELSE acc.seen]

\* The steps of one entry, one after the other.
Applied(acc, steps, layout) ==
    LET run[n \in 0 .. Len(steps)] ==
            IF n = 0 THEN acc ELSE ApplyStep(run[n - 1], steps[n], layout)
    IN  run[Len(steps)]

\* The drain: every entry expanded for the published layout, or dropped.
Drained ==
    LET for == KeymapFor(published)
        run[n \in 0 .. Len(pendingInput)] ==
            IF n = 0 THEN [kb |-> kb, seen |-> <<>>]
            ELSE IF Expands(for, pendingInput[n])
                 THEN Applied(run[n - 1], Expand(for, pendingInput[n]), servedLayout)
            ELSE run[n - 1]
    IN  run[Len(pendingInput)]

-----------------------------------------------------------------------------
(* Actions.                                                                *)

KeyboardInit ==
    /\ kb = [held |-> {}, depressed |-> {}, locked |-> {},
             sent |-> [depressed |-> {}, locked |-> {}]]
    /\ servedLayout = "us"
    /\ published = "<bare>"
    /\ keymapConfig = [keymap |-> NoKeymap, layouts |-> <<>>]
    /\ layoutIndex = 1
    /\ fingers = {}
    /\ kept = {}
    /\ pushing = <<>>
    /\ pendingInput = <<>>
    /\ seen = <<>>

layoutVars == <<servedLayout, published, keymapConfig, layoutIndex>>
socketVars == <<kept, pushing, pendingInput>>

OperatorPresses(code) ==
    /\ code \notin fingers
    /\ fingers' = fingers \cup {code}
    /\ kb' = UpdateKey(kb, servedLayout, code, TRUE)
    /\ seen' = <<>>
    /\ UNCHANGED <<layoutVars, socketVars>>

OperatorReleases(code) ==
    /\ code \in fingers
    /\ fingers' = fingers \ {code}
    /\ kb' = UpdateKey(kb, servedLayout, code, FALSE)
    /\ seen' = <<>>
    /\ UNCHANGED <<layoutVars, socketVars>>

\* release_all_keys, as the seat goes: every key goes up, in no order, and the clients
\* are told of the modifiers that go.  What the fingers do from here it does not hear.
ReleaseAllKeys ==
    /\ kb.held # {}
    /\ kb' = Told(kb, [kb EXCEPT !.held = {}, !.depressed = {}])
    /\ fingers' = {}
    /\ kept' = {}
    /\ seen' = <<>>
    /\ UNCHANGED <<layoutVars, pushing, pendingInput>>

\* A caller's request, checked on the query thread: a text against the layout of now.
Asks(request) ==
    /\ pushing = <<>>
    /\ \A i \in DOMAIN request : Expands(KeymapFor(published), request[i])
    /\ pushing' = request
    /\ seen' = <<>>
    /\ UNCHANGED <<kb, layoutVars, fingers, kept, pendingInput>>

\* queue_input: an entry under the lock; the loop may drain between two of them.
QueueInput ==
    /\ pushing # <<>> /\ Len(pendingInput) < MaxQueue
    /\ pendingInput' = Append(pendingInput, Head(pushing))
    /\ pushing' = Tail(pushing)
    /\ seen' = <<>>
    /\ UNCHANGED <<kb, layoutVars, fingers, kept>>

Holds(kept0, entries) ==
    LET keys[n \in 0 .. Len(entries)] ==
            IF n = 0 THEN kept0
            ELSE IF entries[n].kind # "key" THEN keys[n - 1]
            ELSE IF entries[n].down THEN keys[n - 1] \cup {entries[n].code}
            ELSE keys[n - 1] \ {entries[n].code}
    IN  keys[Len(entries)]

DrainInput ==
    /\ pendingInput # <<>>
    /\ kb' = Drained.kb
    /\ seen' = Drained.seen
    /\ kept' = Holds(kept, pendingInput)
    /\ pendingInput' = <<>>
    /\ UNCHANGED <<layoutVars, fingers, pushing>>

\* set_xkb_config: a new state, with the keys that are down pressed again in it, in no
\* order; each of them that locks turns its lock over.
Turned(layout, bit) ==
    Cardinality({c \in kb.held : bit \in LockBit(FirstSym(layout, c))}) % 2 = 1
Recompiled(layout) ==
    LET k == [kb EXCEPT !.depressed = BitsOf(layout, kb.held),
                        !.locked = {bit \in {"Lock", "Mod2"} : Turned(layout, bit)}]
    IN  [k EXCEPT !.sent = Reported(k)]

\* active_keymap and apply_keymap: nothing declared is published as the bare keymap;
\* a layout nobody has leaves the seat with the keymap it had.
ActiveKeymap(config, index) ==
    IF index \in DOMAIN config.layouts THEN config.layouts[index] ELSE config.keymap
ApplyKeymap(name) ==
    IF name = NoKeymap
    THEN published' = "<bare>" /\ UNCHANGED <<servedLayout, kb>>
    ELSE IF name \in LAYOUTS
    THEN servedLayout' = name /\ published' = name /\ kb' = Recompiled(name)
    ELSE UNCHANGED <<servedLayout, published, kb>>

\* Mutant: a shorter list keeps the index into the longer one.
IndexKept(config) == layoutIndex

IndexIn(config) == IF layoutIndex \in DOMAIN config.layouts THEN layoutIndex ELSE 1

AdoptKeymap(config) ==
    /\ config # keymapConfig
    /\ keymapConfig' = config
    /\ layoutIndex' = IndexIn(config)
    /\ ApplyKeymap(ActiveKeymap(config, layoutIndex'))
    /\ seen' = <<>>
    /\ UNCHANGED <<fingers, socketVars>>

NextLayout ==
    /\ Len(keymapConfig.layouts) > 1
    /\ layoutIndex' = 1 + (layoutIndex % Len(keymapConfig.layouts))
    /\ ApplyKeymap(ActiveKeymap(keymapConfig, layoutIndex'))
    /\ seen' = <<>>
    /\ UNCHANGED <<keymapConfig, fingers, socketVars>>

KeyboardNext ==
    \/ \E code \in FingerKeys : OperatorPresses(code) \/ OperatorReleases(code)
    \/ ReleaseAllKeys
    \/ \E request \in Requests : Asks(request)
    \/ QueueInput
    \/ DrainInput
    \/ \E config \in KeymapConfigs : AdoptKeymap(config)
    \/ NextLayout

KeyboardSpec == KeyboardInit /\ [][KeyboardNext]_kbVars

-----------------------------------------------------------------------------
(* Properties.                                                             *)

Modifiers == {"Shift", "Lock", "Control", "Mod1", "Mod2", "Mod5"}

\* Types, and the bound of the queue.
KeyboardTypeOK ==
    /\ kb.held \subseteq Nat /\ kb.depressed \subseteq Modifiers
    /\ kb.locked \subseteq {"Lock", "Mod2"}
    /\ kb.sent \in [depressed : SUBSET Modifiers, locked : SUBSET {"Lock", "Mod2"}]
    /\ servedLayout \in LAYOUTS
    /\ published \in LAYOUTS \cup {"<bare>"}
    /\ layoutIndex \in {1} \cup DOMAIN keymapConfig.layouts
    /\ fingers \subseteq FingerKeys
    /\ Len(pendingInput) <= MaxQueue

\* The two ends read every key alike: the level the seat's own state gives a key is the
\* level a client finds in the emitted keymap with the modifiers it was sent, whatever
\* is held, locked, typed or recompiled.
SidesAgree ==
    \A code \in Codes(servedLayout) :
        LevelForKey(servedLayout, code, Effective(kb)) = ClientLevel(servedLayout, code, kb.sent)

\* Nothing the socket types is left down: a key the seat holds is under a finger, or
\* a caller asked for it to be held.
NothingStranded == kb.held \subseteq fingers \cup kept

\* A text arrives as it was asked: drained on a seat with no modifier on, by the layout
\* that is served, the client reads those characters and no others.
TextArrives ==
    [][ (/\ pendingInput # <<>> /\ pendingInput' = <<>>
         /\ Effective(kb) = {} /\ KeymapFor(published) = servedLayout
         /\ \A i \in DOMAIN pendingInput : /\ pendingInput[i].kind = "text"
                                           /\ Expands(servedLayout, pendingInput[i]))
        => seen' = Chained([i \in DOMAIN pendingInput |-> pendingInput[i].text]) ]_kbVars

\* What is typed is typed for the layout that is served (introspect.rs: "against the
\* layout the seat is ACTUALLY serving").  It is not, once a configuration drops the
\* keymap that an earlier one declared.
TypedForTheServed == KeymapFor(published) = servedLayout

\* A character some key gives by itself is typed by such a key (hairetsu: "prefer the
\* unmodified key").  Another key with a lower code is found first.
PrefersThePlainKey ==
    \A row \in ToSet(Rows(servedLayout)) :
        ~IsModifierKeysym(row.levels[1]) =>
            KeyForChar(servedLayout, row.levels[1]).mods = {}

\* A key means the same to the seat and to its clients, and no key that the
\* socket typed is left down.
KeyboardsAgree == SidesAgree /\ NothingStranded

\* The seat, its clients and the socket's callers speak of one keyboard: a key and
\* a typed text mean what the layout in service says.
TypingArrives == []KeyboardsAgree /\ TextArrives
=============================================================================
