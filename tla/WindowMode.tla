----------------------------- MODULE WindowMode -----------------------------
(***************************************************************************)
(* The display state of the windows, windowmode.rs: a mode for each id,    *)
(* the tab groups and the order of minimising.  It is pure, as the code    *)
(* is: every method is an operator from tables to tables.                  *)
(*                                                                         *)
(* An id belongs to at most one group, so that the position of a group in  *)
(* the vector tells nothing and the groups are a set.  `active` is counted *)
(* from 1.                                                                 *)
(***************************************************************************)
EXTENDS Integers, SequencesExt

CONSTANT Id     \* what winid::of hands out: a surface each, never used twice

Mode == {"normal", "maximized", "minimized"}

Group == [members : Seq(Id), active : Nat]

Tables == [mode : [Id -> Mode], groups : SUBSET Group, order : Seq(Id)]

NewTables == [mode |-> [x \in Id |-> "normal"], groups |-> {}, order |-> <<>>]

-----------------------------------------------------------------------------
(* Placement.                                                              *)

GroupsOf(t, x) == {g \in t.groups : x \in ToSet(g.members)}

ShownTab(g) == g.members[g.active]

\* placement_of answers Hidden: minimised, or a tab behind its sibling.
Hidden(t, x) ==
    \/ t.mode[x] = "minimized"
    \/ \E g \in GroupsOf(t, x) : ShownTab(g) # x

-----------------------------------------------------------------------------
(* Modes.                                                                  *)

PositionOf(s, x) == CHOOSE i \in DOMAIN s : s[i] = x

\* retain(|m| m != id) on a vector that holds the id once at most.
Without(s, x) == IF x \in ToSet(s) THEN RemoveAt(s, PositionOf(s, x)) ELSE s

\* Mutant: the restore queue keeps an id that leaves the minimised mode.
SetModeKeepsTheQueue(t, x, m) ==
    [t EXCEPT !.mode[x] = m,
              !.order = IF m = "minimized" THEN Append(Without(@, x), x) ELSE @]

SetMode(t, x, m) ==
    [t EXCEPT !.mode[x] = m,
              !.order = Without(@, x) \o (IF m = "minimized" THEN <<x>> ELSE <<>>)]

ToggleMaximize(t, x) ==
    SetMode(t, x, IF t.mode[x] = "maximized" THEN "normal" ELSE "maximized")

Unmaximize(t, x) == IF t.mode[x] = "maximized" THEN SetMode(t, x, "normal") ELSE t

Minimize(t, x) == SetMode(t, x, "minimized")

\* restore_last, of a queue that holds something.
RestoreLast(t) == [t EXCEPT !.mode[Last(t.order)] = "normal", !.order = Front(@)]

-----------------------------------------------------------------------------
(* Tab groups.                                                             *)

\* Mutant: the shown tab keeps its number whatever is removed before it.
TakenOutUnshifted(g, x) ==
    LET rest == Without(g.members, x)
    IN  [members |-> rest, active |-> IF g.active > Len(rest) THEN Len(rest) ELSE g.active]

\* A group without x: removing a tab before the shown one moves the latter
\* down, and a shown tab that was the last gives way to the new last.
TakenOut(g, x) ==
    LET rest == Without(g.members, x)
        kept == IF PositionOf(g.members, x) < g.active THEN g.active - 1 ELSE g.active
    IN  [members |-> rest, active |-> IF kept > Len(rest) THEN Len(rest) ELSE kept]

\* Mutant: a group is dissolved when it is empty, not when one is left.
LeaveKeepsLoneTabs(t, x) ==
    [t EXCEPT !.groups = (@ \ GroupsOf(t, x))
                  \cup {TakenOut(g, x) : g \in {h \in GroupsOf(t, x) : Len(h.members) > 1}}]

\* leave: a group of one is no group.
Leave(t, x) ==
    [t EXCEPT !.groups = (@ \ GroupsOf(t, x))
                  \cup {TakenOut(g, x) : g \in {h \in GroupsOf(t, x) : Len(h.members) > 2}}]

Joined(g, x) == [members |-> Append(g.members, x), active |-> Len(g.members) + 1]

\* join: x leaves its group and becomes the shown tab of the host's.
Join(t, x, host) ==
    LET u == Leave(t, x)
    IN  [u EXCEPT !.groups =
            IF GroupsOf(u, host) = {}
            THEN @ \cup {[members |-> <<host, x>>, active |-> 2]}
            ELSE (@ \ GroupsOf(u, host)) \cup {Joined(g, x) : g \in GroupsOf(u, host)}]

\* cycle, forward or back, around the ends.
Turned(g, forward) ==
    LET n == Len(g.members)
    IN  [g EXCEPT !.active = 1 + (IF forward THEN g.active % n ELSE (g.active + n - 2) % n)]

Cycle(t, x, forward) ==
    [t EXCEPT !.groups = (@ \ GroupsOf(t, x)) \cup {Turned(g, forward) : g \in GroupsOf(t, x)}]

\* forget, when the window is destroyed.
Forget(t, x) ==
    LET u == Leave(t, x)
    IN  [u EXCEPT !.mode[x] = "normal", !.order = Without(@, x)]

-----------------------------------------------------------------------------
(* What the module promises of its tables.                                 *)

\* A group has two tabs or more, no tab twice, and its shown tab among them;
\* no id is in two groups.
TabsWellFormed(t) ==
    /\ \A g \in t.groups : /\ Len(g.members) >= 2
                           /\ IsInjective(g.members)
                           /\ g.active \in 1..Len(g.members)
    /\ \A x \in Id : \A g, h \in GroupsOf(t, x) : g = h

\* The restore queue holds the minimised ids, each of them once.
QueueIsTheMinimized(t) ==
    /\ IsInjective(t.order)
    /\ ToSet(t.order) = {x \in Id : t.mode[x] = "minimized"}

=============================================================================
