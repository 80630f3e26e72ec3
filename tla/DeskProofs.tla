----------------------------- MODULE DeskProofs -----------------------------
(***************************************************************************)
(* The desk for every number of windows, layers and lock surfaces, every   *)
(* choice of deeds behind the lock and either layout: its tables stay      *)
(* sound, the keyboard stays sealed, what should show does, no step turns  *)
(* a page or leaves on the screen what it hid, and the keyboard finds a    *)
(* window.                                                                 *)
(*                                                                         *)
(* First what the operators of WindowMode preserve, for every set of ids:  *)
(* tables that are well typed, whose queue is of the minimised and whose   *)
(* groups are well formed, stay so.                                        *)
(***************************************************************************)
EXTENDS Desk, SequenceTheorems, TLAPS

\* An injective sequence of ids.
Distinct(s) == s \in Seq(Id) /\ IsInjective(s)

\* PositionOf finds an id that is there.
LEMMA PositionFound ==
    ASSUME NEW s \in Seq(Id), NEW x \in ToSet(s)
    PROVE  /\ PositionOf(s, x) \in 1..Len(s)
           /\ s[PositionOf(s, x)] = x
  BY DEF PositionOf, ToSet

\* RemoveAt closes the gap and keeps the rest.
LEMMA RemoveAtElements ==
    ASSUME NEW s \in Seq(Id), NEW i \in 1..Len(s)
    PROVE  /\ RemoveAt(s, i) \in Seq(Id)
           /\ Len(RemoveAt(s, i)) = Len(s) - 1
           /\ \A j \in 1..(Len(s) - 1) :
                 RemoveAt(s, i)[j] = IF j < i THEN s[j] ELSE s[j + 1]
  <1> DEFINE a == SubSeq(s, 1, i - 1)
             b == SubSeq(s, i + 1, Len(s))
  <1>1. /\ a \in Seq(Id) /\ Len(a) = i - 1
        /\ \A j \in 1..(i - 1) : a[j] = s[j]
    BY SubSeqProperties
  <1>2. /\ b \in Seq(Id) /\ Len(b) = Len(s) - i
        /\ \A j \in 1..(Len(s) - i) : b[j] = s[i + j]
    <2>1. \A j \in (i + 1)..Len(s) : s[j] \in Id
      OBVIOUS
    <2>2. /\ b \in Seq(Id)
          /\ Len(b) = IF i + 1 <= Len(s) THEN Len(s) - (i + 1) + 1 ELSE 0
          /\ \A j \in 1..(Len(s) - (i + 1) + 1) : b[j] = s[i + 1 + j - 1]
      BY <2>1, SubSeqProperties
    <2> QED BY <2>2
  <1>3. RemoveAt(s, i) = a \o b
    BY DEF RemoveAt
  <1> HIDE DEF a, b
  <1>4. /\ a \o b \in Seq(Id)
        /\ Len(a \o b) = Len(s) - 1
        /\ \A j \in 1..(Len(s) - 1) :
              (a \o b)[j] = IF j <= i - 1 THEN a[j] ELSE b[j - (i - 1)]
    <2>1. /\ a \o b \in Seq(Id)
          /\ Len(a \o b) = Len(a) + Len(b)
          /\ \A j \in 1..(Len(a) + Len(b)) :
                (a \o b)[j] = IF j <= Len(a) THEN a[j] ELSE b[j - Len(a)]
      BY <1>1, <1>2, ConcatProperties, Zenon
    <2>2. Len(a) = i - 1 /\ Len(a) + Len(b) = Len(s) - 1
      BY <1>1, <1>2
    <2> QED BY ONLY <2>1, <2>2, Zenon
  <1>5. ASSUME NEW j \in 1..(Len(s) - 1)
        PROVE  (a \o b)[j] = IF j < i THEN s[j] ELSE s[j + 1]
    <2>1. CASE j < i
      BY <2>1, <1>1, <1>4
    <2>2. CASE ~(j < i)
      <3>1. j - (i - 1) \in 1..(Len(s) - i) /\ i + (j - (i - 1)) = j + 1
        BY <2>2
      <3> QED BY <3>1, <2>2, <1>2, <1>4
    <2> QED BY <2>1, <2>2
  <1> QED BY <1>3, <1>4, <1>5

\* Without takes the id out of a sequence that names nothing twice, which is
\* then one shorter.
LEMMA WithoutElements ==
    ASSUME NEW s, Distinct(s), NEW x
    PROVE  /\ Distinct(Without(s, x))
           /\ ToSet(Without(s, x)) = ToSet(s) \ {x}
           /\ x \in ToSet(s) => Len(Without(s, x)) = Len(s) - 1
  <1>1. CASE x \notin ToSet(s)
    BY <1>1 DEF Without
  <1>2. CASE x \in ToSet(s)
    <2> DEFINE i == PositionOf(s, x)
               r == RemoveAt(s, i)
    <2>1. Without(s, x) = r
      BY <1>2 DEF Without
    <2>2. s \in Seq(Id) /\ IsInjective(s)
      BY DEF Distinct
    <2>3. i \in 1..Len(s) /\ s[i] = x
      BY <1>2, <2>2, PositionFound
    <2> HIDE DEF i
    <2>4. /\ r \in Seq(Id) /\ Len(r) = Len(s) - 1
          /\ \A j \in 1..(Len(s) - 1) : r[j] = IF j < i THEN s[j] ELSE s[j + 1]
      BY <2>2, <2>3, RemoveAtElements
    <2> HIDE DEF r
    <2>5. \A a, b \in 1..Len(s) : s[a] = s[b] => a = b
      BY <2>2 DEF IsInjective
    <2>6. IsInjective(r)
      BY <2>2, <2>3, <2>4, <2>5 DEF IsInjective
    <2>7. ASSUME NEW y \in ToSet(r)
          PROVE  y \in ToSet(s) \ {x}
      <3>1. PICK k \in 1..(Len(s) - 1) : r[k] = y
        BY <2>4 DEF ToSet
      <3>2. PICK j \in 1..Len(s) : j # i /\ s[j] = y
        BY <3>1, <2>2, <2>3, <2>4
      <3>3. y # x
        BY <3>2, <2>3, <2>5
      <3> QED BY <3>2, <3>3, <2>2 DEF ToSet
    <2>8. ASSUME NEW y \in ToSet(s) \ {x}
          PROVE  y \in ToSet(r)
      <3>1. PICK k \in 1..Len(s) : s[k] = y
        BY <2>2 DEF ToSet
      <3>2. k # i
        BY <3>1, <2>3
      <3>3. CASE k < i
        BY <3>1, <3>3, <2>2, <2>3, <2>4 DEF ToSet
      <3>4. CASE k > i
        <4>1. k - 1 \in 1..(Len(s) - 1) /\ r[k - 1] = y
          BY <3>1, <3>4, <2>2, <2>3, <2>4
        <4> QED BY <4>1, <2>4 DEF ToSet
      <3> QED BY <3>2, <3>3, <3>4, <2>3
    <2> QED BY <2>1, <2>4, <2>6, <2>7, <2>8 DEF Distinct
  <1> QED BY <1>1, <1>2

\* Appending an id that is not there keeps a sequence distinct.
LEMMA AppendedElements ==
    ASSUME NEW s, Distinct(s), NEW x \in Id \ ToSet(s)
    PROVE  /\ Distinct(s \o <<x>>) /\ Distinct(Append(s, x))
           /\ ToSet(s \o <<x>>) = ToSet(s) \cup {x}
           /\ ToSet(Append(s, x)) = ToSet(s) \cup {x}
  <1>1. s \in Seq(Id) /\ \A a, b \in 1..Len(s) : s[a] = s[b] => a = b
    BY DEF Distinct, IsInjective
  <1>2. Append(s, x) = s \o <<x>>
    BY <1>1
  <1> DEFINE r == Append(s, x)
  <1>3. /\ r \in Seq(Id) /\ Len(r) = Len(s) + 1
        /\ \A i \in 1..Len(s) : r[i] = s[i]
        /\ r[Len(s) + 1] = x
    BY <1>1, AppendProperties
  <1>4. \A i \in 1..Len(s) : s[i] # x
    BY <1>1 DEF ToSet
  <1> HIDE DEF r
  <1>5. Distinct(r)
    BY <1>1, <1>3, <1>4 DEF Distinct, IsInjective
  <1>6. ToSet(r) = ToSet(s) \cup {x}
    <2>1. ASSUME NEW y \in ToSet(r)
          PROVE  y \in ToSet(s) \cup {x}
      BY <1>1, <1>3 DEF ToSet
    <2>2. ASSUME NEW y \in ToSet(s) \cup {x}
          PROVE  y \in ToSet(r)
      <3>1. CASE y = x
        BY <3>1, <1>1, <1>3 DEF ToSet
      <3>2. CASE y \in ToSet(s)
        BY <3>2, <1>1, <1>3 DEF ToSet
      <3> QED BY <3>1, <3>2
    <2> QED BY <2>1, <2>2
  <1> QED BY <1>2, <1>5, <1>6 DEF r

\* The front of a distinct sequence lacks its last element only.
LEMMA FrontElements ==
    ASSUME NEW s, Distinct(s), s # <<>>
    PROVE  /\ Last(s) \in Id
           /\ Last(s) \in ToSet(s)
           /\ Distinct(Front(s))
           /\ ToSet(Front(s)) = ToSet(s) \ {Last(s)}
  <1>1. s \in Seq(Id) /\ \A a, b \in 1..Len(s) : s[a] = s[b] => a = b
    BY DEF Distinct, IsInjective
  <1>2. Len(s) \in Nat /\ Len(s) >= 1
    BY <1>1
  <1>3. /\ Front(s) \in Seq(Id) /\ Len(Front(s)) = Len(s) - 1
        /\ \A i \in 1..(Len(s) - 1) : Front(s)[i] = s[i]
    <2>1. \A i \in 1..(Len(s) - 1) : s[i] \in Id
      BY <1>1
    <2>2. /\ SubSeq(s, 1, Len(s) - 1) \in Seq(Id)
          /\ Len(SubSeq(s, 1, Len(s) - 1)) =
                IF 1 <= Len(s) - 1 THEN Len(s) - 1 - 1 + 1 ELSE 0
          /\ \A i \in 1..(Len(s) - 1 - 1 + 1) : SubSeq(s, 1, Len(s) - 1)[i] = s[1 + i - 1]
      BY <2>1, <1>2, SubSeqProperties
    <2>3. /\ Front(s) \in Seq(Id)
          /\ Len(Front(s)) = IF 1 <= Len(s) - 1 THEN Len(s) - 1 - 1 + 1 ELSE 0
          /\ \A i \in 1..(Len(s) - 1 - 1 + 1) : Front(s)[i] = s[1 + i - 1]
      BY <2>2, Zenon DEF Front
    <2>4. Len(Front(s)) = Len(s) - 1
      <3>1. \A n \in Nat : \A m : n >= 1 /\ m = (IF 1 <= n - 1 THEN n - 1 - 1 + 1 ELSE 0)
                              => m = n - 1
        OBVIOUS
      <3> QED BY <3>1, <2>3, <1>2, Zenon
    <2>5. ASSUME NEW i \in 1..(Len(s) - 1)
          PROVE  Front(s)[i] = s[i]
      <3>1. i \in 1..(Len(s) - 1 - 1 + 1) /\ 1 + i - 1 = i
        BY <1>2
      <3> QED BY <3>1, <2>3, Zenon
    <2> QED BY <2>3, <2>4, <2>5
  <1>4. Last(s) = s[Len(s)] /\ Last(s) \in Id /\ Last(s) \in ToSet(s)
    BY <1>1, <1>2 DEF Last, ToSet
  <1>5. Distinct(Front(s))
    BY <1>1, <1>3 DEF Distinct, IsInjective
  <1>6. ASSUME NEW y \in ToSet(Front(s))
        PROVE  y \in ToSet(s) \ {Last(s)}
    <2>1. PICK k \in 1..(Len(s) - 1) : s[k] = y
      BY <1>3 DEF ToSet
    <2>2. k \in 1..Len(s) /\ k # Len(s) /\ Len(s) \in 1..Len(s)
      BY <1>2
    <2> QED BY <2>1, <2>2, <1>1, <1>4 DEF ToSet
  <1>7. ASSUME NEW y \in ToSet(s) \ {Last(s)}
        PROVE  y \in ToSet(Front(s))
    <2>1. PICK k \in 1..Len(s) : s[k] = y
      BY <1>1 DEF ToSet
    <2>2. k \in 1..(Len(s) - 1)
      BY <2>1, <1>2, <1>4
    <2> QED BY <2>1, <2>2, <1>3 DEF ToSet
  <1> QED BY <1>4, <1>5, <1>6, <1>7

-----------------------------------------------------------------------------
(* The tables.                                                             *)

Sound(t) == t \in Tables /\ QueueIsTheMinimized(t) /\ TabsWellFormed(t)

\* Tables that hold nothing are sound.
LEMMA NewTablesSound == Sound(NewTables)
  <1>1. NewTables \in Tables
    BY DEF NewTables, Tables, Mode
  <1>2. QueueIsTheMinimized(NewTables)
    BY DEF NewTables, QueueIsTheMinimized, IsInjective, ToSet
  <1>3. TabsWellFormed(NewTables)
    BY DEF NewTables, TabsWellFormed, GroupsOf
  <1> QED BY <1>1, <1>2, <1>3 DEF Sound

\* The groups alone decide whether they are well formed.
LEMMA SameGroupsSound ==
    ASSUME NEW t, NEW u, TabsWellFormed(t), u.groups = t.groups
    PROVE  TabsWellFormed(u)
  BY DEF TabsWellFormed, GroupsOf

\* set_mode keeps the queue to the minimised ids.
LEMMA SetModeSound ==
    ASSUME NEW t, Sound(t), NEW x \in Id, NEW m \in Mode
    PROVE  Sound(SetMode(t, x, m))
  <1> DEFINE u == SetMode(t, x, m)
             rest == Without(t.order, x)
  <1>1. t \in Tables /\ QueueIsTheMinimized(t) /\ TabsWellFormed(t)
    BY DEF Sound
  <1>2. Distinct(t.order)
    BY <1>1 DEF Tables, QueueIsTheMinimized, Distinct
  <1>3. Distinct(rest) /\ ToSet(rest) = ToSet(t.order) \ {x}
    BY <1>2, WithoutElements
  <1>4. /\ u.mode = [t.mode EXCEPT ![x] = m] /\ u.groups = t.groups
        /\ u.order = rest \o (IF m = "minimized" THEN <<x>> ELSE <<>>)
    BY <1>1 DEF SetMode, Tables
  <1>5. /\ Distinct(u.order)
        /\ ToSet(u.order) = (ToSet(t.order) \ {x}) \cup (IF m = "minimized" THEN {x} ELSE {})
    <2>1. CASE m = "minimized"
      <3>1. u.order = rest \o <<x>>
        BY <1>4, <2>1
      <3>2. x \in Id \ ToSet(rest)
        BY <1>3
      <3>3. Distinct(rest \o <<x>>) /\ ToSet(rest \o <<x>>) = ToSet(rest) \cup {x}
        BY <1>3, <3>2, AppendedElements
      <3> QED BY <3>1, <3>3, <1>3, <2>1
    <2>2. CASE m # "minimized"
      <3>1. u.order = rest
        BY <1>3, <1>4, <2>2, ConcatEmptySeq DEF Distinct
      <3> QED BY <3>1, <1>3, <2>2
    <2> QED BY <2>1, <2>2
  <1>6. u \in Tables
    <2>1. u.order \in Seq(Id) /\ u.mode \in [Id -> Mode] /\ u.groups \in SUBSET Group
      BY <1>1, <1>4, <1>5 DEF Tables, Distinct
    <2> QED BY <1>1, <2>1 DEF Tables, SetMode
  <1>7. QueueIsTheMinimized(u)
    <2>1. \A y \in Id : u.mode[y] = IF y = x THEN m ELSE t.mode[y]
      BY <1>1, <1>4 DEF Tables
    <2>2. ToSet(t.order) = {y \in Id : t.mode[y] = "minimized"}
      BY <1>1 DEF QueueIsTheMinimized
    <2>3. ToSet(u.order) = {y \in Id : u.mode[y] = "minimized"}
      BY <2>1, <2>2, <1>5
    <2> QED BY <2>3, <1>5 DEF QueueIsTheMinimized, Distinct
  <1>8. TabsWellFormed(u)
    BY <1>1, <1>4, SameGroupsSound
  <1> QED BY <1>6, <1>7, <1>8 DEF Sound

\* So do the modes a person asks for.
LEMMA ModesSound ==
    ASSUME NEW t, Sound(t), NEW x \in Id
    PROVE  /\ Sound(ToggleMaximize(t, x))
           /\ Sound(Unmaximize(t, x))
           /\ Sound(Minimize(t, x))
  <1>1. Sound(SetMode(t, x, "normal")) /\ Sound(SetMode(t, x, "maximized"))
        /\ Sound(SetMode(t, x, "minimized"))
    BY SetModeSound DEF Mode
  <1> QED BY <1>1 DEF ToggleMaximize, Unmaximize, Minimize

\* restore_last takes the same id out of the queue and of the minimised.
LEMMA RestoreLastSound ==
    ASSUME NEW t, Sound(t), t.order # <<>>
    PROVE  Sound(RestoreLast(t))
  <1> DEFINE u == RestoreLast(t)
             x == Last(t.order)
  <1>1. t \in Tables /\ QueueIsTheMinimized(t) /\ TabsWellFormed(t)
    BY DEF Sound
  <1>2. Distinct(t.order)
    BY <1>1 DEF Tables, QueueIsTheMinimized, Distinct
  <1>3. /\ x \in Id /\ Distinct(Front(t.order))
        /\ ToSet(Front(t.order)) = ToSet(t.order) \ {x}
    BY <1>2, FrontElements
  <1>4. /\ u.mode = [t.mode EXCEPT ![x] = "normal"] /\ u.groups = t.groups
        /\ u.order = Front(t.order)
    BY <1>1 DEF RestoreLast, Tables
  <1>5. u \in Tables
    <2>1. u.order \in Seq(Id) /\ u.mode \in [Id -> Mode] /\ u.groups \in SUBSET Group
      BY <1>1, <1>3, <1>4 DEF Tables, Distinct, Mode
    <2> QED BY <1>1, <2>1 DEF Tables, RestoreLast
  <1>6. QueueIsTheMinimized(u)
    <2>1. \A y \in Id : u.mode[y] = IF y = x THEN "normal" ELSE t.mode[y]
      BY <1>1, <1>3, <1>4 DEF Tables
    <2>2. ToSet(t.order) = {y \in Id : t.mode[y] = "minimized"}
      BY <1>1 DEF QueueIsTheMinimized
    <2>3. ToSet(u.order) = {y \in Id : u.mode[y] = "minimized"}
      BY <2>1, <2>2, <1>3, <1>4
    <2> QED BY <2>3, <1>3, <1>4 DEF QueueIsTheMinimized, Distinct
  <1>7. TabsWellFormed(u)
    BY <1>1, <1>4, SameGroupsSound
  <1> QED BY <1>5, <1>6, <1>7 DEF Sound

-----------------------------------------------------------------------------
(* The tab groups.                                                         *)

GroupOK(g) ==
    /\ g \in Group
    /\ Distinct(g.members)
    /\ Len(g.members) >= 2
    /\ g.active \in 1..Len(g.members)

\* Sound tables have sound groups, no two of which share an id.
LEMMA SoundGroups ==
    ASSUME NEW t, t \in Tables
    PROVE  TabsWellFormed(t) <=>
              /\ \A g \in t.groups : GroupOK(g)
              /\ \A x \in Id : \A g, h \in t.groups :
                    x \in ToSet(g.members) /\ x \in ToSet(h.members) => g = h
  <1>1. \A g \in t.groups : g \in Group /\ g.members \in Seq(Id)
    BY DEF Tables, Group
  <1> QED BY <1>1 DEF TabsWellFormed, GroupsOf, GroupOK, Distinct

\* A group that keeps two tabs is sound without the one taken out.
LEMMA TakenOutOK ==
    ASSUME NEW g, GroupOK(g), Len(g.members) > 2, NEW x \in ToSet(g.members)
    PROVE  /\ GroupOK(TakenOut(g, x))
           /\ ToSet(TakenOut(g, x).members) = ToSet(g.members) \ {x}
  <1> DEFINE rest == Without(g.members, x)
             p == PositionOf(g.members, x)
             kept == IF p < g.active THEN g.active - 1 ELSE g.active
             act == IF kept > Len(rest) THEN Len(rest) ELSE kept
  <1>1. TakenOut(g, x) = [members |-> rest, active |-> act]
    BY DEF TakenOut
  <1>2. /\ Distinct(g.members) /\ g.members \in Seq(Id)
        /\ g.active \in 1..Len(g.members)
    BY DEF GroupOK, Distinct
  <1>3. /\ Distinct(rest) /\ rest \in Seq(Id)
        /\ ToSet(rest) = ToSet(g.members) \ {x}
        /\ Len(rest) = Len(g.members) - 1
    BY <1>2, WithoutElements DEF Distinct
  <1>4. p \in 1..Len(g.members)
    BY <1>2, PositionFound
  <1> HIDE DEF rest, p
  <1>5. act \in 1..Len(rest) /\ Len(rest) >= 2 /\ act \in Nat
    BY <1>2, <1>3, <1>4
  <1> HIDE DEF act
  <1> QED BY <1>1, <1>3, <1>5 DEF GroupOK, Group

\* What is in the tables after x left them: old groups that do not have x,
\* and the group of x without it.
LEMMA LeaveGroups ==
    ASSUME NEW t, Sound(t), NEW x \in Id, NEW k \in Leave(t, x).groups
    PROVE  /\ GroupOK(k)
           /\ x \notin ToSet(k.members)
           /\ \E g \in t.groups :
                 /\ ToSet(k.members) \subseteq ToSet(g.members)
                 /\ \/ x \notin ToSet(g.members) /\ k = g
                    \/ x \in ToSet(g.members) /\ k = TakenOut(g, x)
  <1>1. t \in Tables /\ \A g \in t.groups : GroupOK(g)
    BY SoundGroups DEF Sound
  <1>2. Leave(t, x).groups = (t.groups \ GroupsOf(t, x))
                \cup {TakenOut(g, x) : g \in {h \in GroupsOf(t, x) : Len(h.members) > 2}}
    BY <1>1 DEF Leave, Tables
  <1>3. CASE k \in t.groups \ GroupsOf(t, x)
    BY <1>1, <1>3 DEF GroupsOf
  <1>4. CASE k \in {TakenOut(g, x) : g \in {h \in GroupsOf(t, x) : Len(h.members) > 2}}
    <2>1. PICK g \in t.groups : /\ x \in ToSet(g.members)
                                /\ Len(g.members) > 2
                                /\ k = TakenOut(g, x)
      BY <1>4 DEF GroupsOf
    <2>2. GroupOK(k) /\ ToSet(k.members) = ToSet(g.members) \ {x}
      BY <2>1, <1>1, TakenOutOK
    <2> QED BY <2>1, <2>2
  <1> QED BY <1>2, <1>3, <1>4

\* The rest of the tables is as it was.
LEMMA LeaveFields ==
    ASSUME NEW t, Sound(t), NEW x \in Id
    PROVE  /\ Leave(t, x) \in Tables
           /\ Leave(t, x).mode = t.mode
           /\ Leave(t, x).order = t.order
  <1>1. t \in Tables
    BY DEF Sound
  <1>2. Leave(t, x).mode = t.mode /\ Leave(t, x).order = t.order
    BY <1>1 DEF Leave, Tables
  <1>3. \A k \in Leave(t, x).groups : k \in Group
    BY LeaveGroups DEF GroupOK
  <1> DEFINE G == Leave(t, x).groups
  <1>4. G \in SUBSET Group
    BY <1>3
  <1>5. Leave(t, x) = [t EXCEPT !.groups = G]
    BY <1>1 DEF Leave, Tables
  <1> HIDE DEF G
  <1>6. [t EXCEPT !.groups = G] \in Tables
    BY <1>1, <1>4 DEF Tables
  <1> QED BY <1>2, <1>5, <1>6

\* leave keeps the groups sound: nobody is left alone in one.
LEMMA LeaveSound ==
    ASSUME NEW t, Sound(t), NEW x \in Id
    PROVE  Sound(Leave(t, x))
  <1> DEFINE u == Leave(t, x)
  <1>1. u \in Tables /\ u.mode = t.mode /\ u.order = t.order
    BY LeaveFields
  <1>2. QueueIsTheMinimized(u)
    BY <1>1 DEF Sound, QueueIsTheMinimized
  <1>3. /\ t \in Tables
        /\ \A y \in Id : \A g, h \in t.groups :
              y \in ToSet(g.members) /\ y \in ToSet(h.members) => g = h
    BY SoundGroups DEF Sound
  <1>4. \A k \in u.groups : GroupOK(k)
    BY LeaveGroups
  <1>5. ASSUME NEW y \in Id, NEW k \in u.groups, NEW l \in u.groups,
               y \in ToSet(k.members), y \in ToSet(l.members)
        PROVE  k = l
    <2>1. PICK g \in t.groups : /\ ToSet(k.members) \subseteq ToSet(g.members)
                                /\ \/ x \notin ToSet(g.members) /\ k = g
                                   \/ x \in ToSet(g.members) /\ k = TakenOut(g, x)
      BY LeaveGroups
    <2>2. PICK h \in t.groups : /\ ToSet(l.members) \subseteq ToSet(h.members)
                                /\ \/ x \notin ToSet(h.members) /\ l = h
                                   \/ x \in ToSet(h.members) /\ l = TakenOut(h, x)
      BY LeaveGroups
    <2>3. g = h
      BY <2>1, <2>2, <1>3, <1>5
    <2> QED BY <2>1, <2>2, <2>3
  <1> HIDE DEF u
  <1>6. TabsWellFormed(u)
    BY <1>1, <1>4, <1>5, SoundGroups
  <1> QED BY <1>1, <1>2, <1>6 DEF Sound, u

\* Replacing the group of an id by one sound group, which gains at most an id
\* that had no group, keeps the tables sound.
LEMMA ReplacedSound ==
    ASSUME NEW u, Sound(u), NEW host \in Id, NEW k, GroupOK(k),
           NEW x \in Id, GroupsOf(u, x) \subseteq GroupsOf(u, host),
           \A y \in ToSet(k.members) : \/ y = host \/ y = x
                                       \/ \E g \in GroupsOf(u, host) : y \in ToSet(g.members)
    PROVE  Sound([u EXCEPT !.groups = (u.groups \ GroupsOf(u, host)) \cup {k}])
  <1> DEFINE G == (u.groups \ GroupsOf(u, host)) \cup {k}
             v == [u EXCEPT !.groups = G]
  <1>1. /\ u \in Tables /\ QueueIsTheMinimized(u)
        /\ \A g \in u.groups : GroupOK(g)
        /\ \A y \in Id : \A g, h \in u.groups :
              y \in ToSet(g.members) /\ y \in ToSet(h.members) => g = h
    BY SoundGroups DEF Sound
  <1>2. \A g \in G : GroupOK(g)
    BY <1>1
  <1>3. v \in Tables /\ v.mode = u.mode /\ v.order = u.order /\ v.groups = G
    <2>1. G \in SUBSET Group
      BY <1>2 DEF GroupOK
    <2> QED BY <1>1, <2>1 DEF Tables
  <1>4. QueueIsTheMinimized(v)
    BY <1>1, <1>3 DEF QueueIsTheMinimized
  <1>5. ASSUME NEW g \in G, g # k, NEW y \in ToSet(g.members) \cap ToSet(k.members)
        PROVE  FALSE
    <2>1. g \in u.groups /\ host \notin ToSet(g.members)
      BY <1>5 DEF GroupsOf
    <2>2. x \notin ToSet(g.members)
      BY <2>1 DEF GroupsOf
    <2>3. PICK h \in GroupsOf(u, host) : y \in ToSet(h.members)
      BY <2>1, <2>2
    <2>4. y \in Id
      BY <1>2, <1>5 DEF GroupOK, Distinct, ToSet
    <2> QED BY <2>1, <2>3, <2>4, <1>1 DEF GroupsOf
  <1>6. ASSUME NEW y \in Id, NEW g \in G, NEW h \in G,
               y \in ToSet(g.members), y \in ToSet(h.members)
        PROVE  g = h
    BY <1>1, <1>5, <1>6
  <1> HIDE DEF v
  <1>7. TabsWellFormed(v)
    BY <1>2, <1>3, <1>6, SoundGroups
  <1> QED BY <1>3, <1>4, <1>7 DEF Sound, v

\* join does too, when the host is another id.
LEMMA JoinSound ==
    ASSUME NEW t, Sound(t), NEW x \in Id, NEW host \in Id, x # host
    PROVE  Sound(Join(t, x, host))
  <1> DEFINE u == Leave(t, x)
  <1>1. Sound(u) /\ GroupsOf(u, x) = {}
    BY LeaveSound, LeaveGroups DEF GroupsOf
  <1> HIDE DEF u
  <1>2. CASE GroupsOf(u, host) = {}
    <2> DEFINE k == [members |-> <<host, x>>, active |-> 2]
    <2>1. GroupOK(k)
      BY DEF GroupOK, Group, Distinct, IsInjective
    <2>2. ToSet(k.members) = {host, x}
      BY DEF ToSet
    <2>3. Join(t, x, host) = [u EXCEPT !.groups = u.groups \cup {k}]
      BY <1>2 DEF Join, u
    <2>4. u.groups \cup {k} = (u.groups \ GroupsOf(u, host)) \cup {k}
      BY <1>2
    <2> HIDE DEF k
    <2>5. GroupsOf(u, x) \subseteq GroupsOf(u, host)
      BY <1>1
    <2>6. Sound([u EXCEPT !.groups = (u.groups \ GroupsOf(u, host)) \cup {k}])
      BY <1>1, <2>1, <2>2, <2>5, ReplacedSound
    <2> QED BY <2>3, <2>4, <2>6
  <1>3. CASE GroupsOf(u, host) # {}
    <2>1. PICK g \in u.groups : GroupsOf(u, host) = {g} /\ host \in ToSet(g.members)
      <3>1. \A g, h \in GroupsOf(u, host) : g = h
        BY <1>1 DEF Sound, TabsWellFormed
      <3> QED BY <1>3, <3>1 DEF GroupsOf
    <2>2. GroupOK(g)
      BY <1>1, SoundGroups DEF Sound
    <2>3. g.members \in Seq(Id) /\ x \in Id \ ToSet(g.members)
      BY <1>1, <2>2 DEF GroupOK, Distinct, GroupsOf
    <2>4. /\ Distinct(Append(g.members, x))
          /\ ToSet(Append(g.members, x)) = ToSet(g.members) \cup {x}
          /\ Len(Append(g.members, x)) = Len(g.members) + 1
      <3>1. Distinct(g.members)
        BY <2>2 DEF GroupOK
      <3>2. Len(Append(g.members, x)) = Len(g.members) + 1
        BY <2>3, AppendProperties
      <3>3. /\ Distinct(Append(g.members, x))
            /\ ToSet(Append(g.members, x)) = ToSet(g.members) \cup {x}
        BY <3>1, <2>3, AppendedElements
      <3> QED BY <3>2, <3>3
    <2>5. GroupOK(Joined(g, x)) /\ ToSet(Joined(g, x).members) = ToSet(g.members) \cup {x}
      BY <2>2, <2>3, <2>4 DEF GroupOK, Group, Joined, Distinct
    <2>6. Join(t, x, host) =
             [u EXCEPT !.groups = (u.groups \ GroupsOf(u, host)) \cup {Joined(g, x)}]
      BY <1>3, <2>1 DEF Join, u
    <2> DEFINE k == Joined(g, x)
    <2> HIDE DEF k
    <2>7. /\ GroupsOf(u, x) \subseteq GroupsOf(u, host)
          /\ \A y \in ToSet(k.members) :
                \/ y = host \/ y = x
                \/ \E h \in GroupsOf(u, host) : y \in ToSet(h.members)
      BY <1>1, <2>1, <2>5 DEF k
    <2>8. GroupOK(k)
      BY <2>5 DEF k
    <2>9. Sound([u EXCEPT !.groups = (u.groups \ GroupsOf(u, host)) \cup {k}])
      BY <1>1, <2>7, <2>8, ReplacedSound
    <2> QED BY <2>6, <2>9 DEF k
  <1> QED BY <1>2, <1>3

\* Turning a group shows one of its tabs, around either end.
LEMMA TurnedOK ==
    ASSUME NEW g, GroupOK(g), NEW forward \in BOOLEAN
    PROVE  GroupOK(Turned(g, forward)) /\ Turned(g, forward).members = g.members
  <1> DEFINE n == Len(g.members)
             a == 1 + (IF forward THEN g.active % n ELSE (g.active + n - 2) % n)
  <1>1. g \in Group /\ n \in Nat /\ n >= 2 /\ g.active \in 1..n /\ n \in Int
    BY DEF GroupOK, Distinct
  <1> HIDE DEF n
  <1>2. a \in 1..n /\ a \in Nat
    <2>1. \A m \in Nat : m % n \in 0..(n - 1)
      BY <1>1
    <2>2. g.active \in Nat /\ g.active + n - 2 \in Nat
      BY <1>1
    <2>3. g.active % n \in 0..(n - 1) /\ (g.active + n - 2) % n \in 0..(n - 1)
      BY <2>1, <2>2
    <2> QED BY <2>3, <1>1
  <1>3. Turned(g, forward) = [g EXCEPT !.active = a]
    BY DEF Turned, n
  <1> HIDE DEF a
  <1> QED BY <1>1, <1>2, <1>3 DEF GroupOK, Group, n

\* cycle keeps the tables sound.
LEMMA CycleSound ==
    ASSUME NEW t, Sound(t), NEW x \in Id, GroupsOf(t, x) # {}, NEW forward \in BOOLEAN
    PROVE  Sound(Cycle(t, x, forward))
  <1>1. PICK g \in t.groups : GroupsOf(t, x) = {g} /\ x \in ToSet(g.members)
    <2>1. \A g, h \in GroupsOf(t, x) : g = h
      BY DEF Sound, TabsWellFormed
    <2> QED BY <2>1 DEF GroupsOf
  <1>2. GroupOK(Turned(g, forward)) /\ Turned(g, forward).members = g.members
    BY TurnedOK, SoundGroups DEF Sound
  <1>3. Cycle(t, x, forward) =
           [t EXCEPT !.groups = (t.groups \ GroupsOf(t, x)) \cup {Turned(g, forward)}]
    BY <1>1 DEF Cycle
  <1> QED BY <1>1, <1>2, <1>3, ReplacedSound

\* Taking an id out of the queue and of the modes is setting it to normal.
LEMMA ForgetSound ==
    ASSUME NEW t, Sound(t), NEW x \in Id
    PROVE  Sound(Forget(t, x))
  <1> DEFINE u == Leave(t, x)
             v == SetMode(u, x, "normal")
  <1>1. Sound(u) /\ u \in Tables
    BY LeaveSound DEF Sound
  <1>2. Sound(v)
    BY <1>1, SetModeSound DEF Mode
  <1> HIDE DEF u
  <1>3. Distinct(Without(u.order, x))
    <2>1. Distinct(u.order)
      BY <1>1 DEF Sound, Tables, QueueIsTheMinimized, Distinct
    <2> QED BY <2>1, WithoutElements
  <1>4. Without(u.order, x) \o <<>> = Without(u.order, x)
    BY <1>3, ConcatEmptySeq DEF Distinct
  <1>5. v = [u EXCEPT !.mode[x] = "normal", !.order = Without(u.order, x)]
    BY <1>4 DEF SetMode
  <1>6. Forget(t, x) = v
    BY <1>5 DEF Forget, u
  <1> QED BY <1>2, <1>6

-----------------------------------------------------------------------------
(* The desk.                                                               *)

\* The inductive invariant.  SealedKeyboard needs to know that the lock
\* surfaces are lock surfaces, ShownIsOnScreen that the tree holds windows that
\* exist, and the tables that the keyboard is never on an unknown surface.
DeskInv ==
    /\ DeskTypeOK
    /\ Sound(windows)
    /\ SealedKeyboard
    /\ ShownIsOnScreen

\* A layout leaves a well typed desk, with what is not hidden on the screen.
LEMMA LayoutShows ==
    ASSUME NEW tr, NEW sp, ApplyLayout(tr, sp), roster' \subseteq Window,
           tr \subseteq roster', sp \subseteq Window
    PROVE  tree' \subseteq roster' /\ space' \subseteq Window /\ ShownIsOnScreen'
  BY DEF ApplyLayout, ShownIsOnScreen, Laid

Somebody == Id \cup {NoOne}

\* Focus moves among surfaces, and not at all behind the lock.
LEMMA FocusMoves ==
    ASSUME NEW f \in Somebody, NEW p \in Somebody
    PROVE  /\ \A x \in Id : FocusWindow(x, f, p) =>
                 focus' \in Somebody /\ previous' \in Somebody /\ (shut' => focus' = f)
           /\ KeepFocus(f, p) =>
                 focus' \in Somebody /\ previous' \in Somebody /\ focus' = f
  BY DEF FocusWindow, KeepFocus, Somebody

\* So does the search for a window to focus.
LEMMA FocusFindsSomebody ==
    ASSUME NEW sp, sp \subseteq Id, NEW f \in Somebody, NEW p \in Somebody,
           FocusAnyVisible(sp, f, p)
    PROVE  focus' \in Somebody /\ previous' \in Somebody /\ (shut' => focus' = f)
  BY FocusMoves DEF FocusAnyVisible

\* And the deeds that focus a window by its id.
LEMMA SurfaceFocused ==
    ASSUME NEW x \in Id, focus \in Somebody, previous \in Somebody, FocusSurface(x)
    PROVE  focus' \in Somebody /\ previous' \in Somebody /\ (shut' => focus' = focus)
  BY FocusMoves DEF FocusSurface

\* The invariant, part by part.
DeskParts ==
    /\ roster \subseteq Window /\ space \subseteq Window /\ tree \subseteq roster
    /\ floating \in Layouts
    /\ Sound(windows)
    /\ focus \in Somebody /\ previous \in Somebody
    /\ grab \in Window \cup {NoOne}
    /\ layers \subseteq Layer /\ exclusive \subseteq layers
    /\ shut \in BOOLEAN /\ screens \subseteq Screen
    /\ shut => focus \in Screen \cup {NoOne}
    /\ ShownIsOnScreen

\* The invariant is its parts.
LEMMA InvIsItsParts == DeskInv <=> DeskParts
  BY DEF DeskInv, DeskParts, DeskTypeOK, SealedKeyboard, Somebody, Sound

-----------------------------------------------------------------------------
(* The steps.                                                              *)

\* Windows that come and go keep the invariant.
LEMMA WindowStepsInv ==
    ASSUME DeskParts, WindowSteps
    PROVE  DeskParts'
  <1> USE DeskAssumption
  <1>1. ASSUME NEW w \in Window, NewToplevel(w)
        PROVE  DeskParts'
    <2>1. /\ roster' \subseteq Window /\ tree \cup {w} \subseteq roster'
          /\ space \cup {w} \subseteq Window
      BY <1>1 DEF NewToplevel, DeskParts
    <2>2. tree' \subseteq roster' /\ space' \subseteq Window /\ ShownIsOnScreen'
      BY <1>1, <2>1, LayoutShows DEF NewToplevel
    <2> QED BY <1>1, <2>1, <2>2 DEF NewToplevel, DeskParts, KeepFocus, Somebody, layerVars, lockVars
  <1>2. ASSUME NEW w \in Window, ToplevelDestroyed(w)
        PROVE  DeskParts'
    <2>1. /\ roster' \subseteq Window /\ tree \ {w} \subseteq roster'
          /\ space \ {w} \subseteq Window
      BY <1>2 DEF ToplevelDestroyed, DeskParts
    <2>2. tree' \subseteq roster' /\ space' \subseteq Window /\ ShownIsOnScreen'
      BY <1>2, <2>1, LayoutShows DEF ToplevelDestroyed
    <2>3. Sound(windows')
      BY <1>2, ForgetSound DEF ToplevelDestroyed, DeskParts
    <2>4. focus' \in Somebody /\ previous' \in Somebody /\ (shut' => focus' = focus)
      <3>1. space' \subseteq Id /\ focus \in Somebody
            /\ (IF previous = w THEN NoOne ELSE previous) \in Somebody
        BY <2>2 DEF DeskParts, Somebody
      <3> QED BY <1>2, <3>1, FocusFindsSomebody DEF ToplevelDestroyed
    <2> QED BY <1>2, <2>1, <2>2, <2>3, <2>4 DEF ToplevelDestroyed, DeskParts, layerVars, lockVars
  <1>3. CASE Refresh
    BY <1>3 DEF Refresh, DeskParts, ShownIsOnScreen, Laid, layerVars, lockVars
  <1>4. CASE AdoptConfig
    <2>1. tree' \subseteq roster' /\ space' \subseteq Window /\ ShownIsOnScreen'
      BY <1>4, LayoutShows DEF AdoptConfig, DeskParts
    <2> QED BY <1>4, <2>1 DEF AdoptConfig, DeskParts, layerVars, lockVars
  <1> QED BY <1>1, <1>2, <1>3, <1>4 DEF WindowSteps

\* A deed that changes the tables soundly, moves the keyboard as focus may move
\* and lays the desk out keeps the invariant.
LEMMA DeedInv ==
    ASSUME DeskParts, Sound(windows'), ApplyLayout(tree, space),
           UNCHANGED <<roster, floating, grab, layerVars, lockVars>>,
           focus' \in Somebody, previous' \in Somebody, shut' => focus' = focus
    PROVE  DeskParts'
  <1>1. tree' \subseteq roster' /\ space' \subseteq Window /\ ShownIsOnScreen'
    BY LayoutShows DEF DeskParts
  <1> QED BY <1>1 DEF DeskParts, layerVars, lockVars

\* Maximising, by a chord or a titlebar, keeps the invariant.
LEMMA ToggleMaximizedInv ==
    ASSUME DeskParts, NEW f \in Somebody, ToggleMaximized(f), shut => f = focus
    PROVE  DeskParts'
  <1>1. Sound(windows')
    BY ModesSound DEF ToggleMaximized, DeskParts, Somebody
  <1>2. focus' = f /\ previous' = previous
    BY DEF ToggleMaximized, KeepFocus
  <1> QED BY <1>1, <1>2, DeedInv DEF ToggleMaximized, DeskParts, lockVars

\* So does minimising, which hands the keyboard on.
LEMMA MinimizedInv ==
    ASSUME DeskParts, NEW f \in Somebody, Minimized(f), shut => f = focus
    PROVE  DeskParts'
  <1>1. Sound(windows')
    BY ModesSound DEF Minimized, DeskParts, Somebody
  <1>2. focus' \in Somebody /\ previous' \in Somebody /\ (shut' => focus' = f)
    <2>1. space \subseteq Id /\ previous \in Somebody
      BY DeskAssumption DEF DeskParts
    <2> QED BY <2>1, FocusFindsSomebody DEF Minimized
  <1> QED BY <1>1, <1>2, DeedInv DEF Minimized, DeskParts, lockVars

\* Every deed keeps the invariant, in the open or behind the lock.
LEMMA PerformInv ==
    ASSUME DeskParts, Perform
    PROVE  DeskParts'
  <1> USE DeskAssumption
  <1>0. focus \in Somebody /\ previous \in Somebody /\ Sound(windows)
    BY DEF DeskParts
  <1>1. CASE ToggleMaximized(focus)
    BY <1>0, <1>1, ToggleMaximizedInv
  <1>2. CASE Minimized(focus)
    BY <1>0, <1>2, MinimizedInv
  <1>3. CASE Restored
    <2>1. Sound(windows')
      BY <1>0, <1>3, RestoreLastSound DEF Restored
    <2>2. Last(windows.order) \in Id
      <3>1. Distinct(windows.order)
        BY <1>0 DEF Sound, Tables, QueueIsTheMinimized, Distinct
      <3> QED BY <3>1, <1>3, FrontElements DEF Restored
    <2>3. focus' \in Somebody /\ previous' \in Somebody /\ (shut' => focus' = focus)
      BY <1>0, <1>3, <2>2, SurfaceFocused DEF Restored
    <2> QED BY <1>3, <2>1, <2>3, DeedInv DEF Restored
  <1>4. ASSUME NEW forward \in BOOLEAN, Cycled(forward)
        PROVE  DeskParts'
    <2>1. focus \in Id
      <3>1. \A g \in windows.groups : g.members \in Seq(Id)
        BY <1>0 DEF Sound, Tables, Group
      <3> QED BY <1>4, <3>1 DEF Cycled, GroupsOf, ToSet
    <2>2. Sound(windows')
      BY <1>0, <1>4, <2>1, CycleSound DEF Cycled
    <2>3. \A g \in windows'.groups : ShownTab(g) \in Id
      BY <2>2, SoundGroups DEF Sound, GroupOK, Distinct, ShownTab
    <2>4. PICK g \in GroupsOf(windows', focus) : FocusSurface(ShownTab(g))
      BY <1>4 DEF Cycled
    <2>5. ShownTab(g) \in Id
      BY <2>3, <2>4 DEF GroupsOf
    <2>6. focus' \in Somebody /\ previous' \in Somebody /\ (shut' => focus' = focus)
      BY <1>0, <2>4, <2>5, SurfaceFocused
    <2> QED BY <1>4, <2>2, <2>6, DeedInv DEF Cycled
  <1>5. CASE TabJoined
    <2>1. Sound(windows')
      BY <1>0, <1>5, JoinSound DEF TabJoined, Somebody
    <2> QED BY <1>0, <1>5, <2>1, DeedInv DEF TabJoined
  <1>6. CASE TabLeft
    <2>1. focus \in Id
      <3>1. \A g \in windows.groups : g.members \in Seq(Id)
        BY <1>0 DEF Sound, Tables, Group
      <3> QED BY <1>6, <3>1 DEF TabLeft, GroupsOf, ToSet
    <2>2. Sound(windows')
      BY <1>0, <1>6, <2>1, LeaveSound DEF TabLeft
    <2> QED BY <1>0, <1>6, <2>2, DeedInv DEF TabLeft
  <1>7. CASE FocusDirection
    <2>1. PICK x \in IF floating THEN space \ {focus} ELSE tree : FocusWindow(x, focus, previous)
      BY <1>7 DEF FocusDirection
    <2>2. x \in Id
      BY <2>1 DEF DeskParts
    <2>3. focus' \in Somebody /\ previous' \in Somebody /\ (shut' => focus' = focus)
      BY <1>0, <2>1, <2>2, FocusMoves
    <2> QED BY <1>7, <2>3 DEF FocusDirection, DeskParts, ShownIsOnScreen, Laid, layerVars, lockVars
  <1>8. CASE Resized
    <2>1. Sound(windows')
      BY <1>0, <1>8, ModesSound DEF Resized, DeskParts
    <2> QED BY <1>0, <1>8, <2>1, DeedInv DEF Resized
  <1> QED BY <1>1, <1>2, <1>3, <1>4, <1>5, <1>6, <1>7, <1>8 DEF Perform

\* Unmaximising a window hides and shows nothing.
LEMMA UnmaximizeHidesNothing ==
    ASSUME NEW t, t \in Tables, NEW x \in Id, NEW y \in Id
    PROVE  Hidden(Unmaximize(t, x), y) <=> Hidden(t, y)
  <1>1. CASE t.mode[x] = "maximized"
    <2>1. Unmaximize(t, x) = SetMode(t, x, "normal")
      BY <1>1 DEF Unmaximize
    <2>2. /\ SetMode(t, x, "normal").mode = [t.mode EXCEPT ![x] = "normal"]
          /\ SetMode(t, x, "normal").groups = t.groups
      BY DEF SetMode, Tables
    <2>3. (SetMode(t, x, "normal").mode)[y] = "minimized" <=> t.mode[y] = "minimized"
      BY <1>1, <2>2 DEF Tables
    <2> QED BY <2>1, <2>2, <2>3 DEF Hidden, GroupsOf
  <1>2. CASE t.mode[x] # "maximized"
    BY <1>2 DEF Unmaximize
  <1> QED BY <1>1, <1>2

\* The pointer keeps the invariant: it means nothing behind the lock.
LEMMA PointerStepsInv ==
    ASSUME DeskParts, PointerSteps
    PROVE  DeskParts'
  <1> USE DeskAssumption
  <1>0. /\ focus \in Somebody /\ previous \in Somebody /\ Sound(windows)
        /\ Window \subseteq Somebody
    BY DEF DeskParts, Somebody
  <1>1. ASSUME NEW w \in Window, Click(w)
        PROVE  DeskParts'
    BY <1>0, <1>1 DEF Click, PressCounts, DeskParts, ShownIsOnScreen, Laid, layerVars, lockVars
  <1>2. ASSUME NEW w \in Window, PressTitlebar(w)
        PROVE  DeskParts'
    BY <1>0, <1>2, MinimizedInv, ToggleMaximizedInv DEF PressTitlebar, PressCounts
  <1>3. ASSUME NEW w \in Window, BeginDrag(w)
        PROVE  DeskParts'
    BY <1>0, <1>3 DEF BeginDrag, PressCounts, DeskParts, ShownIsOnScreen, Laid, layerVars, lockVars
  <1>4. ASSUME NEW w \in Window, RequestDrag(w)
        PROVE  DeskParts'
    BY <1>0, <1>4 DEF RequestDrag, DeskParts, ShownIsOnScreen, Laid, layerVars, lockVars
  <1>5. CASE ClickBackground
    BY <1>5 DEF ClickBackground, PressCounts, DeskParts, ShownIsOnScreen, Laid, layerVars, lockVars,
                Somebody
  <1>6. CASE DragMotion
    <2>1. grab \in Window
      BY <1>6 DEF DragMotion, DeskParts
    <2>2. Sound(windows')
      BY <1>0, <1>6, <2>1, ModesSound DEF DragMotion
    <2>3. \A y \in Id : Hidden(windows', y) <=> Hidden(windows, y)
      BY <1>0, <1>6, <2>1, UnmaximizeHidesNothing DEF DragMotion, Sound
    <2>4. tree' \subseteq roster' /\ space' \subseteq Window /\ ShownIsOnScreen'
      <3>1. roster \subseteq Id /\ tree \subseteq roster /\ space \subseteq Window
        BY DEF DeskParts
      <3>2. CASE UNCHANGED tree /\ space' = space \cup {grab}
        BY <1>6, <2>1, <2>3, <3>1, <3>2 DEF DragMotion, DeskParts, ShownIsOnScreen, Laid
      <3>3. CASE ~(UNCHANGED tree /\ space' = space \cup {grab})
        BY <1>6, <2>1, <3>1, <3>3 DEF DragMotion, DeskParts, ShownIsOnScreen, Laid
      <3> QED BY <3>2, <3>3
    <2> QED BY <1>6, <2>2, <2>4 DEF DragMotion, DeskParts, layerVars, lockVars
  <1>7. CASE EndDrag
    <2>1. CASE UNCHANGED <<space, tree>>
      BY <1>7, <2>1 DEF EndDrag, DeskParts, ShownIsOnScreen, Laid, layerVars, lockVars
    <2>2. CASE ApplyLayout(tree, space)
      <3>1. tree' \subseteq roster' /\ space' \subseteq Window /\ ShownIsOnScreen'
        BY <1>7, <2>2, LayoutShows DEF EndDrag, DeskParts
      <3> QED BY <1>7, <3>1 DEF EndDrag, DeskParts, layerVars, lockVars
    <2> QED BY <1>7, <2>1, <2>2 DEF EndDrag
  <1> QED BY <1>1, <1>2, <1>3, <1>4, <1>5, <1>6, <1>7 DEF PointerSteps

\* Layers keep it: one that wants the keyboard waits for the session to open.
LEMMA LayerStepsInv ==
    ASSUME DeskParts, LayerSteps
    PROVE  DeskParts'
  <1> USE DeskAssumption
  <1>1. ASSUME NEW l \in Layer, NewLayer(l)
        PROVE  DeskParts'
    <2>1. tree' \subseteq roster' /\ space' \subseteq Window /\ ShownIsOnScreen'
      BY <1>1, LayoutShows DEF NewLayer, DeskParts
    <2> QED BY <1>1, <2>1 DEF NewLayer, DeskParts, lockVars
  <1>2. ASSUME NEW l \in Layer, CommitLayer(l)
        PROVE  DeskParts'
    <2>1. exclusive' \subseteq layers' /\ layers' \subseteq Layer
      BY <1>2 DEF CommitLayer, DeskParts
    <2>2. focus' \in Somebody /\ (shut => focus' = focus)
      BY <1>2, <2>1 DEF CommitLayer, DeskParts, Somebody
    <2> QED BY <1>2, <2>1, <2>2 DEF CommitLayer, DeskParts, ShownIsOnScreen, Laid, lockVars
  <1>3. ASSUME NEW l \in Layer, LayerDestroyed(l)
        PROVE  DeskParts'
    <2>1. tree' \subseteq roster' /\ space' \subseteq Window /\ ShownIsOnScreen'
      BY <1>3, LayoutShows DEF LayerDestroyed, DeskParts
    <2> QED BY <1>3, <2>1 DEF LayerDestroyed, DeskParts, lockVars
  <1> QED BY <1>1, <1>2, <1>3 DEF LayerSteps

\* What the lock does to the desk keeps it.
LEMMA LockStepsInv ==
    ASSUME DeskParts, LockSteps
    PROVE  DeskParts'
  <1> USE DeskAssumption DEF DeskParts, ShownIsOnScreen, Laid, layerVars, lockVars, Somebody
  <1>1. CASE SessionShut
    BY <1>1 DEF SessionShut
  <1>2. ASSUME NEW k \in Screen, GetLockSurface(k)
        PROVE  DeskParts'
    BY <1>2 DEF GetLockSurface
  <1>3. CASE LockSurfaceCommitted
    BY <1>3 DEF LockSurfaceCommitted
  <1>4. CASE LockSurfaceDestroyed
    BY <1>4 DEF LockSurfaceDestroyed
  <1>5. CASE HolderGone
    BY <1>5 DEF HolderGone
  <1>6. CASE SessionOpened
    <2>1. space \subseteq Id /\ focus \in Somebody /\ previous \in Somebody
      OBVIOUS
    <2>2. focus' \in Somebody /\ previous' \in Somebody
      BY <1>6, <2>1, FocusFindsSomebody DEF SessionOpened
    <2> QED BY <1>6, <2>2 DEF SessionOpened
  <1> QED BY <1>1, <1>2, <1>3, <1>4, <1>5, <1>6 DEF LockSteps

-----------------------------------------------------------------------------
(* The theorems.                                                           *)

\* Every step keeps the invariant.
LEMMA DeskStep == DeskInv /\ [DeskNext]_deskVars => DeskInv'
  <1> SUFFICES ASSUME DeskInv, [DeskNext]_deskVars
               PROVE  DeskInv'
    OBVIOUS
  <1>1. DeskParts
    BY InvIsItsParts
  <1>2. CASE UNCHANGED deskVars
    BY <1>2 DEF deskVars, layerVars, lockVars, DeskInv, DeskTypeOK, SealedKeyboard,
                ShownIsOnScreen, Laid
  <1>3. CASE DeskNext
    <2>1. DeskParts'
      BY <1>1, <1>3, WindowStepsInv, PerformInv, PointerStepsInv, LayerStepsInv, LockStepsInv
         DEF DeskNext
    <2>2. (DeskInv <=> DeskParts)'
      BY InvIsItsParts, PTL
    <2> QED BY <2>1, <2>2
  <1> QED BY <1>2, <1>3

\* The invariant holds at every state of every desk.
THEOREM DeskInvariant == DeskSpec => []DeskInv
  <1>1. DeskInit => DeskInv
    <2> SUFFICES ASSUME DeskInit
                 PROVE  DeskParts
      BY InvIsItsParts
    <2> QED BY NewTablesSound DEF DeskInit, DeskParts, ShownIsOnScreen, Laid, Somebody
  <1> QED BY <1>1, DeskStep, PTL DEF DeskSpec

\* Every variable has its type.
THEOREM DeskTyped == DeskSpec => []DeskTypeOK
  <1>1. DeskInv => DeskTypeOK
    BY DEF DeskInv
  <1> QED BY <1>1, DeskInvariant, PTL

\* Behind the lock the keyboard is on a surface of a lock client or on nothing,
\* whatever windows, layers and deeds come and go.
THEOREM KeyboardIsSealed == DeskSpec => []SealedKeyboard
  <1>1. DeskInv => SealedKeyboard
    BY DEF DeskInv
  <1> QED BY <1>1, DeskInvariant, PTL

\* A window the layout lays out and the tables do not hide is on the screen.
THEOREM WhatShowsIsOnScreen == DeskSpec => []ShownIsOnScreen
  <1>1. DeskInv => ShownIsOnScreen
    BY DEF DeskInv
  <1> QED BY <1>1, DeskInvariant, PTL

\* Tab groups never hold one tab, the same tab twice or the tab of another.
THEOREM TabGroupsAlwaysHold == DeskSpec => []TabGroupsHold
  <1>1. DeskInv => TabGroupsHold
    BY DEF DeskInv, Sound, TabGroupsHold
  <1> QED BY <1>1, DeskInvariant, PTL

\* What is minimised can be restored, and nothing else can.
THEOREM RestoreQueueAlwaysHolds == DeskSpec => []RestoreQueueHolds
  <1>1. DeskInv => RestoreQueueHolds
    BY DEF DeskInv, Sound, RestoreQueueHolds
  <1> QED BY <1>1, DeskInvariant, PTL

\* Tabs, restore queue and screen agree after any run of deeds and clients.
THEOREM WindowsAlwaysHold == DeskSpec => []WindowsHold
  <1>1. TabGroupsHold /\ RestoreQueueHolds /\ ShownIsOnScreen => WindowsHold
    BY DEF WindowsHold
  <1> QED BY <1>1, TabGroupsAlwaysHold, RestoreQueueAlwaysHolds, WhatShowsIsOnScreen, PTL


-----------------------------------------------------------------------------
(* The pages of the tabs, and the length of the restore queue.             *)

\* No group of u that is what is left of one of t shows another tab.
PagesStay(t, u) ==
    \A g \in t.groups, h \in u.groups :
        /\ ToSet(h.members) \subseteq ToSet(g.members)
        /\ Len(h.members) < Len(g.members)
        /\ ShownTab(g) \in ToSet(h.members)
        => ShownTab(h) = ShownTab(g)

\* A group within another is that one, when they come from the same tables.
LEMMA WithinIsSame ==
    ASSUME NEW t, Sound(t), NEW g \in t.groups, NEW h, GroupOK(h), NEW k \in t.groups,
           ToSet(h.members) \subseteq ToSet(g.members), ToSet(h.members) \subseteq ToSet(k.members)
    PROVE  g = k
  <1>1. h.members \in Seq(Id) /\ Len(h.members) >= 2
    BY DEF GroupOK, Distinct
  <1>2. h.members[1] \in ToSet(h.members) /\ h.members[1] \in Id
    BY <1>1 DEF ToSet
  <1> QED BY <1>2, SoundGroups DEF Sound

\* Tables with the same groups turn no page.
LEMMA SamePages ==
    ASSUME NEW t, Sound(t), NEW u, u.groups = t.groups
    PROVE  PagesStay(t, u)
  <1> SUFFICES ASSUME NEW g \in t.groups, NEW h \in t.groups, Len(h.members) < Len(g.members),
                      ToSet(h.members) \subseteq ToSet(g.members)
               PROVE  FALSE
    BY DEF PagesStay
  <1>1. GroupOK(h) /\ GroupOK(g)
    BY SoundGroups DEF Sound
  <1>2. g = h
    BY <1>1, WithinIsSame
  <1>3. Len(h.members) \in Nat
    BY <1>1 DEF GroupOK, Distinct
  <1> QED BY <1>2, <1>3

\* A tab taken out leaves the page that was shown, if it was another.
LEMMA TakenOutShows ==
    ASSUME NEW g, GroupOK(g), Len(g.members) > 2, NEW x \in ToSet(g.members)
    PROVE  /\ Len(TakenOut(g, x).members) = Len(g.members) - 1
           /\ ShownTab(g) # x => ShownTab(TakenOut(g, x)) = ShownTab(g)
  <1> DEFINE s == g.members
             i == PositionOf(s, x)
             rest == Without(s, x)
             kept == IF i < g.active THEN g.active - 1 ELSE g.active
             act == IF kept > Len(rest) THEN Len(rest) ELSE kept
  <1>1. s \in Seq(Id) /\ Distinct(s) /\ g.active \in 1..Len(s)
    BY DEF GroupOK, Distinct
  <1>2. i \in 1..Len(s) /\ s[i] = x
    BY <1>1, PositionFound
  <1>3. rest = RemoveAt(s, i)
    BY <1>1 DEF Without
  <1> HIDE DEF i
  <1>4. /\ Len(rest) = Len(s) - 1
        /\ \A j \in 1..(Len(s) - 1) : rest[j] = IF j < i THEN s[j] ELSE s[j + 1]
    BY <1>1, <1>2, <1>3, RemoveAtElements
  <1>5. TakenOut(g, x) = [members |-> rest, active |-> act]
    BY DEF TakenOut, i
  <1> HIDE DEF rest, act, s
  <1>6. ASSUME s[g.active] # x
        PROVE  rest[act] = s[g.active]
    <2>1. g.active # i /\ Len(s) \in Nat
      BY <1>1, <1>2, <1>6
    <2>2. CASE i < g.active
      <3>1. act = g.active - 1 /\ act \in 1..(Len(s) - 1) /\ ~(act < i)
        BY <1>1, <1>2, <1>4, <2>2 DEF act
      <3>2. act + 1 = g.active
        BY <1>1, <3>1
      <3> QED BY <1>4, <3>1, <3>2
    <2>3. CASE g.active < i
      <3>1. act = g.active /\ act \in 1..(Len(s) - 1) /\ act < i
        BY <1>1, <1>2, <1>4, <2>3 DEF act
      <3> QED BY <1>4, <3>1
    <2> QED BY <1>1, <1>2, <2>1, <2>2, <2>3
  <1> QED BY <1>4, <1>5, <1>6 DEF ShownTab, s

\* leave turns no page but that of the tab that leaves.
LEMMA LeavePages ==
    ASSUME NEW t, Sound(t), NEW x \in Id
    PROVE  PagesStay(t, Leave(t, x))
  <1> SUFFICES ASSUME NEW g \in t.groups, NEW h \in Leave(t, x).groups,
                      ToSet(h.members) \subseteq ToSet(g.members),
                      Len(h.members) < Len(g.members), ShownTab(g) \in ToSet(h.members)
               PROVE  ShownTab(h) = ShownTab(g)
    BY DEF PagesStay
  <1>1. GroupOK(h) /\ x \notin ToSet(h.members)
    BY LeaveGroups
  <1>2. PICK k \in t.groups : /\ ToSet(h.members) \subseteq ToSet(k.members)
                              /\ \/ x \notin ToSet(k.members) /\ h = k
                                 \/ x \in ToSet(k.members) /\ h = TakenOut(k, x)
    BY LeaveGroups
  <1>3. k = g
    BY <1>1, <1>2, WithinIsSame
  <1>4. GroupOK(g)
    BY SoundGroups DEF Sound
  <1>5. Len(g.members) \in Nat /\ Len(h.members) \in Nat /\ Len(h.members) >= 2
    BY <1>1, <1>4 DEF GroupOK, Distinct
  <1>6. h # g
    BY <1>5
  <1> QED BY <1>1, <1>2, <1>3, <1>4, <1>5, <1>6, TakenOutShows

\* Nor does join: what joins is shown, in a group that is not smaller.
LEMMA JoinPages ==
    ASSUME NEW t, Sound(t), NEW x \in Id, NEW host \in Id, x # host
    PROVE  PagesStay(t, Join(t, x, host))
  <1> DEFINE u == Leave(t, x)
  <1>1. Sound(u) /\ PagesStay(t, u) /\ u \in Tables
    BY LeaveSound, LeavePages DEF Sound
  <1>2. Join(t, x, host) = [u EXCEPT !.groups =
            IF GroupsOf(u, host) = {} THEN u.groups \cup {[members |-> <<host, x>>, active |-> 2]}
            ELSE (u.groups \ GroupsOf(u, host)) \cup {Joined(k, x) : k \in GroupsOf(u, host)}]
    BY <1>1 DEF Join, Tables
  <1>3. Join(t, x, host).groups =
            IF GroupsOf(u, host) = {} THEN u.groups \cup {[members |-> <<host, x>>, active |-> 2]}
            ELSE (u.groups \ GroupsOf(u, host)) \cup {Joined(k, x) : k \in GroupsOf(u, host)}
    BY <1>1, <1>2 DEF Tables
  <1> SUFFICES ASSUME NEW g \in t.groups, NEW h \in Join(t, x, host).groups,
                      ToSet(h.members) \subseteq ToSet(g.members),
                      Len(h.members) < Len(g.members), ShownTab(g) \in ToSet(h.members),
                      h \notin u.groups
               PROVE  FALSE
    BY <1>1 DEF PagesStay
  <1>4. GroupOK(g) /\ Len(g.members) \in Nat /\ g.members \in Seq(Id)
    BY SoundGroups DEF Sound, GroupOK, Distinct
  <1>5. x \in ToSet(g.members) => g \in GroupsOf(t, x)
    BY DEF GroupsOf
  <1>6. u.groups = (t.groups \ GroupsOf(t, x))
                \cup {TakenOut(k, x) : k \in {l \in GroupsOf(t, x) : Len(l.members) > 2}}
    BY DEF Leave, Sound, Tables
  <1> HIDE DEF u
  <1>7. CASE GroupsOf(u, host) = {}
    <2>1. h = [members |-> <<host, x>>, active |-> 2]
      BY <1>3, <1>7
    <2>2. h.members = <<host, x>> /\ Len(h.members) = 2
      BY <2>1
    <2>3. ToSet(h.members) = {host, x}
      <3>1. h.members \in Seq(Id) /\ h.members[1] = host /\ h.members[2] = x
        BY <2>2
      <3> QED BY <2>2, <3>1 DEF ToSet
    <2>4. g \in GroupsOf(t, x) /\ Len(g.members) > 2 /\ x \in ToSet(g.members) /\ host \in ToSet(g.members)
      BY <1>4, <1>5, <2>2, <2>3
    <2>5. TakenOut(g, x) \in u.groups /\ host \in ToSet(TakenOut(g, x).members)
      BY <1>4, <1>6, <2>4, TakenOutOK
    <2> QED BY <1>7, <2>5 DEF GroupsOf
  <1>8. CASE GroupsOf(u, host) # {}
    <2>1. PICK k \in u.groups : h = Joined(k, x)
      BY <1>3, <1>8 DEF GroupsOf
    <2>2. GroupOK(k) /\ x \notin ToSet(k.members) /\ k.members \in Seq(Id) /\ Distinct(k.members)
      BY <2>1, LeaveGroups DEF u, GroupOK, Distinct
    <2>3. h.members = Append(k.members, x) /\ Len(h.members) = Len(k.members) + 1
      BY <2>1, <2>2 DEF Joined
    <2>4. ToSet(h.members) = ToSet(k.members) \cup {x}
      BY <2>2, <2>3, AppendedElements
    <2>5. PICK l \in t.groups : /\ ToSet(k.members) \subseteq ToSet(l.members)
                                /\ \/ x \notin ToSet(l.members) /\ k = l
                                   \/ x \in ToSet(l.members) /\ k = TakenOut(l, x)
      BY <2>1, LeaveGroups DEF u
    <2>6. l = g
      BY <2>2, <2>4, <2>5, WithinIsSame
    <2>7. x \in ToSet(g.members) /\ k = TakenOut(g, x)
      BY <2>4, <2>5, <2>6
    <2>8. Len(k.members) \in Nat /\ Len(k.members) >= 2
      BY <2>2 DEF GroupOK
    <2>9. Len(g.members) > 2
      BY <1>4, <2>3, <2>8
    <2>10. Len(k.members) = Len(g.members) - 1
      BY <1>4, <2>7, <2>9, TakenOutShows
    <2> QED BY <1>4, <2>3, <2>8, <2>10
  <1> QED BY <1>7, <1>8

\* To turn a page takes nobody from the group.
LEMMA CyclePages ==
    ASSUME NEW t, Sound(t), NEW x \in Id, NEW forward \in BOOLEAN
    PROVE  PagesStay(t, Cycle(t, x, forward))
  <1> SUFFICES ASSUME NEW g \in t.groups, NEW h \in Cycle(t, x, forward).groups,
                      ToSet(h.members) \subseteq ToSet(g.members),
                      Len(h.members) < Len(g.members)
               PROVE  FALSE
    BY DEF PagesStay
  <1>1. Cycle(t, x, forward).groups =
            (t.groups \ GroupsOf(t, x)) \cup {Turned(k, forward) : k \in GroupsOf(t, x)}
    BY DEF Cycle, Sound, Tables
  <1>2. PICK k \in t.groups : h = k \/ h = Turned(k, forward)
    BY <1>1 DEF GroupsOf
  <1>3. GroupOK(k) /\ GroupOK(g)
    BY SoundGroups DEF Sound
  <1>4. GroupOK(h) /\ h.members = k.members
    BY <1>2, <1>3, TurnedOK
  <1>5. k = g
    BY <1>4, WithinIsSame
  <1>6. Len(g.members) \in Nat
    BY <1>3 DEF GroupOK, Distinct
  <1> QED BY <1>4, <1>5, <1>6

\* The queue grows only when a window is minimised.
QueueKeeps(t, u) == Len(u.order) <= Len(t.order)

\* Modes turn no page, and only the minimised joins the queue or hides.
LEMMA ModesKeep ==
    ASSUME NEW t, Sound(t), NEW x \in Id, NEW m \in Mode
    PROVE  /\ PagesStay(t, SetMode(t, x, m))
           /\ m # "minimized" => QueueKeeps(t, SetMode(t, x, m))
           /\ \A y \in Id : y # x => (Hidden(SetMode(t, x, m), y) <=> Hidden(t, y))
  <1> DEFINE u == SetMode(t, x, m)
             rest == Without(t.order, x)
  <1>1. t \in Tables /\ Distinct(t.order)
    BY DEF Sound, Tables, QueueIsTheMinimized, Distinct
  <1>2. /\ u.mode = [t.mode EXCEPT ![x] = m] /\ u.groups = t.groups
        /\ u.order = rest \o (IF m = "minimized" THEN <<x>> ELSE <<>>)
    BY <1>1 DEF SetMode, Tables
  <1>3. Len(rest) <= Len(t.order) /\ rest \in Seq(Id)
    <2>1. CASE x \in ToSet(t.order)
      BY <1>1, <2>1, WithoutElements DEF Distinct
    <2>2. CASE x \notin ToSet(t.order)
      BY <1>1, <2>2 DEF Without, Distinct
    <2> QED BY <2>1, <2>2
  <1>4. ASSUME m # "minimized" PROVE Len(u.order) <= Len(t.order)
    <2>1. u.order = rest
      BY <1>2, <1>3, <1>4, ConcatEmptySeq
    <2> QED BY <1>3, <2>1
  <1>5. ASSUME NEW y \in Id, y # x PROVE Hidden(u, y) <=> Hidden(t, y)
    <2>1. u.mode[y] = t.mode[y]
      BY <1>1, <1>2, <1>5 DEF Tables
    <2> QED BY <1>2, <2>1 DEF Hidden, GroupsOf
  <1> HIDE DEF u
  <1>6. PagesStay(t, u)
    BY <1>2, SamePages
  <1> QED BY <1>4, <1>5, <1>6 DEF u, QueueKeeps

\* So it is with the modes a person asks for.
LEMMA TablesKeep ==
    ASSUME NEW t, Sound(t), NEW x \in Id
    PROVE  /\ PagesStay(t, ToggleMaximize(t, x)) /\ QueueKeeps(t, ToggleMaximize(t, x))
           /\ PagesStay(t, Unmaximize(t, x)) /\ QueueKeeps(t, Unmaximize(t, x))
           /\ PagesStay(t, Minimize(t, x))
           /\ \A y \in Id : y # x => (Hidden(Minimize(t, x), y) <=> Hidden(t, y))
           /\ Hidden(Minimize(t, x), x)
  <1>1. PagesStay(t, t) /\ QueueKeeps(t, t)
    <2>1. Len(t.order) \in Nat
      BY DEF Sound, Tables
    <2> QED BY <2>1, SamePages DEF QueueKeeps
  <1>2. \A m \in Mode : /\ PagesStay(t, SetMode(t, x, m))
                        /\ m # "minimized" => QueueKeeps(t, SetMode(t, x, m))
                        /\ \A y \in Id : y # x => (Hidden(SetMode(t, x, m), y) <=> Hidden(t, y))
    BY ModesKeep
  <1>3. {"normal", "maximized", "minimized"} \subseteq Mode
    BY DEF Mode
  <1>4. SetMode(t, x, "minimized").mode[x] = "minimized"
    BY DEF SetMode, Sound, Tables
  <1> QED BY <1>1, <1>2, <1>3, <1>4 DEF ToggleMaximize, Unmaximize, Minimize, Hidden

\* What comes back, leaves a group, joins one or goes for good leaves the queue
\* no longer.
LEMMA OthersKeep ==
    ASSUME NEW t, Sound(t), NEW x \in Id
    PROVE  /\ t.order # <<>> => PagesStay(t, RestoreLast(t)) /\ QueueKeeps(t, RestoreLast(t))
           /\ PagesStay(t, Leave(t, x)) /\ QueueKeeps(t, Leave(t, x))
           /\ \A host \in Id : x # host =>
                 PagesStay(t, Join(t, x, host)) /\ QueueKeeps(t, Join(t, x, host))
           /\ \A forward \in BOOLEAN :
                 PagesStay(t, Cycle(t, x, forward)) /\ QueueKeeps(t, Cycle(t, x, forward))
           /\ PagesStay(t, Forget(t, x))
  <1>1. t \in Tables /\ Distinct(t.order) /\ Len(t.order) \in Nat
    BY DEF Sound, Tables, QueueIsTheMinimized, Distinct
  <1>2. Leave(t, x) \in Tables /\ Leave(t, x).order = t.order
    BY LeaveFields
  <1>3. ASSUME t.order # <<>>
        PROVE  PagesStay(t, RestoreLast(t)) /\ QueueKeeps(t, RestoreLast(t))
    <2>1. RestoreLast(t).groups = t.groups /\ RestoreLast(t).order = Front(t.order)
      BY <1>1 DEF RestoreLast, Tables
    <2>2. Len(Front(t.order)) = Len(t.order) - 1
      <3>1. t.order \in Seq(Id) /\ Len(t.order) >= 1
        BY <1>1, <1>3 DEF Distinct
      <3>2. Front(t.order) = SubSeq(t.order, 1, Len(t.order) - 1)
        BY DEF Front
      <3> QED BY <1>1, <3>1, <3>2
    <2> QED BY <1>1, <2>1, <2>2, SamePages DEF QueueKeeps
  <1>4. PagesStay(t, Leave(t, x)) /\ QueueKeeps(t, Leave(t, x))
    BY <1>1, <1>2, LeavePages DEF QueueKeeps
  <1>5. ASSUME NEW host \in Id, x # host
        PROVE  PagesStay(t, Join(t, x, host)) /\ QueueKeeps(t, Join(t, x, host))
    <2>1. Join(t, x, host).order = t.order
      BY <1>2 DEF Join, Tables
    <2> QED BY <1>1, <1>5, <2>1, JoinPages DEF QueueKeeps
  <1>6. ASSUME NEW forward \in BOOLEAN
        PROVE  PagesStay(t, Cycle(t, x, forward)) /\ QueueKeeps(t, Cycle(t, x, forward))
    <2>1. Cycle(t, x, forward).order = t.order
      BY <1>1 DEF Cycle, Tables
    <2> QED BY <1>1, <2>1, CyclePages DEF QueueKeeps
  <1>7. PagesStay(t, Forget(t, x))
    <2>1. Forget(t, x).groups = Leave(t, x).groups
      BY <1>2 DEF Forget, Tables
    <2> QED BY <1>4, <2>1 DEF PagesStay
  <1> QED BY <1>3, <1>4, <1>5, <1>6, <1>7

-----------------------------------------------------------------------------
(* What a step does to the pages, the screen and the keyboard.             *)

\* What a step brings to the screen is shown, or dragged.
HiddenLeaves ==
    \A x \in Laid' : Hidden(windows, x)' /\ x \in space'
        => grab = x \/ (Hidden(windows, x) /\ x \in space)

\* The keyboard has found a window.
Found == ~shut' /\ OnScreen' # {} => focus' \in OnScreen'

Steady == roster \subseteq roster' /\ QueueKeeps(windows, windows') /\ (shut => shut')

Follows ==
    /\ PagesStay(windows, windows')
    /\ HiddenLeaves
    /\ Steady \/ Found \/ ~(space' \subseteq roster')

\* A layout takes off the screen what the tables hide.
LEMMA LayoutHides ==
    ASSUME NEW tr, NEW sp, ApplyLayout(tr, sp)
    PROVE  HiddenLeaves
  BY DEF ApplyLayout, HiddenLeaves, Laid

\* A step that leaves screen and tables as they are.
LEMMA StillFollows ==
    ASSUME DeskParts, UNCHANGED <<roster, floating, tree, windows>>, space' \subseteq space, shut => shut'
    PROVE  Follows
  <1>1. PagesStay(windows, windows') /\ QueueKeeps(windows, windows')
    <2>1. Len(windows.order) \in Nat
      BY DEF DeskParts, Sound, Tables
    <2> QED BY <2>1, SamePages DEF DeskParts, QueueKeeps
  <1>2. HiddenLeaves
    BY DEF HiddenLeaves, Laid
  <1> QED BY <1>1, <1>2 DEF Follows, Steady

\* The keyboard finds a window where one is searched for.
LEMMA SearchFinds ==
    ASSUME NEW sp, NEW f, NEW p, FocusAnyVisible(sp, f, p), ~shut',
           {x \in sp : ~Hidden(windows', x)} # {}
    PROVE  focus' \in sp /\ ~Hidden(windows', focus')
  BY DEF FocusAnyVisible, FocusWindow

\* Minimising hides one window and finds the keyboard another.
LEMMA MinimizedFollows ==
    ASSUME DeskParts, NEW f \in Somebody, Minimized(f)
    PROVE  Follows
  <1> USE DeskAssumption
  <1>1. /\ f \in Id /\ windows' = Minimize(windows, f)
        /\ FocusAnyVisible(space, f, previous) /\ ApplyLayout(tree, space)
        /\ roster' = roster /\ floating' = floating
    BY DEF Minimized, Somebody
  <1>2. Sound(windows) /\ space \subseteq Id /\ roster \subseteq Id /\ tree \subseteq roster
    BY DEF DeskParts
  <1>3. /\ PagesStay(windows, windows')
        /\ \A y \in Id : y # f => (Hidden(windows', y) <=> Hidden(windows, y))
        /\ Hidden(windows', f)
    BY <1>1, <1>2, TablesKeep
  <1>4. HiddenLeaves
    BY <1>1, LayoutHides
  <1>5. ASSUME ~shut', OnScreen' # {}
        PROVE  focus' \in OnScreen'
    <2> DEFINE laid == IF floating THEN roster ELSE tree
    <2>1. space' = (space \ laid) \cup {x \in laid : ~Hidden(windows', x)}
      BY <1>1 DEF ApplyLayout
    <2>2. OnScreen' = {x \in space' : ~Hidden(windows', x)}
      BY DEF OnScreen
    <2>3. \A x \in laid : ~Hidden(windows, x) => x \in space
      BY DEF DeskParts, ShownIsOnScreen, Laid
    <2>4. \A x \in OnScreen' : x \in space /\ ~Hidden(windows', x)
      BY <1>2, <1>3, <2>1, <2>2, <2>3
    <2>5. focus' \in space /\ ~Hidden(windows', focus')
      BY <1>1, <1>5, <2>4, SearchFinds
    <2> QED BY <2>1, <2>2, <2>5
  <1> QED BY <1>3, <1>4, <1>5 DEF Follows, Found

\* A deed that minimises nothing and lays the desk out.
LEMMA DeedFollows ==
    ASSUME DeskParts, UNCHANGED <<roster, lockVars>>, PagesStay(windows, windows'),
           QueueKeeps(windows, windows'), ApplyLayout(tree, space)
    PROVE  Follows
  BY LayoutHides DEF Follows, Steady, lockVars

\* Maximising hides none.
LEMMA ToggleMaximizedFollows ==
    ASSUME DeskParts, NEW f \in Somebody, ToggleMaximized(f)
    PROVE  Follows
  <1>1. f \in Id /\ windows' = ToggleMaximize(windows, f)
    BY DEF ToggleMaximized, Somebody
  <1>2. PagesStay(windows, windows') /\ QueueKeeps(windows, windows')
    BY <1>1, TablesKeep DEF DeskParts
  <1> QED BY <1>2, DeedFollows DEF ToggleMaximized

\* Windows that come and go.
LEMMA WindowStepsFollow ==
    ASSUME DeskParts, WindowSteps
    PROVE  Follows
  <1> USE DeskAssumption
  <1>0. Sound(windows) /\ PagesStay(windows, windows) /\ QueueKeeps(windows, windows)
    <2>1. Len(windows.order) \in Nat
      BY DEF DeskParts, Sound, Tables
    <2> QED BY <2>1, SamePages DEF DeskParts, QueueKeeps
  <1>1. ASSUME NEW w \in Window, NewToplevel(w)
        PROVE  Follows
    BY <1>0, <1>1, LayoutHides DEF NewToplevel, Follows, Steady, lockVars
  <1>2. ASSUME NEW w \in Window, ToplevelDestroyed(w)
        PROVE  Follows
    <2>1. /\ windows' = Forget(windows, w) /\ ApplyLayout(tree \ {w}, space \ {w})
          /\ FocusAnyVisible(space', focus, IF previous = w THEN NoOne ELSE previous)
      BY <1>2 DEF ToplevelDestroyed
    <2>2. PagesStay(windows, windows')
      BY <1>0, <2>1, OthersKeep
    <2>3. HiddenLeaves
      BY <2>1, LayoutHides
    <2>4. ASSUME ~shut', OnScreen' # {}
          PROVE  focus' \in OnScreen'
      <3>1. OnScreen' = {x \in space' : ~Hidden(windows', x)}
        BY DEF OnScreen
      <3> QED BY <2>1, <2>4, <3>1, SearchFinds
    <2> QED BY <2>2, <2>3, <2>4 DEF Follows, Found
  <1>3. CASE Refresh
    BY <1>3, StillFollows DEF Refresh, lockVars
  <1>4. CASE AdoptConfig
    BY <1>0, <1>4, LayoutHides DEF AdoptConfig, Follows, Steady, lockVars
  <1> QED BY <1>1, <1>2, <1>3, <1>4 DEF WindowSteps

\* The deeds.
LEMMA PerformFollows ==
    ASSUME DeskParts, Perform
    PROVE  Follows
  <1> USE DeskAssumption
  <1>0. focus \in Somebody /\ previous \in Somebody /\ Sound(windows)
    BY DEF DeskParts
  <1>1. CASE ToggleMaximized(focus)
    BY <1>0, <1>1, ToggleMaximizedFollows
  <1>2. CASE Minimized(focus)
    BY <1>0, <1>2, MinimizedFollows
  <1>3. CASE Restored
    <2>1. Last(windows.order) \in Id
      <3>1. Distinct(windows.order)
        BY <1>0 DEF Sound, Tables, QueueIsTheMinimized, Distinct
      <3> QED BY <3>1, <1>3, FrontElements DEF Restored
    <2>2. windows' = RestoreLast(windows) /\ windows.order # <<>>
      BY <1>3 DEF Restored
    <2>3. PagesStay(windows, windows') /\ QueueKeeps(windows, windows')
      BY <1>0, <2>1, <2>2, OthersKeep
    <2> QED BY <1>3, <2>3, DeedFollows DEF Restored
  <1>4. ASSUME NEW forward \in BOOLEAN, Cycled(forward)
        PROVE  Follows
    <2>1. focus \in Id
      <3>1. \A g \in windows.groups : g.members \in Seq(Id)
        BY <1>0 DEF Sound, Tables, Group
      <3> QED BY <1>4, <3>1 DEF Cycled, GroupsOf, ToSet
    <2>2. windows' = Cycle(windows, focus, forward)
      BY <1>4 DEF Cycled
    <2>3. PagesStay(windows, windows') /\ QueueKeeps(windows, windows')
      BY <1>0, <2>1, <2>2, OthersKeep
    <2> QED BY <1>4, <2>3, DeedFollows DEF Cycled
  <1>5. CASE TabJoined
    <2>1. focus \in Id /\ previous \in Id /\ focus # previous /\ windows' = Join(windows, focus, previous)
      BY <1>0, <1>5 DEF TabJoined, Somebody
    <2>2. PagesStay(windows, windows') /\ QueueKeeps(windows, windows')
      BY <1>0, <2>1, OthersKeep
    <2> QED BY <1>5, <2>2, DeedFollows DEF TabJoined
  <1>6. CASE TabLeft
    <2>1. focus \in Id
      <3>1. \A g \in windows.groups : g.members \in Seq(Id)
        BY <1>0 DEF Sound, Tables, Group
      <3> QED BY <1>6, <3>1 DEF TabLeft, GroupsOf, ToSet
    <2>2. windows' = Leave(windows, focus)
      BY <1>6 DEF TabLeft
    <2>3. PagesStay(windows, windows') /\ QueueKeeps(windows, windows')
      BY <1>0, <2>1, <2>2, OthersKeep
    <2> QED BY <1>6, <2>3, DeedFollows DEF TabLeft
  <1>7. CASE FocusDirection
    BY <1>7, StillFollows DEF FocusDirection, lockVars
  <1>8. CASE Resized
    <2>1. CASE floating
      <3>1. focus \in Id /\ windows' = Unmaximize(windows, focus)
        BY <1>8, <2>1 DEF Resized, DeskParts
      <3>2. PagesStay(windows, windows') /\ QueueKeeps(windows, windows')
        BY <1>0, <3>1, TablesKeep
      <3> QED BY <1>8, <3>2, DeedFollows DEF Resized
    <2>2. CASE ~floating
      <3>1. Len(windows.order) \in Nat
        BY DEF DeskParts, Sound, Tables
      <3>2. windows' = windows
        BY <1>8, <2>2 DEF Resized
      <3>3. PagesStay(windows, windows') /\ QueueKeeps(windows, windows')
        BY <1>0, <3>1, <3>2, SamePages DEF QueueKeeps
      <3> QED BY <1>8, <3>3, DeedFollows DEF Resized
    <2> QED BY <2>1, <2>2
  <1> QED BY <1>1, <1>2, <1>3, <1>4, <1>5, <1>6, <1>7, <1>8 DEF Perform

\* The pointer; a drag may keep its own window on the screen.
LEMMA PointerStepsFollow ==
    ASSUME DeskParts, PointerSteps
    PROVE  Follows
  <1> USE DeskAssumption
  <1>0. Window \subseteq Somebody
    BY DEF Somebody
  <1>1. ASSUME NEW w \in Window, Click(w) \/ BeginDrag(w) \/ RequestDrag(w) \/ ClickBackground
        PROVE  Follows
    BY <1>1, StillFollows DEF Click, BeginDrag, RequestDrag, ClickBackground, lockVars
  <1>2. ASSUME NEW w \in Window, PressTitlebar(w)
        PROVE  Follows
    BY <1>0, <1>2, MinimizedFollows, ToggleMaximizedFollows DEF PressTitlebar
  <1>3. CASE ClickBackground
    BY <1>3, StillFollows DEF ClickBackground, lockVars
  <1>4. CASE DragMotion
    <2>1. grab \in Window /\ windows' = Unmaximize(windows, grab) /\ roster' = roster
          /\ floating' = floating /\ shut' = shut
      BY <1>4 DEF DragMotion, DeskParts, lockVars
    <2>2. Sound(windows)
      BY DEF DeskParts
    <2>3. PagesStay(windows, windows') /\ QueueKeeps(windows, windows')
      BY <2>1, <2>2, TablesKeep
    <2>4. \A y \in Id : Hidden(windows', y) <=> Hidden(windows, y)
      BY <2>1, <2>2, UnmaximizeHidesNothing DEF Sound
    <2>5. roster \subseteq Id /\ tree \subseteq roster
      BY DEF DeskParts
    <2>6. HiddenLeaves
      <3>1. CASE UNCHANGED tree /\ space' = space \cup {grab}
        BY <2>1, <2>4, <2>5, <3>1 DEF HiddenLeaves, Laid
      <3>2. CASE ~(UNCHANGED tree /\ space' = space \cup {grab})
        BY <1>4, <2>1, <2>4, <2>5, <3>2 DEF DragMotion, HiddenLeaves, Laid
      <3> QED BY <3>1, <3>2
    <2> QED BY <2>1, <2>3, <2>6 DEF Follows, Steady
  <1>5. CASE EndDrag
    <2>1. CASE UNCHANGED <<space, tree>>
      BY <1>5, <2>1, StillFollows DEF EndDrag, lockVars
    <2>2. CASE ApplyLayout(tree, space)
      <3>1. Len(windows.order) \in Nat /\ windows' = windows /\ Sound(windows)
        BY <1>5 DEF EndDrag, DeskParts, Sound, Tables
      <3>2. PagesStay(windows, windows') /\ QueueKeeps(windows, windows')
        BY <3>1, SamePages DEF QueueKeeps
      <3> QED BY <1>5, <2>2, <3>2, DeedFollows DEF EndDrag
    <2> QED BY <1>5, <2>1, <2>2 DEF EndDrag
  <1> QED BY <1>1, <1>2, <1>3, <1>4, <1>5 DEF PointerSteps

\* The layers.
LEMMA LayerStepsFollow ==
    ASSUME DeskParts, LayerSteps
    PROVE  Follows
  <1>1. ASSUME NEW l \in Layer, NewLayer(l) \/ LayerDestroyed(l)
        PROVE  Follows
    <2>1. Len(windows.order) \in Nat /\ windows' = windows /\ Sound(windows)
      BY <1>1 DEF NewLayer, LayerDestroyed, DeskParts, Sound, Tables
    <2>2. PagesStay(windows, windows') /\ QueueKeeps(windows, windows')
      BY <2>1, SamePages DEF QueueKeeps
    <2> QED BY <1>1, <2>2, DeedFollows DEF NewLayer, LayerDestroyed
  <1>2. ASSUME NEW l \in Layer, CommitLayer(l)
        PROVE  Follows
    BY <1>2, StillFollows DEF CommitLayer, lockVars
  <1> QED BY <1>1, <1>2 DEF LayerSteps

\* The lock; when the session opens the keyboard finds a window.
LEMMA LockStepsFollow ==
    ASSUME DeskParts, LockSteps
    PROVE  Follows
  <1>1. CASE SessionShut
    BY <1>1, StillFollows DEF SessionShut
  <1>2. ASSUME NEW k \in Screen, GetLockSurface(k)
        PROVE  Follows
    BY <1>2, StillFollows DEF GetLockSurface
  <1>3. CASE LockSurfaceCommitted \/ LockSurfaceDestroyed \/ HolderGone
    BY <1>3, StillFollows DEF LockSurfaceCommitted, LockSurfaceDestroyed, HolderGone, lockVars
  <1>4. CASE SessionOpened
    <2>1. /\ UNCHANGED <<roster, space, tree, floating, windows>>
          /\ FocusAnyVisible(space, focus, previous)
      BY <1>4 DEF SessionOpened
    <2>2. PagesStay(windows, windows')
      BY <2>1, SamePages DEF DeskParts
    <2>3. HiddenLeaves
      BY <2>1 DEF HiddenLeaves, Laid
    <2>4. ASSUME ~shut', OnScreen' # {}
          PROVE  focus' \in OnScreen'
      <3>1. OnScreen' = {x \in space : ~Hidden(windows', x)}
        BY <2>1 DEF OnScreen
      <3> QED BY <2>1, <2>4, <3>1, SearchFinds
    <2> QED BY <2>2, <2>3, <2>4 DEF Follows, Found
  <1> QED BY <1>1, <1>2, <1>3, <1>4 DEF LockSteps

\* Every step.
LEMMA StepsFollow == DeskInv /\ [DeskNext]_deskVars => Follows
  <1> SUFFICES ASSUME DeskInv, [DeskNext]_deskVars PROVE Follows
    OBVIOUS
  <1>1. DeskParts
    BY InvIsItsParts
  <1>2. CASE UNCHANGED deskVars
    BY <1>1, <1>2, StillFollows DEF deskVars, lockVars
  <1>3. CASE DeskNext
    BY <1>1, <1>3, WindowStepsFollow, PerformFollows, PointerStepsFollow, LayerStepsFollow,
       LockStepsFollow DEF DeskNext
  <1> QED BY <1>2, <1>3

\* A group that loses a tab goes on showing the one it showed, and what a deed,
\* a client or a configuration hides leaves the screen in that step.
THEOREM ScreenAlwaysFollows == DeskSpec => ScreenFollowsTheTables
  <1>1. DeskInv /\ [DeskNext]_deskVars =>
          [\A g \in windows.groups, h \in windows'.groups :
              /\ ToSet(h.members) \subseteq ToSet(g.members)
              /\ Len(h.members) < Len(g.members)
              /\ ShownTab(g) \in ToSet(h.members)
              => ShownTab(h) = ShownTab(g)]_deskVars
    BY StepsFollow DEF Follows, PagesStay
  <1>2. DeskInv /\ [DeskNext]_deskVars =>
          [\A x \in Laid' : Hidden(windows, x)' /\ x \in space'
              => grab = x \/ (Hidden(windows, x) /\ x \in space)]_deskVars
    BY StepsFollow DEF Follows, HiddenLeaves
  <1> QED BY <1>1, <1>2, DeskInvariant, PTL
      DEF DeskSpec, ScreenFollowsTheTables, ShownTabStays, HiddenLeavesTheScreen

\* Whoever loses its window, to the client, to a deed or to the lock, finds the
\* keyboard on one that is on the screen.
THEOREM KeyboardAlwaysFindsAWindow == DeskSpec => KeyboardFindsAWindow
  <1>1. DeskInv /\ [DeskNext]_deskVars =>
          [/\ \/ \E w \in Window : w \in roster \ roster'
              \/ Len(windows'.order) > Len(windows.order)
              \/ shut /\ ~shut'
           /\ ~shut'
           /\ space' \subseteq roster'
           /\ OnScreen' # {}
           => focus' \in OnScreen']_deskVars
    <2> SUFFICES ASSUME DeskInv, [DeskNext]_deskVars,
                        \/ \E w \in Window : w \in roster \ roster'
                        \/ Len(windows'.order) > Len(windows.order)
                        \/ shut /\ ~shut',
                        ~shut', space' \subseteq roster', OnScreen' # {}
                 PROVE  focus' \in OnScreen'
      OBVIOUS
    <2>1. Follows
      BY StepsFollow
    <2>2. DeskInv'
      BY DeskStep
    <2>3. Len(windows.order) \in Nat /\ Len(windows'.order) \in Nat
      BY <2>2 DEF DeskInv, DeskTypeOK, Tables
    <2>4. ~Steady
      BY <2>3 DEF Steady, QueueKeeps
    <2> QED BY <2>1, <2>4 DEF Follows, Found
  <1> QED BY <1>1, DeskInvariant, PTL DEF DeskSpec, KeyboardFindsAWindow
==============================================================================
