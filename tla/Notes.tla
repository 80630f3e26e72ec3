------------------------------- MODULE Notes -------------------------------
(***************************************************************************)
(* Notifications: a child owns the name on the bus and numbers the notes,  *)
(* the seat keeps them on a shelf, and a thread between the two starts the *)
(* child again when it dies or when the world is saved.  A child numbers   *)
(* its notes from one; born tells the notes of different children apart.   *)
(*                                                                         *)
(* Time is not counted: a note that may expire may expire at any tick.     *)
(***************************************************************************)
EXTENDS Lists, SequencesExt

CONSTANTS
    MaxNotes,       \* bound on the notes of one child
    MaxChildren,    \* bound on the children that are started
    MaxPending      \* bound on each queue

ASSUME NotesAssumption ==
    {MaxNotes, MaxChildren, MaxPending} \subseteq Nat /\ MaxChildren >= 1

VARIABLES
    child,          \* none (no thread), up, dead, or waiting for the back-off
    children,       \* how many were started; the one that runs is the last
    numbered,       \* Server.next
    lines,          \* what a child has written and the seat not read
    shelf,          \* NoteShelf.notes, oldest first
    ctl,            \* the channel of the notes thread
    told,           \* history: the notes of this child whose end was signalled
    drawn           \* history: the notes of this child that reached the shelf

notesVars == <<child, children, numbered, lines, shelf, ctl, told, drawn>>

Note == [id: 1..MaxNotes, born: 1..MaxChildren]
Enabled == child # "none"
Others(ids) == {n \in Note: n.id \notin ids}
Without(seq, id) == Sift(seq, Others({id}))
Closed(n) == [kind |-> "closed", note |-> n]
Restart == [kind |-> "restart", note |-> <<>>]
Room(q) == Len(q) < MaxPending

-----------------------------------------------------------------------------
(* The child.                                                              *)

\* notify: a fresh number, or one the caller replaces; the rule may drop it.
Notify(id, dropped) ==
    /\ child = "up" /\ Room(lines)
    /\ id <= MaxNotes /\ id \in 1..(numbered + 1)
    /\ numbered' = IF id > numbered THEN id ELSE numbered
    /\ lines' = IF dropped THEN lines
                ELSE Append(lines, [kind |-> "note", note |-> [id |-> id, born |-> children]])
    /\ UNCHANGED <<child, children, shelf, ctl, told, drawn>>

CloseCall(id) ==
    /\ child = "up" /\ Room(lines) /\ id \in 1..numbered
    /\ lines' = Append(lines, [kind |-> "close", note |-> [id |-> id, born |-> children]])
    /\ UNCHANGED <<child, children, numbered, shelf, ctl, told, drawn>>

\* The bus goes, another daemon owns the name, a crash, a rule that ends it.
ChildDies ==
    /\ child = "up"
    /\ child' = "dead"
    /\ UNCHANGED <<children, numbered, lines, shelf, ctl, told, drawn>>

-----------------------------------------------------------------------------
(* The seat.                                                               *)

\* NoteShelf::add
Add(n) == Append(Without(shelf, n.id), n)

NoteLine ==
    /\ lines # <<>> /\ Head(lines).kind = "note"
    /\ lines' = Tail(lines)
    /\ shelf' = Add(Head(lines).note)
    /\ told' = told \ {Head(lines).note}
    /\ drawn' = drawn \cup ({Head(lines).note} \cap {n \in Note: n.born = children})
    /\ UNCHANGED <<child, children, numbered, ctl>>

\* The seat asks the thread to say that a note ended, if there is a thread.
Tell(notes) == ctl' = IF Enabled THEN ctl \o [i \in DOMAIN notes |-> Closed(notes[i])] ELSE ctl

CloseLine ==
    /\ lines # <<>> /\ Head(lines).kind = "close" /\ Room(ctl)
    /\ lines' = Tail(lines)
    /\ shelf' = Without(shelf, Head(lines).note.id)
    /\ Tell(<<Head(lines).note>>)
    /\ UNCHANGED <<child, children, numbered, told, drawn>>

\* Mutant: the notes whose time is up leave the shelf and nobody is told.
ExpireQuietly(ids) ==
    /\ ids # {} /\ Room(ctl)
    /\ shelf' = Sift(shelf, Others(ids))
    /\ UNCHANGED <<child, children, numbered, lines, ctl, told, drawn>>

\* expire_notes: every note whose time is up, in one tick.
ExpireNotes(ids) ==
    /\ ids # {} /\ Room(ctl)
    /\ shelf' = Sift(shelf, Others(ids))
    /\ Tell(Sift(shelf, Note \ Others(ids)))
    /\ UNCHANGED <<child, children, numbered, lines, told, drawn>>

DismissNote ==
    /\ shelf # <<>> /\ Room(ctl)
    /\ shelf' = Front(shelf)
    /\ Tell(<<Last(shelf)>>)
    /\ UNCHANGED <<child, children, numbered, lines, told, drawn>>

StartChild ==
    /\ children < MaxChildren
    /\ child' = "up" /\ children' = children + 1 /\ numbered' = 0
    /\ told' = {} /\ drawn' = {}

\* adopt_notes, after every world that is adopted.
AdoptNotes(enabled) ==
    /\ \/ /\ ~enabled
          /\ child' = "none" /\ ctl' = <<>>
          /\ UNCHANGED <<children, numbered, told, drawn>>
       \/ /\ enabled /\ Enabled /\ Room(ctl)
          /\ ctl' = Append(ctl, Restart)
          /\ UNCHANGED <<child, children, numbered, told, drawn>>
       \/ /\ enabled /\ ~Enabled
          /\ StartChild /\ UNCHANGED ctl
    /\ UNCHANGED <<lines, shelf>>

-----------------------------------------------------------------------------
(* worker_loop.                                                            *)

\* Written to the child, which signals the number it was given; a dead child's
\* pipe takes nothing.
TakeClosed ==
    /\ child \in {"up", "dead"} /\ ctl # <<>> /\ Head(ctl).kind = "closed"
    /\ ctl' = Tail(ctl)
    /\ told' = IF child = "up" /\ Head(ctl).note \in drawn THEN told \cup {Head(ctl).note} ELSE told
    /\ UNCHANGED <<child, children, numbered, lines, shelf, drawn>>

TakeRestart ==
    /\ child \in {"up", "dead"} /\ ctl # <<>> /\ Head(ctl).kind = "restart"
    /\ ctl' = Tail(ctl)
    /\ StartChild
    /\ UNCHANGED <<lines, shelf>>

\* Mutant: the reader's end is not polled while nothing is in the channel.
NoticeDeathBusy ==
    /\ child = "dead" /\ ctl # <<>>
    /\ child' = "waiting"
    /\ UNCHANGED <<children, numbered, lines, shelf, ctl, told, drawn>>

NoticeDeath ==
    /\ child = "dead"
    /\ child' = "waiting"
    /\ UNCHANGED <<children, numbered, lines, shelf, ctl, told, drawn>>

\* The back-off ends with its time, or with whatever comes through the channel:
\* an ended note is dropped there.
WaitEnds ==
    /\ child = "waiting"
    /\ ctl' = IF ctl = <<>> THEN ctl ELSE Tail(ctl)
    /\ StartChild
    /\ UNCHANGED <<lines, shelf>>

NotesInit ==
    /\ child = "up" /\ children = 1 /\ numbered = 0
    /\ lines = <<>> /\ shelf = <<>> /\ ctl = <<>> /\ told = {} /\ drawn = {}

NotesNext ==
    \/ \E id \in 1..MaxNotes: CloseCall(id) \/ (\E dropped \in BOOLEAN: Notify(id, dropped))
    \/ ChildDies \/ NoteLine \/ CloseLine \/ DismissNote
    \/ \E ids \in SUBSET {shelf[i].id: i \in DOMAIN shelf}: ExpireNotes(ids)
    \/ \E enabled \in BOOLEAN: AdoptNotes(enabled)
    \/ TakeClosed \/ TakeRestart \/ NoticeDeath \/ WaitEnds

\* The notes thread runs: it polls twice a second and waits no longer than 60 s.
NotesFairness == WF_notesVars(NoticeDeath) /\ WF_notesVars(WaitEnds)

NotesSpec == NotesInit /\ [][NotesNext]_notesVars /\ NotesFairness

-----------------------------------------------------------------------------
(* Properties.                                                             *)

NotesTypeOK ==
    /\ child \in {"none", "up", "dead", "waiting"} /\ children \in 1..MaxChildren
    /\ numbered \in 0..MaxNotes
    /\ shelf \in Seq(Note) /\ told \subseteq Note /\ drawn \subseteq Note
    /\ \A i \in DOMAIN lines: lines[i].kind \in {"note", "close"} /\ lines[i].note \in Note
    /\ \A i \in DOMAIN ctl: ctl[i].kind \in {"closed", "restart"}

\* A note that was drawn and left the shelf is told to the bus, or the telling
\* is on its way, as long as the child that numbered it lives.
GoneIsTold ==
    child = "up" =>
        \A n \in drawn:
            \/ n \in told
            \/ \E i \in DOMAIN shelf: shelf[i] = n
            \/ \E i \in DOMAIN ctl: ctl[i] = Closed(n)

\* A dead child is respawned (DAILY-SEAT: "A dead child is respawned").
ChildComesBack == child = "dead" ~> child \in {"up", "none"} \/ children = MaxChildren

\* "... and loses only its queue": what an earlier child had on the shelf
\* leaves by time, by dismissal or by a call, not because the next one counts
\* from one again.
OnlyItsQueueIsLost ==
    [][NoteLine => \A j \in DOMAIN shelf:
          shelf[j].id = Head(lines).note.id => shelf[j].born = Head(lines).note.born]_notesVars
=============================================================================
