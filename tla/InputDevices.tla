---------------------------- MODULE InputDevices ----------------------------
(***************************************************************************)
(* The input devices of the seat and the file descriptors they live on:    *)
(* the udev monitor that reports them, the evdev backend that opens them   *)
(* through logind and keeps them in the poll set, the signal thread that   *)
(* acknowledges pauses and dup2s resumed devices, and the main loop that   *)
(* has the backend reconcile when the session comes back.                  *)
(*                                                                         *)
(* A file descriptor is a number; the kernel gives the lowest free one.    *)
(***************************************************************************)
EXTENDS Naturals, Sequences, FiniteSets

CONSTANTS
    Node,           \* the event nodes under /dev/input
    NoNode,
    Usable,         \* those that are a keyboard, a pointer or a touchpad
    MaxFd,          \* bound: file descriptors are 1..MaxFd
    MaxSwitch,      \* bound on the switches to another VT
    MaxPlug         \* bound on the hotplug events

ASSUME InputDevicesAssumption ==
    /\ IsFiniteSet(Node) /\ NoNode \notin Node /\ Usable \subseteq Node
    /\ MaxFd \in Nat \ {0} /\ MaxSwitch \in Nat /\ MaxPlug \in Nat

VARIABLES
    plugged,        \* the nodes that exist
    file,           \* what a file descriptor is open on, and whether it is revoked
    watched,        \* the descriptors in the poll set
    phase,          \* new, bound (the monitor), enumerating, running
    unread,         \* of the directory: the nodes still to open
    uevents,        \* what the monitor has to say
    devices,        \* EvdevBackend.devices
    graveyard,      \* EvdevBackend.graveyard
    lastActive,     \* EvdevBackend.last_active
    dirty,          \* EvdevBackend.dirty
    rows,           \* logind.rs Inner.devices: (major, minor) to descriptor
    active,         \* logind.rs Inner.active
    taken,          \* what logind holds for the session
    signals,        \* from logind, not yet handled by the signal thread
    sessionEvents,  \* from the signal thread to the main loop
    switches, plugs \* how often, for the bounds

backendVars == <<devices, graveyard, lastActive, dirty>>
kernelVars == <<plugged, file, watched>>
logindVars == <<rows, active, taken, signals, sessionEvents>>
startVars == <<phase, unread>>
inputDeviceVars == <<backendVars, kernelVars, logindVars, startVars, uevents, switches, plugs>>

Fd == 1..MaxFd
ClosedFd == [of |-> NoNode, live |-> FALSE]
FreeFds == {f \in Fd : file[f] = ClosedFd}
LowestFree == CHOOSE f \in FreeFds : \A g \in FreeFds : f <= g
FdsOf(entries) == {e.fd : e \in entries}

-----------------------------------------------------------------------------
(* Opening.                                                                *)

\* open_one through LogindSession::open: a node that is neither a keyboard
\* nor a pointer is dropped, which closes the descriptor and says so to nobody.
OpenOne(n) ==
    LET f == LowestFree IN
    /\ FreeFds # {}
    /\ taken' = taken \cup {n}
    /\ rows' = [rows EXCEPT ![n] = f]
    /\ IF n \in Usable
       THEN /\ file' = [file EXCEPT ![f] = [of |-> n, live |-> active]]
            /\ devices' = devices \cup {[node |-> n, fd |-> f, armed |-> TRUE, polled |-> FALSE]}
       ELSE UNCHANGED <<file, devices>>
    /\ UNCHANGED <<active, signals, sessionEvents>>

\* Any refusal skips the device.
OpenFails == UNCHANGED <<logindVars, file, devices>>

BindMonitor ==
    /\ phase = "new" /\ phase' = "bound"
    /\ UNCHANGED <<backendVars, kernelVars, logindVars, unread, uevents, switches, plugs>>

ReadDirectory ==
    /\ phase = "bound" /\ phase' = "enumerating"
    /\ unread' = plugged
    /\ UNCHANGED <<backendVars, kernelVars, logindVars, uevents, switches, plugs>>

OpenEnumerated(n) ==
    /\ phase = "enumerating" /\ n \in unread
    /\ unread' = unread \ {n}
    /\ IF n \in plugged THEN OpenOne(n) ELSE OpenFails
    /\ UNCHANGED <<graveyard, lastActive, dirty, plugged, watched, phase, uevents, switches, plugs>>

\* register: every device, and the state the session is in.
Register ==
    /\ phase = "enumerating" /\ unread = {} /\ phase' = "running"
    /\ devices' = {[e EXCEPT !.polled = TRUE] : e \in devices}
    /\ watched' = watched \cup FdsOf(devices)
    /\ lastActive' = active
    /\ UNCHANGED <<graveyard, dirty, plugged, file, logindVars, unread, uevents, switches, plugs>>

-----------------------------------------------------------------------------
(* Hotplug.                                                                *)

\* A mutant: the monitor is bound after the directory was read.
BoundAfterwards == phase = "running"

Monitored == phase # "new"
Report(u) == uevents' = IF Monitored THEN Append(uevents, u) ELSE uevents

Plug(n) ==
    /\ n \notin plugged /\ plugs < MaxPlug
    /\ plugged' = plugged \cup {n}
    /\ Report([add |-> TRUE, node |-> n])
    /\ plugs' = plugs + 1
    /\ UNCHANGED <<backendVars, file, watched, logindVars, startVars, switches>>

\* The descriptors die, and logind frees its own record and says "gone".
Unplug(n) ==
    /\ n \in plugged /\ plugs < MaxPlug
    /\ plugged' = plugged \ {n}
    /\ file' = [f \in Fd |-> IF file[f].of = n THEN [file[f] EXCEPT !.live = FALSE] ELSE file[f]]
    /\ Report([add |-> FALSE, node |-> n])
    /\ signals' = IF n \in taken THEN Append(signals, [say |-> "gone", node |-> n]) ELSE signals
    /\ taken' = taken \ {n}
    /\ plugs' = plugs + 1
    /\ UNCHANGED <<backendVars, watched, rows, active, sessionEvents, startVars, switches>>

\* absorb_hotplug, one datagram: what is queued behind it is read before the
\* poll set is reconciled or not, as the datagrams arrive.
AbsorbAdded ==
    LET n == Head(uevents).node IN
    /\ phase = "running" /\ uevents # <<>> /\ Head(uevents).add
    /\ uevents' = Tail(uevents)
    /\ IF n \in plugged /\ n \notin {e.node : e \in devices}
       THEN OpenOne(n) /\ dirty' = (dirty \/ n \in Usable)
       ELSE OpenFails /\ dirty' = dirty
    /\ UNCHANGED <<graveyard, lastActive, plugged, watched, startVars, switches, plugs>>

AbsorbRemoved ==
    LET left == {e \in devices : e.node = Head(uevents).node} IN
    /\ phase = "running" /\ uevents # <<>> /\ ~Head(uevents).add
    /\ uevents' = Tail(uevents)
    /\ devices' = devices \ left
    /\ graveyard' = graveyard \cup {[fd |-> e.fd, polled |-> e.polled] : e \in left}
    /\ dirty' = (dirty \/ left # {})
    /\ UNCHANGED <<lastActive, kernelVars, logindVars, startVars, switches, plugs>>

-----------------------------------------------------------------------------
(* Reading and the poll set.                                               *)

\* pump: any descriptor of the poll set is ready; every armed device is read,
\* and the ones that answer ENODEV are disarmed.
\* A mutant: the error is discarded.
NobodyDisarmed == {}

Disarmed == {e \in devices : e.armed /\ ~file[e.fd].live}
Pump ==
    /\ phase = "running" /\ ~dirty
    /\ \E f \in watched : Disarmed # {} \/ file[f].live
    /\ devices' = {IF e \in Disarmed THEN [e EXCEPT !.armed = FALSE] ELSE e : e \in devices}
    /\ dirty' = (Disarmed # {})
    /\ UNCHANGED <<graveyard, lastActive, kernelVars, logindVars, startVars, uevents, switches, plugs>>

\* A mutant: the descriptors are closed before they leave the poll set.
ReconcileClosingFirst(rearm) ==
    LET armed == {IF rearm THEN [e EXCEPT !.armed = TRUE] ELSE e : e \in devices} IN
    /\ lastActive' = active
    /\ watched' = (watched \ FdsOf({e \in armed : e.polled /\ ~e.armed}))
                      \cup FdsOf({e \in armed : e.armed})
    /\ file' = [f \in Fd |-> IF f \in FdsOf(graveyard) THEN ClosedFd ELSE file[f]]
    /\ devices' = {[e EXCEPT !.polled = e.armed] : e \in armed}
    /\ graveyard' = {}
    /\ dirty' = FALSE

\* A device left armed is one the poll set keeps; a dead one is given up.
Reconcile(rearm) ==
    LET armed == {IF rearm THEN [e EXCEPT !.armed = TRUE] ELSE e : e \in devices} IN
    /\ lastActive' = active
    /\ watched' = ((watched \ {g.fd : g \in {h \in graveyard : h.polled}})
                      \ FdsOf({e \in armed : e.polled /\ ~e.armed}))
                      \cup FdsOf({e \in armed : e.armed})
    /\ file' = [f \in Fd |-> IF f \in FdsOf(graveyard) THEN ClosedFd ELSE file[f]]
    /\ devices' = {[e EXCEPT !.polled = e.armed] : e \in armed}
    /\ graveyard' = {}
    /\ dirty' = FALSE

\* reregister arms on the transition it observes, never on the state.
Returned == active /\ ~lastActive

\* PostAction::Reregister, after the source has run.
Reregister ==
    /\ phase = "running" /\ dirty
    /\ Reconcile(Returned)
    /\ UNCHANGED <<plugged, logindVars, startVars, uevents, switches, plugs>>

\* The main loop: coming back reconciles, leaving does not.
SessionEvent ==
    /\ phase = "running" /\ ~dirty /\ sessionEvents # <<>>
    /\ sessionEvents' = Tail(sessionEvents)
    /\ IF Head(sessionEvents) = "activate"
       THEN Reconcile(Returned)
       ELSE UNCHANGED <<backendVars, file, watched>>
    /\ UNCHANGED <<plugged, rows, active, taken, signals, startVars, uevents, switches, plugs>>

-----------------------------------------------------------------------------
(* logind and the signal thread.                                           *)

Orders(S) == {s \in [1..Cardinality(S) -> S] : \A x \in S : \E i \in DOMAIN s : s[i] = x}
Say(what, nodes) == [i \in DOMAIN nodes |-> [say |-> what, node |-> nodes[i]]]
ActiveIs(now) == <<[say |-> IF now THEN "active" ELSE "inactive", node |-> NoNode]>>

SwitchAway ==
    /\ phase = "running" /\ active /\ signals = <<>> /\ switches < MaxSwitch
    /\ switches' = switches + 1
    /\ \E order \in Orders(taken) :
          signals' = Say("pause", order) \o (IF taken = {} THEN ActiveIs(FALSE) ELSE <<>>)
    /\ UNCHANGED <<backendVars, kernelVars, rows, active, taken, sessionEvents, startVars, uevents, plugs>>

\* Every device that is held is resumed, before or after the property changes.
SwitchBack ==
    /\ ~active /\ signals = <<>>
    /\ \E order \in Orders(taken) :
          \/ signals' = Say("resume", order) \o ActiveIs(TRUE)
          \/ signals' = ActiveIs(TRUE) \o Say("resume", order)
    /\ UNCHANGED <<backendVars, kernelVars, rows, active, taken, sessionEvents, startVars, uevents, switches, plugs>>

NextSignal(what) == signals # <<>> /\ Head(signals).say = what

\* handle_pause acknowledges; logind then revokes the device, and changes
\* Active when nothing is left to pause.
HandlePause ==
    LET n == Head(signals).node
        rest == Tail(signals)
        last == \A i \in DOMAIN rest : rest[i].say # "pause" IN
    /\ NextSignal("pause")
    /\ file' = [f \in Fd |-> IF file[f].of = n THEN [file[f] EXCEPT !.live = FALSE] ELSE file[f]]
    /\ signals' = rest \o (IF last THEN ActiveIs(FALSE) ELSE <<>>)
    /\ UNCHANGED <<backendVars, plugged, watched, rows, active, taken, sessionEvents,
                   startVars, uevents, switches, plugs>>

HandleGone ==
    /\ NextSignal("gone")
    /\ signals' = Tail(signals)
    /\ rows' = [rows EXCEPT ![Head(signals).node] = 0]

\* handle_resume: dup2 onto the number in the row, whatever it is open on
\* now; the poll set forgets the description that was there.
HandleResume ==
    LET n == Head(signals).node IN
    /\ NextSignal("resume")
    /\ signals' = Tail(signals)
    /\ IF rows[n] = 0
       THEN UNCHANGED <<file, watched>>
       ELSE /\ file' = [file EXCEPT ![rows[n]] = [of |-> n, live |-> n \in plugged]]
            /\ watched' = watched \ {rows[n]}
    /\ UNCHANGED <<backendVars, plugged, rows, active, taken, sessionEvents, startVars,
                   uevents, switches, plugs>>

\* handle_properties: an event for every change of what is remembered.
HandleActive ==
    \E now \in BOOLEAN :
       /\ NextSignal(IF now THEN "active" ELSE "inactive")
       /\ signals' = Tail(signals)
       /\ active' = now
       /\ sessionEvents' = IF active = now THEN sessionEvents
                           ELSE Append(sessionEvents, IF now THEN "activate" ELSE "pause")
       /\ UNCHANGED <<backendVars, kernelVars, rows, taken, startVars, uevents, switches, plugs>>

SignalGone ==
    /\ HandleGone
    /\ UNCHANGED <<backendVars, kernelVars, active, taken, sessionEvents, startVars, uevents, switches, plugs>>

-----------------------------------------------------------------------------
InputDevicesInit ==
    /\ plugged \in SUBSET Node
    /\ file = [f \in Fd |-> ClosedFd] /\ watched = {}
    /\ phase = "new" /\ unread = {} /\ uevents = <<>>
    /\ devices = {} /\ graveyard = {} /\ lastActive = FALSE /\ dirty = FALSE
    /\ rows = [n \in Node |-> 0] /\ active = TRUE /\ taken = {}
    /\ signals = <<>> /\ sessionEvents = <<>>
    /\ switches = 0 /\ plugs = 0

MainLoop == Register \/ AbsorbAdded \/ AbsorbRemoved \/ Pump \/ Reregister \/ SessionEvent
SignalThread == HandlePause \/ SignalGone \/ HandleResume \/ HandleActive

InputDevicesNext ==
    \/ BindMonitor \/ ReadDirectory
    \/ \E n \in Node : OpenEnumerated(n) \/ Plug(n) \/ Unplug(n)
    \/ MainLoop
    \/ SwitchAway \/ SwitchBack
    \/ SignalThread

\* A descriptor that is ready wakes the loop, and the loop runs what it owes.
InputDevicesSpec ==
    /\ InputDevicesInit /\ [][InputDevicesNext]_inputDeviceVars
    /\ WF_inputDeviceVars(MainLoop) /\ WF_inputDeviceVars(SignalThread)

-----------------------------------------------------------------------------
InputDevicesTypeOK ==
    /\ plugged \subseteq Node /\ taken \subseteq Node /\ unread \subseteq Node
    /\ file \in [Fd -> [of : Node \cup {NoNode}, live : BOOLEAN]]
    /\ watched \subseteq Fd
    /\ phase \in {"new", "bound", "enumerating", "running"}
    /\ uevents \in Seq([add : BOOLEAN, node : Node])
    /\ devices \subseteq [node : Node, fd : Fd, armed : BOOLEAN, polled : BOOLEAN]
    /\ graveyard \subseteq [fd : Fd, polled : BOOLEAN]
    /\ {lastActive, dirty, active} \subseteq BOOLEAN
    /\ rows \in [Node -> 0..MaxFd]
    /\ signals \in Seq([say : {"pause", "gone", "resume", "active", "inactive"},
                        node : Node \cup {NoNode}])
    /\ sessionEvents \in Seq({"activate", "pause"})
    /\ switches \in 0..MaxSwitch /\ plugs \in 0..MaxPlug

\* No device that can be used is overlooked, whenever it was plugged in: it is
\* open, it will be opened, or the monitor still has to report what became of
\* it (evdev_backend.rs 462: the monitor is bound before the directory is read).
NoneOverlooked ==
    phase = "running" /\ FreeFds # {} =>
        \A n \in plugged \cap Usable :
            \/ \E e \in devices : e.node = n
            \/ \E i \in DOMAIN uevents : uevents[i] = [add |-> TRUE, node |-> n]

\* One descriptor per node, or every key would be typed twice, and nothing in
\* the poll set but descriptors of the backend that are open: a number leaves
\* it before the kernel can give it to somebody else.
PolledIsOurs ==
    /\ \A d, e \in devices : d.node = e.node => d = e
    /\ \A f \in watched : f \in FdsOf(devices) \cup FdsOf(graveyard)

\* A descriptor that is dead, revoked or unplugged, does not stay in the poll
\* set, where it is ready for ever: it leaves, or it comes back to life.
DeadFdIsLeft ==
    \A f \in Fd : (f \in watched /\ ~file[f].live) ~> (f \notin watched \/ file[f].live)

\* Expected to fail.  Under the descriptor of a device is that device, after
\* any number of switches (logind.rs 124: the row is what dup2 goes by).
HeldIsItself == \A e \in devices : file[e.fd].of = e.node

\* Expected to fail.  Resuming repairs what revoking broke: when the seat is
\* back and nothing is left to handle, a device that is alive is read.
BackIsTypeable ==
    phase = "running" /\ active /\ signals = <<>> /\ sessionEvents = <<>> /\ ~dirty =>
        \A e \in devices :
            file[e.fd] = [of |-> e.node, live |-> TRUE] => e.armed /\ e.fd \in watched

\* What was plugged in is open or will be, under one descriptor each, and only
\* open descriptors of the backend are polled.
DevicesAreOurs == NoneOverlooked /\ PolledIsOurs
=============================================================================
