----------------------------- MODULE MCServices -----------------------------
(***************************************************************************)
(* The services around the frame loop, for TLC: the idle clock and the     *)
(* lock client's supervisor (SeatClock), the notification child (Notes),   *)
(* the input devices logind hands out (InputDevices) and the captures of   *)
(* the screen (Capture).  They share no variable: a behaviour picks one    *)
(* and runs it, the others stay in one initial state each.                 *)
(***************************************************************************)
EXTENDS SeatClock, Notes, InputDevices, Capture

CONSTANTS surface1, surface2, node1, node2, shot1

VARIABLE part       \* the component this behaviour runs

\* Blank after one second and lock after two; no policy and no lock client.
SomePolicies == {[blank |-> 1, lock |-> 2, client |-> TRUE],
                 [blank |-> Never, lock |-> Never, client |-> FALSE]}

\* On an output of 2 by 2, a region half off it and one wholly off it.
SomeRegions == {<<-1, 0, 2, 1>>, <<2, 2, 1, 1>>}
SmallOutput == <<2, 2>>

\* A component that is not looked at starts in one state.
Rests(p, v, S) == part = p \/ v = CHOOSE x \in S : TRUE

ServicesInit ==
    /\ part \in {"clock", "notes", "devices", "capture"}
    /\ SeatClockInit /\ NotesInit /\ InputDevicesInit /\ CaptureInit
    /\ Rests("clock", policy, Policies) /\ Rests("devices", plugged, SUBSET Node)

ServicesNext ==
    /\ UNCHANGED part
    /\ \/ /\ part = "clock" /\ SeatClockNext
          /\ UNCHANGED <<notesVars, inputDeviceVars, captureVars>>
       \/ /\ part = "notes" /\ NotesNext
          /\ UNCHANGED <<seatClockVars, inputDeviceVars, captureVars>>
       \/ /\ part = "devices" /\ InputDevicesNext
          /\ UNCHANGED <<seatClockVars, notesVars, captureVars>>
       \/ /\ part = "capture" /\ CaptureNext
          /\ UNCHANGED <<seatClockVars, notesVars, inputDeviceVars>>

\* The fairness of the component that runs, as its own module has it.
ServicesFairness ==
    /\ WF_seatClockVars(part = "clock" /\ SeatTick)
    /\ WF_seatClockVars(part = "clock" /\ Second)
    /\ SF_seatClockVars(part = "clock" /\ ClientAsks)
    /\ WF_notesVars(part = "notes" /\ NoticeDeath)
    /\ WF_notesVars(part = "notes" /\ WaitEnds)
    /\ WF_inputDeviceVars(part = "devices" /\ MainLoop)
    /\ WF_inputDeviceVars(part = "devices" /\ SignalThread)
    /\ WF_captureVars(part = "capture" /\ FrameLoop)
    /\ WF_captureVars(part = "capture" /\ Vblank)
    /\ WF_captureVars(part = "capture" /\ gate = "refused" /\ SceneReturns)

servicesVars == <<part, seatClockVars, notesVars, inputDeviceVars, captureVars>>
ServicesSpec == ServicesInit /\ [][ServicesNext]_servicesVars /\ ServicesFairness

\* Every variable of the four components is in its type.
ServicesTypeOK ==
    /\ SeatClockTypeOK /\ NotesTypeOK /\ InputDevicesTypeOK /\ CaptureTypeOK

\* Nothing dead stays in use: a locked session that nobody holds gets a lock
\* client, the notification child is started again, and a descriptor that is
\* revoked or unplugged leaves the poll set or comes back to life.
NothingStaysDead == VacantIsServed /\ ChildComesBack /\ DeadFdIsLeft
=============================================================================
