----------------------------- MODULE WorldFile -----------------------------
(***************************************************************************)
(* How a saved world reaches the bar.  Four threads and two queues: the    *)
(* first read may outlive the patience of the start, the watcher reads     *)
(* again after each burst of saves, the seat adopts what arrives and tells *)
(* the module thread, and the module thread's answers come back on the     *)
(* same queue the worlds arrive on.                                        *)
(*                                                                         *)
(* A world is its set of bar modules; Bad is one that is refused whole.    *)
(***************************************************************************)
EXTENDS Sequences, FiniteSets, Naturals

CONSTANTS
    Worlds,         \* what may be saved: sets of module names
    Bad,            \* a file that does not parse, raises or hangs
    Module,         \* the names of bar modules
    NoWorld, NoCell,
    MaxGeneration,  \* bound on the worlds that reach the seat
    MaxBacklog        \* bound on the answers that wait behind each other

ASSUME WorldAssumption ==
    /\ Worlds \subseteq SUBSET Module
    /\ {Bad, NoWorld} \cap Worlds = {} /\ Bad # NoWorld
    /\ NoCell \notin Nat
    /\ MaxGeneration \in Nat /\ MaxBacklog \in Nat

VARIABLES
    file,           \* what the file says now
    late,           \* the first read, when it outlived FIRST_PATIENCE
    overtaken,      \* history: that read was late
    watch,          \* off, idle, settling or resolving
    event,          \* notify has told the watcher of a save
    savedSeen,           \* history: a save was watched
    reading,        \* what the watcher's worker read
    seatQ,          \* seat_rx
    standing,       \* the world in force
    generation,
    cells,          \* per module, the generation whose module sent the text
    modQ,           \* the module thread's channel
    scheduled, schedGen, \* the specs of the last Set and its generation
    due, asked,     \* modules whose time has come; the pool's open questions
    paused

fileVars == <<file, late, overtaken, watch, event, savedSeen, reading>>
adopted == <<standing, generation, cells>>
loopVars == <<scheduled, schedGen, due, asked, paused>>
worldVars == <<fileVars, seatQ, adopted, modQ, loopVars>>

-----------------------------------------------------------------------------
(* The file and its readers.                                               *)

Save(w) ==
    /\ w # file
    /\ file' = w
    /\ event' = (watch # "off" \/ event)
    /\ savedSeen' = (watch # "off")
    /\ UNCHANGED <<late, overtaken, watch, reading, seatQ, adopted, modQ, loopVars>>

\* first_world: the read that was not waited for sends what it found.
LateFirst ==
    /\ late # NoWorld
    /\ generation + Cardinality({i \in DOMAIN seatQ: seatQ[i].kind = "world"}) < MaxGeneration
    /\ seatQ' = Append(seatQ, [kind |-> "world", w |-> late])
    /\ late' = NoWorld
    /\ UNCHANGED <<file, overtaken, watch, event, savedSeen, reading, adopted, modQ, loopVars>>

WatchStarts ==
    /\ watch = "off"
    /\ watch' = "idle"
    /\ UNCHANGED <<file, late, overtaken, event, savedSeen, reading, seatQ, adopted, modQ, loopVars>>

\* The first event of a burst, then each one that follows within SETTLE.
WatchEvent ==
    /\ watch \in {"idle", "settling"} /\ event
    /\ watch' = "settling" /\ event' = FALSE
    /\ UNCHANGED <<file, late, overtaken, savedSeen, reading, seatQ, adopted, modQ, loopVars>>

ResolveStarts ==
    /\ watch = "settling" /\ ~event
    /\ watch' = "resolving" /\ reading' = file
    /\ UNCHANGED <<file, late, overtaken, event, savedSeen, seatQ, adopted, modQ, loopVars>>

\* Mutant: what was saved while the worker ran is taken for part of the burst.
ResolveDrains ==
    /\ watch = "resolving"
    /\ generation + Cardinality({i \in DOMAIN seatQ: seatQ[i].kind = "world"}) < MaxGeneration
    /\ watch' = "idle" /\ event' = FALSE
    /\ seatQ' = Append(seatQ, [kind |-> "world", w |-> reading])
    /\ UNCHANGED <<file, late, overtaken, savedSeen, reading, adopted, modQ, loopVars>>

ResolveEnds ==
    /\ watch = "resolving"
    /\ generation + Cardinality({i \in DOMAIN seatQ: seatQ[i].kind = "world"}) < MaxGeneration
    /\ watch' = "idle"
    /\ seatQ' = Append(seatQ, [kind |-> "world", w |-> reading])
    /\ UNCHANGED <<file, late, overtaken, event, savedSeen, reading, adopted, modQ, loopVars>>

-----------------------------------------------------------------------------
(* The seat.                                                               *)

\* adopt_world: a refused world is counted and the seat stays on what stood.
AdoptWorld ==
    /\ seatQ # <<>> /\ Head(seatQ).kind = "world"
    /\ seatQ' = Tail(seatQ)
    /\ generation' = generation + 1
    /\ LET w == Head(seatQ).w IN
       IF w = Bad THEN UNCHANGED <<standing, cells, modQ>>
       ELSE /\ standing' = w
            /\ cells' = [n \in Module |-> IF n \in w THEN cells[n] ELSE NoCell]
            /\ modQ' = Append(modQ, [kind |-> "set", w |-> w, gen |-> generation'])
    /\ UNCHANGED <<fileVars, loopVars>>

\* Cell and ModuleRefused: set_cell asks nobody whether the module still stands.
SetCell ==
    /\ seatQ # <<>> /\ Head(seatQ).kind = "cell"
    /\ seatQ' = Tail(seatQ)
    /\ cells' = [cells EXCEPT ![Head(seatQ).name] = Head(seatQ).text]
    /\ UNCHANGED <<fileVars, standing, generation, modQ, loopVars>>

\* blank_panel and note_input.
BarControl(k) ==
    /\ Len(modQ) < MaxBacklog
    /\ ~\E i \in DOMAIN modQ: modQ[i].kind # "set"
    /\ k = (IF paused THEN "resume" ELSE "pause")
    /\ modQ' = Append(modQ, [kind |-> k, w |-> {}, gen |-> 0])
    /\ UNCHANGED <<fileVars, seatQ, adopted, loopVars>>

-----------------------------------------------------------------------------
(* module_loop.                                                            *)

\* Mutant: the specs change under the workers that are answering.
LoopSetInPlace ==
    /\ modQ # <<>> /\ Head(modQ).kind = "set"
    /\ modQ' = Tail(modQ)
    /\ scheduled' = Head(modQ).w /\ schedGen' = Head(modQ).gen
    /\ due' = Head(modQ).w
    /\ UNCHANGED <<fileVars, seatQ, adopted, asked, paused>>

\* restart_all: the questions that are open are answered to nobody.
LoopSet ==
    /\ modQ # <<>> /\ Head(modQ).kind = "set"
    /\ modQ' = Tail(modQ)
    /\ scheduled' = Head(modQ).w /\ schedGen' = Head(modQ).gen
    /\ due' = Head(modQ).w
    /\ asked' = [n \in Module |-> NoCell]
    /\ UNCHANGED <<fileVars, seatQ, adopted, paused>>

LoopPause ==
    /\ modQ # <<>> /\ Head(modQ).kind = "pause"
    /\ modQ' = Tail(modQ)
    /\ paused' = TRUE
    /\ asked' = [n \in Module |-> NoCell]
    /\ UNCHANGED <<fileVars, seatQ, adopted, scheduled, schedGen, due>>

LoopResume ==
    /\ modQ # <<>> /\ Head(modQ).kind = "resume"
    /\ modQ' = Tail(modQ)
    /\ paused' = FALSE
    /\ due' = scheduled
    /\ UNCHANGED <<fileVars, seatQ, adopted, scheduled, schedGen, asked>>

\* The timeout with nothing in the channel: what is due is asked.
LoopAsk(n) ==
    /\ modQ = <<>> /\ ~paused /\ n \in due
    /\ due' = due \ {n}
    /\ asked' = [asked EXCEPT ![n] = schedGen]
    /\ UNCHANGED <<fileVars, seatQ, adopted, modQ, scheduled, schedGen, paused>>

LoopPeriod(n) ==
    /\ n \in scheduled \ due /\ asked[n] = NoCell
    /\ due' = due \cup {n}
    /\ UNCHANGED <<fileVars, seatQ, adopted, modQ, scheduled, schedGen, asked, paused>>

\* A text, or a refusal, an empty line or a dead worker: the cell empties.
Answered(n, text) ==
    /\ asked[n] # NoCell
    /\ text \in {asked[n], NoCell}
    /\ Len(seatQ) < MaxBacklog
    /\ seatQ' = Append(seatQ, [kind |-> "cell", name |-> n, text |-> text])
    /\ asked' = [asked EXCEPT ![n] = NoCell]
    /\ UNCHANGED <<fileVars, adopted, modQ, scheduled, schedGen, due, paused>>

WorldInit ==
    /\ file \in Worlds
    /\ \/ standing = file /\ late = NoWorld /\ overtaken = FALSE
       \/ standing = {} /\ late = file /\ overtaken = TRUE
    /\ watch = "off" /\ event = FALSE /\ savedSeen = FALSE /\ reading = NoWorld
    /\ seatQ = <<>> /\ generation = 1
    /\ cells = [n \in Module |-> NoCell]
    /\ modQ = <<[kind |-> "set", w |-> standing, gen |-> 1]>>
    /\ scheduled = {} /\ schedGen = 0 /\ due = {} /\ paused = FALSE
    /\ asked = [n \in Module |-> NoCell]

WorldNext ==
    \/ \E w \in Worlds \cup {Bad}: Save(w)
    \/ LateFirst \/ WatchStarts \/ WatchEvent \/ ResolveStarts \/ ResolveEnds
    \/ AdoptWorld \/ SetCell
    \/ \E k \in {"pause", "resume"}: BarControl(k)
    \/ LoopSet \/ LoopPause \/ LoopResume
    \/ \E n \in Module:
          \/ LoopAsk(n) \/ LoopPeriod(n)
          \/ \E text \in 0..MaxGeneration \cup {NoCell}: Answered(n, text)

WorldSpec == WorldInit /\ [][WorldNext]_worldVars

-----------------------------------------------------------------------------
(* Properties.                                                             *)

WorldTypeOK ==
    /\ file \in Worlds \cup {Bad} /\ late \in Worlds \cup {NoWorld}
    /\ reading \in Worlds \cup {Bad, NoWorld} /\ standing \in Worlds \cup {{}}
    /\ {overtaken, event, savedSeen, paused} \subseteq BOOLEAN
    /\ watch \in {"off", "idle", "settling", "resolving"}
    /\ generation \in 1..MaxGeneration
    /\ cells \in [Module -> 0..MaxGeneration \cup {NoCell}]
    /\ asked \in [Module -> 0..MaxGeneration \cup {NoCell}]
    /\ due \subseteq scheduled /\ scheduled \subseteq Module

\* Nothing is on its way from the file to the seat.
Arrived ==
    /\ watch = "idle" /\ ~event /\ late = NoWorld
    /\ \A i \in DOMAIN seatQ: seatQ[i].kind # "world"

\* However the saves fall on the watcher's burst, its worker and the queue, the
\* seat ends on what the file says; two exceptions are the code's: a save
\* before the watch began, and a first read that came late and overtook it.
SavedStands == Arrived /\ savedSeen /\ ~overtaken => file \in {standing, Bad}

\* What reaches the seat's queue is the answer of a module as it stands: the
\* specs never change under a worker whose question is still open.
AnswersOfTheLastSet ==
    [][Len(seatQ') > Len(seatQ) /\ seatQ'[Len(seatQ')].kind = "cell"
         => seatQ'[Len(seatQ')].text \in {schedGen, NoCell}]_worldVars

\* Saving a file takes effect at once: what a removed module said is not shown.
CellsOfTheWorld == \A n \in Module: cells[n] # NoCell => n \in standing

\* What the operator saved last is what stands, or is on its way there, and the
\* cells never take an answer to an earlier world's question.
TheLastWorldStands == []SavedStands /\ AnswersOfTheLastSet
=============================================================================
