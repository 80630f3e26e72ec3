------------------------- MODULE LockSurfaceProofs -------------------------
(***************************************************************************)
(* Proofs about the surfaces of the lock, for any surfaces, outputs and    *)
(* locks.  SurfaceInv says of every mapped surface whose it is, and of      *)
(* every surface what it may show; it adds to LockInv, the invariant of    *)
(* the machine the surfaces belong to.  That the machine the protocol sees *)
(* is the machine SessionLock describes is shown step by step, and what    *)
(* was proved of that one is then had for nothing.                         *)
(*                                                                         *)
(* LockScreenHolds is proved with one handle of the output (OneHandle): a  *)
(* client that binds the output twice can give its lock two surfaces, and  *)
(* when the first is gone the second shows and is not typed at.            *)
(***************************************************************************)
EXTENDS LockSurface, SessionLockProofs, ListProofs

MapEntry == [lock : LockId, surface : Surface, output : OutputHandle]

\* Every mapped surface is its lock's own, and its lock was handed out.
SurfacesAreTheirs ==
    \A m \in ToSet(surfaces) :
        m.lock \in minted /\ surf[m.surface].owner = m.lock /\ surf[m.surface].role = "lock"

\* A surface without the role belongs to nobody and shows nothing.
RolesAreMinted ==
    \A s \in Surface : IF surf[s].role = "lock" THEN surf[s].owner \in minted
                       ELSE surf[s].content = "none"

\* What a client that is not being disconnected shows was acked and fits.
ShownIsLegal ==
    \A s \in Surface :
        surf[s].role = "lock" /\ surf[s].content # "none" /\ client[surf[s].owner] = "here" =>
            surf[s].configure = "acked" /\ surf[s].content = "fits"

SurfaceInv == LockInv /\ LockSurfaceTypeOK /\ SurfacesAreTheirs /\ RolesAreMinted /\ ShownIsLegal

LEMMA SurfacesTyped ==
    ASSUME LockSurfaceTypeOK
    PROVE  surfaces \in Seq(MapEntry) /\ ToSet(surfaces) \subseteq MapEntry
<1>1. surfaces \in Seq(MapEntry)
  BY DEF LockSurfaceTypeOK, MapEntry
<1>2. \A i \in DOMAIN surfaces : surfaces[i] \in MapEntry
  BY <1>1
<1> QED BY <1>1, <1>2 DEF ToSet

LEMMA InitSurfaceInv == LockSurfaceInit => SurfaceInv
<1> SUFFICES ASSUME LockSurfaceInit PROVE SurfaceInv
  OBVIOUS
<1>1. LockInv
  BY LockInitInv DEF LockSurfaceInit
<1>2. LockSurfaceTypeOK
  <2>1. surf \in [Surface -> [owner : LockId \cup {NoLock}, role : {"none", "lock", "dead"},
                             configure : {"none", "sent", "acked"},
                             content : {"none", "fits", "misfits"}]]
    BY DEF LockSurfaceInit, Untouched, Surf
  <2>2. LockTypeOK /\ frameOwed \in BOOLEAN /\ keyFocus \in {AWindow}
    BY <1>1 DEF LockSurfaceInit, LockInv
  <2>3. client \in [LockId -> {"none", "here", "killed", "gone"}]
    BY DEF LockSurfaceInit
  <2>4. surfaces \in Seq([lock : LockId, surface : Surface, output : OutputHandle])
    BY DEF LockSurfaceInit
  <2>5. gaveUp \subseteq minted
    BY DEF LockSurfaceInit
  <2> QED BY <2>1, <2>2, <2>3, <2>4, <2>5 DEF LockSurfaceTypeOK
<1>3. SurfacesAreTheirs /\ RolesAreMinted /\ ShownIsLegal
  BY DEF LockSurfaceInit, SurfacesAreTheirs, RolesAreMinted, ShownIsLegal, ToSet, Untouched, Surf
<1> QED BY <1>1, <1>2, <1>3 DEF SurfaceInv

\* Every step of the lock surfaces is a step of the session lock, or none of its.
LEMMA SurfaceStepIsLockStep ==
    [LockSurfaceNext]_lockSurfaceVars => [LockNext]_lockVars
<1> SUFFICES ASSUME [LockSurfaceNext]_lockSurfaceVars PROVE [LockNext]_lockVars
  OBVIOUS
<1>1. ASSUME NEW id \in LockId, \/ RequestLock(id) \/ Opened(id)
                               \/ RefuseUnlock(id) \/ DestroyLock(id) \/ ClientGone(id)
      PROVE  [LockNext]_lockVars
  BY <1>1 DEF RequestLock, Opened, RefuseUnlock, DestroyLock, ClientGone, LockNext, Lock
<1>2. ASSUME LockSession \/ DrawFrame \/ GlassReports PROVE [LockNext]_lockVars
  BY <1>2 DEF LockSession, DrawFrame, GlassReports, LockNext
<1>3. CASE UNCHANGED lockVars
  BY <1>3
<1> QED BY <1>1, <1>2, <1>3 DEF LockSurfaceNext, lockSurfaceVars, ClientErrs, GetLockSurface,
           AckConfigure, DestroyLockSurface, Commit

LEMMA NextLockInv ==
    SurfaceInv /\ [LockSurfaceNext]_lockSurfaceVars =>
        LockInv' /\ minted \subseteq minted' /\ gaveUp' \subseteq minted'
<1> SUFFICES ASSUME SurfaceInv, [LockSurfaceNext]_lockSurfaceVars
             PROVE  LockInv' /\ minted \subseteq minted' /\ gaveUp' \subseteq minted'
  OBVIOUS
<1>1. LockInv'
  BY SurfaceStepIsLockStep, LockNextInv DEF SurfaceInv
<1>2. minted \subseteq minted'
  BY SurfaceStepIsLockStep
     DEF LockNext, Lock, GrantOpen, GrantTakeover, FinishLock, MintFresh, UnlockOpens, UnlockRefused,
         LoseObject, Forget, CompositorLock, FrameFlipped, FrameRetired, OnGlassNow, CoverGlass, wire, lockVars
<1>3. gaveUp' \subseteq minted'
  <2>1. gaveUp \subseteq minted
    BY DEF SurfaceInv, LockSurfaceTypeOK
  <2>2. ASSUME NEW id \in LockId, DestroyLock(id) PROVE gaveUp' \subseteq minted'
    <3>1. id \in minted /\ gaveUp' \subseteq gaveUp \cup {id}
      BY <2>2 DEF DestroyLock, LoseObject, Forget, SurfaceInv, LockInv, LockTypeOK
    <3> QED BY <1>2, <2>1, <3>1
  <2>3. CASE gaveUp' = gaveUp
    BY <1>2, <2>1, <2>3
  <2> QED BY <2>2, <2>3
         DEF LockSurfaceNext, lockSurfaceVars, RequestLock, Opened, RefuseUnlock, ClientGone, ClientErrs,
             GetLockSurface, AckConfigure, DestroyLockSurface, Commit, LockSession, DrawFrame, GlassReports
<1> QED BY <1>1, <1>2, <1>3

-----------------------------------------------------------------------------
(* What the lists of the holder's surfaces hold.                           *)

\* surfaces_of_holder lists the mapped surfaces of the holder.
LEMMA HolderSurfaces ==
    ASSUME SurfaceInv
    PROVE  /\ SurfacesOfHolder \in Seq(Surface)
           /\ ToSet(SurfacesOfHolder) =
                 {m.surface : m \in {e \in ToSet(surfaces) : e.lock = holder}}
<1> DEFINE ours == {m \in ToSet(surfaces) : m.lock = holder /\ surf[m.surface].role # "dead"}
           its == Sift(surfaces, ours)
<1>1. surfaces \in Seq(MapEntry) /\ ToSet(surfaces) \subseteq MapEntry
  BY SurfacesTyped DEF SurfaceInv
<1>2. ours = {e \in ToSet(surfaces) : e.lock = holder}
  BY DEF SurfaceInv, SurfacesAreTheirs
<1>3. CASE holder = NoLock
  <2>1. ours = {}
    BY <1>1, <1>2, <1>3, NoLockAssumption DEF MapEntry
  <2>2. SurfacesOfHolder = <<>>
    BY <1>3 DEF SurfacesOfHolder
  <2> HIDE DEF ours
  <2> QED BY <2>1, <2>2, <1>2 DEF ToSet
<1>4. CASE holder # NoLock
  <2>1. SurfacesOfHolder = [i \in DOMAIN its |-> its[i].surface]
    BY <1>4 DEF SurfacesOfHolder
  <2> HIDE DEF ours
  <2>2. its \in Seq(MapEntry) /\ ToSet(its) = ours
    <3>1. ToSet(its) = ToSet(surfaces) \cap ours
      BY <1>1, SiftElements
    <3>2. ours \subseteq ToSet(surfaces)
      BY <1>2
    <3> QED BY <1>1, <3>1, <3>2, SiftTyped
  <2> HIDE DEF its
  <2>3. SurfacesOfHolder \in Seq(Surface)
    <3>1. \A i \in 1..Len(its) : its[i].surface \in Surface
      <4>1. \A i \in 1..Len(its) : its[i] \in MapEntry
        BY <2>2
      <4>2. \A m \in MapEntry : m.surface \in Surface
        BY DEF MapEntry
      <4> QED BY <4>1, <4>2
    <3>2. DOMAIN its = 1..Len(its) /\ Len(its) \in Nat
      BY <2>2
    <3> QED BY <2>1, <3>1, <3>2
  <2>4. DOMAIN SurfacesOfHolder = DOMAIN its
    BY <2>1
  <2>5. ToSet(SurfacesOfHolder) = {m.surface : m \in ToSet(its)}
    BY <2>1, <2>4 DEF ToSet
  <2> QED BY <2>2, <2>3, <2>5, <1>2
<1> QED BY <1>3, <1>4

-----------------------------------------------------------------------------
(* The invariant is inductive.                                             *)

\* A step that leaves the surfaces alone and brings no client back to life.
LEMMA SurfacesAlone ==
    ASSUME SurfaceInv, [LockSurfaceNext]_lockSurfaceVars, UNCHANGED <<surfaces, surf>>,
           client' \in [LockId -> {"none", "here", "killed", "gone"}],
           \A id \in minted : client'[id] = "here" => client[id] = "here",
           keyFocus' \in Surface \cup {Nowhere, AWindow}, frameOwed' \in BOOLEAN
    PROVE  SurfaceInv'
<1>1. LockInv' /\ minted \subseteq minted' /\ gaveUp' \subseteq minted'
  BY NextLockInv
<1>2. LockSurfaceTypeOK'
  BY <1>1 DEF SurfaceInv, LockSurfaceTypeOK, LockInv
<1>3. SurfacesAreTheirs' /\ RolesAreMinted'
  BY <1>1 DEF SurfaceInv, SurfacesAreTheirs, RolesAreMinted
<1>4. ShownIsLegal'
  BY DEF SurfaceInv, ShownIsLegal, RolesAreMinted
<1> QED BY <1>1, <1>2, <1>3, <1>4 DEF SurfaceInv

LEMMA RequestKeeps ==
    ASSUME SurfaceInv, [LockSurfaceNext]_lockSurfaceVars, NEW id \in LockId, RequestLock(id)
    PROVE  SurfaceInv'
<1>1. id \notin minted /\ client' = [client EXCEPT ![id] = "here"]
  BY DEF RequestLock, GrantOpen, GrantTakeover, FinishLock, MintFresh
<1>2. keyFocus' \in Surface \cup {Nowhere, AWindow} /\ frameOwed' \in BOOLEAN
  BY DEF RequestLock, SessionShut, shellVars, SurfaceInv, LockSurfaceTypeOK
<1>3. minted \subseteq LockId /\ client \in [LockId -> {"none", "here", "killed", "gone"}]
  BY DEF SurfaceInv, LockInv, LockTypeOK, LockSurfaceTypeOK
<1> QED BY <1>1, <1>2, <1>3, SurfacesAlone DEF RequestLock

LEMMA EndKeeps ==
    ASSUME SurfaceInv, [LockSurfaceNext]_lockSurfaceVars, NEW id \in LockId,
           RefuseUnlock(id) \/ DestroyLock(id) \/ ClientErrs(id)
    PROVE  SurfaceInv'
<1>1. client' = [client EXCEPT ![id] = "killed"] \/ client' = client
  BY DEF RefuseUnlock, DestroyLock, ClientErrs, PostError
<1>2. keyFocus' \in Surface \cup {Nowhere, AWindow} /\ frameOwed' \in BOOLEAN
  BY DEF RefuseUnlock, DestroyLock, ClientErrs, Vacant, shellVars, SurfaceInv, LockSurfaceTypeOK
<1>3. minted \subseteq LockId /\ client \in [LockId -> {"none", "here", "killed", "gone"}]
  BY DEF SurfaceInv, LockInv, LockTypeOK, LockSurfaceTypeOK
<1> QED BY <1>1, <1>2, <1>3, SurfacesAlone DEF RefuseUnlock, DestroyLock, ClientErrs

LEMMA FrameKeeps ==
    ASSUME SurfaceInv, [LockSurfaceNext]_lockSurfaceVars,
           LockSession \/ DrawFrame \/ GlassReports \/ UNCHANGED lockSurfaceVars
    PROVE  SurfaceInv'
<1>1. UNCHANGED <<surfaces, surf, client>>
  BY DEF LockSession, DrawFrame, GlassReports, lockSurfaceVars, clientVars
<1>2. keyFocus' \in Surface \cup {Nowhere, AWindow} /\ frameOwed' \in BOOLEAN
  BY DEF LockSession, DrawFrame, GlassReports, lockSurfaceVars, SessionShut, shellVars, SurfaceInv,
         LockSurfaceTypeOK
<1> QED BY <1>1, <1>2, SurfacesAlone DEF SurfaceInv, LockSurfaceTypeOK

LEMMA OpenedKeeps ==
    ASSUME SurfaceInv, [LockSurfaceNext]_lockSurfaceVars, NEW id \in LockId, Opened(id)
    PROVE  SurfaceInv'
<1>1. LockInv' /\ minted \subseteq minted' /\ gaveUp' \subseteq minted'
  BY NextLockInv
<1>2. surfaces' = <<>> /\ UNCHANGED <<surf, client>> /\ frameOwed' = TRUE
      /\ keyFocus' \in {AWindow, keyFocus}
  BY DEF Opened, clientVars
<1>3. LockSurfaceTypeOK'
  <2>1. <<>> \in Seq([lock : LockId, surface : Surface, output : OutputHandle])
    OBVIOUS
  <2> QED BY <1>1, <1>2, <2>1 DEF SurfaceInv, LockSurfaceTypeOK, LockInv
<1>4. SurfacesAreTheirs'
  BY <1>2 DEF SurfacesAreTheirs, ToSet
<1>5. RolesAreMinted' /\ ShownIsLegal'
  BY <1>1, <1>2 DEF SurfaceInv, RolesAreMinted, ShownIsLegal
<1> QED BY <1>1, <1>3, <1>4, <1>5 DEF SurfaceInv

\* Dropping mapped surfaces keeps what is true of each of them.
LEMMA DropTyped ==
    ASSUME SurfaceInv, NEW keep, surfaces' = Sift(surfaces, keep)
    PROVE  /\ surfaces' \in Seq(MapEntry)
           /\ ToSet(surfaces)' = ToSet(surfaces) \cap keep
<1>1. surfaces \in Seq(MapEntry)
  BY SurfacesTyped DEF SurfaceInv
<1>2. ToSet(surfaces') = ToSet(surfaces) \cap keep /\ surfaces' \in Seq(MapEntry)
  BY <1>1, SiftElements, SiftTyped
<1>3. ToSet(surfaces)' = ToSet(surfaces')
  BY DEF ToSet
<1> QED BY <1>2, <1>3

LEMMA GoneKeeps ==
    ASSUME SurfaceInv, [LockSurfaceNext]_lockSurfaceVars, NEW id \in LockId, ClientGone(id)
    PROVE  SurfaceInv'
<1>1. LockInv' /\ minted \subseteq minted' /\ gaveUp' \subseteq minted'
  BY NextLockInv
<1>2. /\ client' = [client EXCEPT ![id] = "gone"]
      /\ surf' = [s \in Surface |-> IF surf[s].owner = id THEN Dead ELSE surf[s]]
      /\ surfaces' = Sift(surfaces, {m \in ToSet(surfaces) : m.lock # id})
      /\ keyFocus' = IF IsHolder(id) THEN Nowhere ELSE keyFocus
      /\ frameOwed' \in BOOLEAN
  BY DEF ClientGone, SurfaceInv, LockSurfaceTypeOK
<1>3. surfaces' \in Seq(MapEntry) /\ ToSet(surfaces)' = {m \in ToSet(surfaces) : m.lock # id}
  BY <1>2, DropTyped
<1>4. LockSurfaceTypeOK'
  <2>1. surf' \in [Surface -> [owner : LockId \cup {NoLock}, role : {"none", "lock", "dead"},
                              configure : {"none", "sent", "acked"},
                              content : {"none", "fits", "misfits"}]]
    BY <1>2 DEF SurfaceInv, LockSurfaceTypeOK, Dead, Surf
  <2> QED BY <1>1, <1>2, <1>3, <2>1 DEF SurfaceInv, LockSurfaceTypeOK, LockInv, MapEntry
<1>5. SurfacesAreTheirs'
  <2>1. \A m \in ToSet(surfaces) : m \in MapEntry
    BY SurfacesTyped DEF SurfaceInv
  <2>2. ASSUME NEW m \in ToSet(surfaces), m.lock # id
        PROVE  /\ m.lock \in minted' /\ surf'[m.surface].owner = m.lock
               /\ surf'[m.surface].role = "lock"
    BY <1>1, <1>2, <2>1, <2>2 DEF SurfaceInv, SurfacesAreTheirs, MapEntry
  <2> QED BY <1>3, <2>2 DEF SurfacesAreTheirs
<1>6. RolesAreMinted'
  BY <1>1, <1>2 DEF SurfaceInv, RolesAreMinted, Dead, Surf
<1>7. ShownIsLegal'
  BY <1>2 DEF SurfaceInv, ShownIsLegal, Dead, Surf
<1> QED BY <1>1, <1>4, <1>5, <1>6, <1>7 DEF SurfaceInv

LEMMA DestroyKeeps ==
    ASSUME SurfaceInv, [LockSurfaceNext]_lockSurfaceVars, NEW s \in Surface, DestroyLockSurface(s)
    PROVE  SurfaceInv'
<1>1. LockInv' /\ minted \subseteq minted' /\ gaveUp' \subseteq minted'
  BY NextLockInv
<1>2. /\ surf' = [surf EXCEPT ![s] = Dead]
      /\ surfaces' = Sift(surfaces, {m \in ToSet(surfaces) : m.surface # s})
      /\ frameOwed' = TRUE /\ UNCHANGED <<client, keyFocus>>
  BY DEF DestroyLockSurface
<1>3. surfaces' \in Seq(MapEntry) /\ ToSet(surfaces)' = {m \in ToSet(surfaces) : m.surface # s}
  BY <1>2, DropTyped
<1>4. LockSurfaceTypeOK'
  <2>1. surf' \in [Surface -> [owner : LockId \cup {NoLock}, role : {"none", "lock", "dead"},
                              configure : {"none", "sent", "acked"},
                              content : {"none", "fits", "misfits"}]]
    BY <1>2 DEF SurfaceInv, LockSurfaceTypeOK, Dead, Surf
  <2> QED BY <1>1, <1>2, <1>3, <2>1 DEF SurfaceInv, LockSurfaceTypeOK, LockInv, MapEntry
<1>5. SurfacesAreTheirs'
  <2>1. \A m \in ToSet(surfaces) : m \in MapEntry
    BY SurfacesTyped DEF SurfaceInv
  <2>2. ASSUME NEW m \in ToSet(surfaces), m.surface # s
        PROVE  /\ m.lock \in minted' /\ surf'[m.surface].owner = m.lock
               /\ surf'[m.surface].role = "lock"
    BY <1>1, <1>2, <2>1, <2>2 DEF SurfaceInv, SurfacesAreTheirs, MapEntry, LockSurfaceTypeOK
  <2> QED BY <1>3, <2>2 DEF SurfacesAreTheirs
<1>6. RolesAreMinted'
  BY <1>1, <1>2 DEF SurfaceInv, RolesAreMinted, Dead, Surf, LockSurfaceTypeOK
<1>7. ShownIsLegal'
  BY <1>2 DEF SurfaceInv, ShownIsLegal, Dead, Surf, LockSurfaceTypeOK
<1> QED BY <1>1, <1>4, <1>5, <1>6, <1>7 DEF SurfaceInv

LEMMA MapKeeps ==
    ASSUME SurfaceInv, [LockSurfaceNext]_lockSurfaceVars, NEW id \in LockId, NEW s \in Surface,
           NEW o \in OutputHandle, GetLockSurface(id, s, o)
    PROVE  SurfaceInv'
<1> DEFINE e == MappedSurface(id, s, o)
<1>1. LockInv' /\ minted \subseteq minted' /\ gaveUp' \subseteq minted'
  BY NextLockInv
<1>2. /\ surf[s] = Untouched /\ id \in minted
      /\ surf' = [surf EXCEPT ![s] = Configured(id)]
      /\ surfaces' = Append(surfaces, e)
      /\ UNCHANGED <<client, keyFocus, frameOwed>>
  BY DEF GetLockSurface, shellVars, SurfaceInv, LockInv, LockTypeOK
<1>3. e \in MapEntry /\ e.lock = id /\ e.surface = s
  BY DEF MapEntry, MappedSurface
<1>4. surfaces' \in Seq(MapEntry) /\ ToSet(surfaces)' = ToSet(surfaces) \cup {e}
  <2>1. surfaces \in Seq(MapEntry)
    BY SurfacesTyped DEF SurfaceInv
  <2>2. ToSet(surfaces)' = ToSet(Append(surfaces, e))
    BY <1>2 DEF ToSet
  <2> HIDE DEF e
  <2> QED BY <1>2, <1>3, <2>1, <2>2, AppendElements
<1>5. LockSurfaceTypeOK'
  <2>1. surf' \in [Surface -> [owner : LockId \cup {NoLock}, role : {"none", "lock", "dead"},
                              configure : {"none", "sent", "acked"},
                              content : {"none", "fits", "misfits"}]]
    BY <1>2 DEF SurfaceInv, LockSurfaceTypeOK, Configured, Surf
  <2> HIDE DEF e
  <2> QED BY <1>1, <1>2, <1>4, <2>1 DEF SurfaceInv, LockSurfaceTypeOK, LockInv, MapEntry
<1> HIDE DEF e
<1>6. SurfacesAreTheirs'
  <2>1. \A m \in ToSet(surfaces) : m \in MapEntry
    BY SurfacesTyped DEF SurfaceInv
  <2>2. ASSUME NEW m \in ToSet(surfaces)
        PROVE  /\ m.lock \in minted' /\ surf'[m.surface].owner = m.lock
               /\ surf'[m.surface].role = "lock"
    BY <1>1, <1>2, <2>1 DEF SurfaceInv, SurfacesAreTheirs, MapEntry, LockSurfaceTypeOK, Untouched, Surf
  <2>3. e.lock \in minted' /\ surf'[e.surface].owner = e.lock /\ surf'[e.surface].role = "lock"
    BY <1>1, <1>2, <1>3 DEF Configured, Surf, SurfaceInv, LockSurfaceTypeOK
  <2> QED BY <1>4, <2>2, <2>3 DEF SurfacesAreTheirs
<1>7. RolesAreMinted'
  BY <1>1, <1>2 DEF SurfaceInv, RolesAreMinted, Configured, Surf, LockSurfaceTypeOK
<1>8. ShownIsLegal'
  BY <1>2 DEF SurfaceInv, ShownIsLegal, Configured, Surf, LockSurfaceTypeOK
<1> QED BY <1>1, <1>5, <1>6, <1>7, <1>8 DEF SurfaceInv

\* A step that changes what a surface with the role has acked or shows.
LEMMA ChangeKeeps ==
    ASSUME SurfaceInv, [LockSurfaceNext]_lockSurfaceVars, NEW s \in Surface, NEW r,
           surf[s].role = "lock", surf' = [surf EXCEPT ![s] = r],
           r \in [owner : {surf[s].owner}, role : {"lock"}, configure : {"none", "sent", "acked"},
                  content : {"none", "fits", "misfits"}],
           client' = client \/ client' = [client EXCEPT ![surf[s].owner] = "killed"],
           client'[surf[s].owner] = "here" /\ r.content # "none" =>
               r.configure = "acked" /\ r.content = "fits",
           surfaces' = surfaces, keyFocus' \in Surface \cup {Nowhere, AWindow}, frameOwed' \in BOOLEAN
    PROVE  SurfaceInv'
<1>1. LockInv' /\ minted \subseteq minted' /\ gaveUp' \subseteq minted'
  BY NextLockInv
<1>2. surf[s].owner \in LockId
  BY DEF SurfaceInv, RolesAreMinted, LockInv, LockTypeOK
<1>3. LockSurfaceTypeOK'
  <2>1. surf' \in [Surface -> [owner : LockId \cup {NoLock}, role : {"none", "lock", "dead"},
                              configure : {"none", "sent", "acked"},
                              content : {"none", "fits", "misfits"}]]
    BY <1>2 DEF SurfaceInv, LockSurfaceTypeOK
  <2>2. client' \in [LockId -> {"none", "here", "killed", "gone"}]
    BY <1>2 DEF SurfaceInv, LockSurfaceTypeOK
  <2> QED BY <1>1, <2>1, <2>2 DEF SurfaceInv, LockSurfaceTypeOK, LockInv
<1>4. SurfacesAreTheirs'
  <2>1. ASSUME NEW m \in ToSet(surfaces)
        PROVE  /\ m.lock \in minted' /\ surf'[m.surface].owner = m.lock
               /\ surf'[m.surface].role = "lock"
    <3>1. m.surface \in Surface
      BY SurfacesTyped DEF SurfaceInv, MapEntry
    <3> QED BY <1>1, <3>1 DEF SurfaceInv, SurfacesAreTheirs, LockSurfaceTypeOK
  <2> QED BY <2>1 DEF SurfacesAreTheirs
<1>5. RolesAreMinted'
  BY <1>1 DEF SurfaceInv, RolesAreMinted, LockSurfaceTypeOK
<1>6. ShownIsLegal'
  <2>1. ASSUME NEW x \in Surface, x # s, surf'[x].role = "lock", surf'[x].content # "none",
               client'[surf'[x].owner] = "here"
        PROVE  surf'[x].configure = "acked" /\ surf'[x].content = "fits"
    <3>1. surf'[x] = surf[x] /\ surf[x].owner \in LockId
      BY <2>1 DEF SurfaceInv, LockSurfaceTypeOK, RolesAreMinted, LockInv, LockTypeOK
    <3>2. client[surf[x].owner] = "here"
      BY <2>1, <3>1, <1>2 DEF SurfaceInv, LockSurfaceTypeOK
    <3> QED BY <2>1, <3>1, <3>2 DEF SurfaceInv, ShownIsLegal
  <2>2. surf'[s] = r /\ r.owner = surf[s].owner
    BY DEF SurfaceInv, LockSurfaceTypeOK
  <2> QED BY <2>1, <2>2 DEF ShownIsLegal
<1> QED BY <1>1, <1>3, <1>4, <1>5, <1>6 DEF SurfaceInv

LEMMA AckKeeps ==
    ASSUME SurfaceInv, [LockSurfaceNext]_lockSurfaceVars, NEW s \in Surface, AckConfigure(s)
    PROVE  SurfaceInv'
<1> DEFINE r == [surf[s] EXCEPT !.configure = "acked"]
<1>1. /\ surf[s].role = "lock" /\ surf' = [surf EXCEPT ![s] = r] /\ surfaces' = surfaces
      /\ client' = client /\ keyFocus' = keyFocus /\ frameOwed' = frameOwed
  BY DEF AckConfigure, shellVars
<1>2. surf[s] \in [owner : LockId \cup {NoLock}, role : {"none", "lock", "dead"},
                   configure : {"none", "sent", "acked"}, content : {"none", "fits", "misfits"}]
  BY DEF SurfaceInv, LockSurfaceTypeOK
<1>3. r \in [owner : {surf[s].owner}, role : {"lock"}, configure : {"none", "sent", "acked"},
             content : {"none", "fits", "misfits"}]
  BY <1>1, <1>2
<1>4. r.configure = "acked" /\ r.content = surf[s].content
  BY <1>2
<1>5. client[surf[s].owner] = "here" /\ surf[s].content # "none" => surf[s].content = "fits"
  BY <1>1 DEF SurfaceInv, ShownIsLegal
<1> HIDE DEF r
<1>6. keyFocus' \in Surface \cup {Nowhere, AWindow} /\ frameOwed' \in BOOLEAN
  BY <1>1 DEF SurfaceInv, LockSurfaceTypeOK
<1> QED BY <1>1, <1>3, <1>4, <1>5, <1>6, ChangeKeeps

LEMMA CommitKeeps ==
    ASSUME SurfaceInv, [LockSurfaceNext]_lockSurfaceVars, NEW s \in Surface,
           NEW buffer \in {"nothing", "removed", "fits", "misfits"}, Commit(s, buffer)
    PROVE  SurfaceInv'
<1> DEFINE c == IF buffer = "nothing" THEN surf[s].content
                ELSE IF buffer = "removed" THEN "none" ELSE buffer
           r == [surf[s] EXCEPT !.content = c]
<1>1. surf[s] \in [owner : LockId \cup {NoLock}, role : {"none", "lock", "dead"},
                   configure : {"none", "sent", "acked"}, content : {"none", "fits", "misfits"}]
  BY DEF SurfaceInv, LockSurfaceTypeOK
<1>2. surf[s].role = "lock" /\ surf' = [surf EXCEPT ![s] = r] /\ surfaces' = surfaces
  BY <1>1 DEF Commit
<1>3. c \in {"none", "fits", "misfits"}
  BY <1>1
<1> HIDE DEF c
<1>4. r \in [owner : {surf[s].owner}, role : {"lock"}, configure : {"none", "sent", "acked"},
             content : {"none", "fits", "misfits"}]
  BY <1>1, <1>2, <1>3
<1>5. r.configure = surf[s].configure /\ r.content = c
  BY <1>1
<1>6. client' = client \/ client' = [client EXCEPT ![surf[s].owner] = "killed"]
  BY DEF Commit, PostError
<1>7. client'[surf[s].owner] = "here" /\ c # "none" => surf[s].configure = "acked" /\ c = "fits"
  <2>1. surf[s].owner \in LockId
    BY <1>2 DEF SurfaceInv, RolesAreMinted, LockInv, LockTypeOK
  <2>2. CASE CommitIsLegal(s, buffer)
    <3>1. client' = client /\ surf[s].configure = "acked" /\ buffer \in {"nothing", "fits"}
      BY <2>2 DEF Commit, CommitIsLegal
    <3> QED BY <1>2, <3>1 DEF SurfaceInv, ShownIsLegal, c
  <2>3. CASE ~CommitIsLegal(s, buffer)
    BY <2>1, <2>3 DEF Commit, PostError, SurfaceInv, LockSurfaceTypeOK
  <2> QED BY <2>2, <2>3
<1>8. keyFocus' \in Surface \cup {Nowhere, AWindow} /\ frameOwed' = TRUE
  <2>1. SurfacesOfHolder \in Seq(Surface)
    BY HolderSurfaces
  <2>2. s \in ToSet(SurfacesOfHolder) => Head(SurfacesOfHolder) \in Surface
    BY <2>1 DEF ToSet
  <2> QED BY <2>2 DEF Commit, FocusHolderSurface, SurfaceInv, LockSurfaceTypeOK
<1> HIDE DEF r
<1> QED BY <1>2, <1>4, <1>5, <1>6, <1>7, <1>8, ChangeKeeps

\* Every step keeps the invariant.
LEMMA NextSurfaceInv == SurfaceInv /\ [LockSurfaceNext]_lockSurfaceVars => SurfaceInv'
<1> SUFFICES ASSUME SurfaceInv, [LockSurfaceNext]_lockSurfaceVars PROVE SurfaceInv'
  OBVIOUS
<1>1. ASSUME NEW id \in LockId, RequestLock(id) PROVE SurfaceInv'
  BY <1>1, RequestKeeps
<1>2. ASSUME NEW id \in LockId, Opened(id) PROVE SurfaceInv'
  BY <1>2, OpenedKeeps
<1>3. ASSUME NEW id \in LockId, RefuseUnlock(id) \/ DestroyLock(id) \/ ClientErrs(id)
      PROVE  SurfaceInv'
  BY <1>3, EndKeeps
<1>4. ASSUME NEW id \in LockId, ClientGone(id) PROVE SurfaceInv'
  BY <1>4, GoneKeeps
<1>5. ASSUME NEW id \in LockId, NEW s \in Surface, NEW o \in OutputHandle, GetLockSurface(id, s, o)
      PROVE  SurfaceInv'
  BY <1>5, MapKeeps
<1>6. ASSUME NEW s \in Surface, AckConfigure(s) PROVE SurfaceInv'
  BY <1>6, AckKeeps
<1>7. ASSUME NEW s \in Surface, DestroyLockSurface(s) PROVE SurfaceInv'
  BY <1>7, DestroyKeeps
<1>8. ASSUME NEW s \in Surface, NEW b \in {"nothing", "removed", "fits", "misfits"}, Commit(s, b)
      PROVE  SurfaceInv'
  BY <1>8, CommitKeeps
<1>9. CASE LockSession \/ DrawFrame \/ GlassReports \/ UNCHANGED lockSurfaceVars
  BY <1>9, FrameKeeps
<1> QED BY <1>1, <1>2, <1>3, <1>4, <1>5, <1>6, <1>7, <1>8, <1>9 DEF LockSurfaceNext

-----------------------------------------------------------------------------
(* What is on the screen.                                                  *)

\* The scene is what it was if the seal, the mapped surfaces and what they
\* show are.
LEMMA SameScene ==
    ASSUME SurfaceInv, UNCHANGED <<held, holder, surfaces>>,
           \A s \in Surface : surf'[s].role = surf[s].role /\ surf'[s].content = surf[s].content
    PROVE  Scene' = Scene
<1> DEFINE ours == {m \in ToSet(surfaces) : m.lock = holder /\ surf[m.surface].role # "dead"}
           shows == {s \in Surface : surf[s].content # "none"}
<1>1. \A m \in ToSet(surfaces) : m.surface \in Surface
  BY SurfacesTyped DEF SurfaceInv, MapEntry
<1>2. ours' = ours /\ shows' = shows
  BY <1>1 DEF ToSet
<1> HIDE DEF ours
<1>3. SurfacesOfHolder' = SurfacesOfHolder
  BY <1>2 DEF SurfacesOfHolder, ours
<1>4. SurfacesOfHolder \in Seq(Surface)
  BY HolderSurfaces
<1>5. CASE ~held
  BY <1>5 DEF Scene
<1>6. CASE held
  <2> DEFINE its == Sift(SurfacesOfHolder, shows)
  <2>1. its' = its
    BY <1>2, <1>3
  <2>2. its \in Seq(Surface)
    BY <1>4, SiftTyped
  <2>3. Scene = [i \in DOMAIN its |-> <<its[i], surf[its[i]].content>>]
    BY <1>6 DEF Scene
  <2>4. Scene' = [i \in DOMAIN its |-> <<its[i], surf'[its[i]].content>>]
    BY <1>6, <2>1 DEF Scene
  <2> HIDE DEF its
  <2>5. \A i \in DOMAIN its : its[i] \in Surface
    BY <2>2
  <2> QED BY <2>3, <2>4, <2>5
<1> QED BY <1>5, <1>6

\* One that takes over a vacant lock has nothing on the screen yet.
LEMMA TakeoverScene ==
    ASSUME SurfaceInv, [LockSurfaceNext]_lockSurfaceVars, NEW id \in LockId, GrantTakeover(id),
           RequestLock(id)
    PROVE  Scene' = Scene
<1>1. /\ held /\ held' = TRUE /\ holder = NoLock /\ holder' = id /\ id \notin minted
      /\ UNCHANGED <<surfaces, surf>>
  BY DEF GrantTakeover, NeedsAClient, MintFresh, Seal, RequestLock
<1>2. SurfacesOfHolder = <<>>
  BY <1>1 DEF SurfacesOfHolder
<1> DEFINE ours == {m \in ToSet(surfaces) : m.lock = id /\ surf[m.surface].role # "dead"}
           its == Sift(surfaces, ours)
<1>3. its = <<>>
  <2>1. surfaces \in Seq(MapEntry)
    BY SurfacesTyped DEF SurfaceInv
  <2>2. ours = {}
    BY <1>1 DEF SurfaceInv, SurfacesAreTheirs
  <2> HIDE DEF ours
  <2> QED BY <2>1, <2>2, SiftNone
<1>4. SurfacesOfHolder' = [i \in DOMAIN its |-> its[i].surface]
  BY <1>1, NoLockAssumption DEF SurfacesOfHolder, ToSet
<1>5. SurfacesOfHolder' = <<>>
  <2> HIDE DEF its
  <2> QED BY <1>3, <1>4
<1> QED BY <1>1, <1>2, <1>5, SiftEmpty DEF Scene

\* A lock surface that is new shows nothing.
LEMMA MapScene ==
    ASSUME SurfaceInv, [LockSurfaceNext]_lockSurfaceVars, NEW id \in LockId, NEW s \in Surface,
           NEW o \in OutputHandle, GetLockSurface(id, s, o)
    PROVE  Scene' = Scene
<1> DEFINE e == MappedSurface(id, s, o)
           ours == {m \in ToSet(surfaces) : m.lock = holder /\ surf[m.surface].role # "dead"}
           shows == {x \in Surface : surf[x].content # "none"}
<1>1. /\ surf[s] = Untouched /\ surf' = [surf EXCEPT ![s] = Configured(id)]
      /\ surfaces' = Append(surfaces, e) /\ UNCHANGED <<held, holder>>
  BY DEF GetLockSurface, lockVars
<1>2. e \in MapEntry /\ e.lock = id /\ e.surface = s
  BY DEF MapEntry, MappedSurface
<1>3. surf \in [Surface -> [owner : LockId \cup {NoLock}, role : {"none", "lock", "dead"},
                            configure : {"none", "sent", "acked"},
                            content : {"none", "fits", "misfits"}]]
      /\ surfaces \in Seq(MapEntry) /\ ToSet(surfaces) \subseteq MapEntry
  BY SurfacesTyped DEF SurfaceInv, LockSurfaceTypeOK
<1>4. ToSet(surfaces)' = ToSet(surfaces) \cup {e}
  <2>1. ToSet(surfaces)' = ToSet(Append(surfaces, e))
    BY <1>1 DEF ToSet
  <2> HIDE DEF e
  <2> QED BY <1>2, <1>3, <2>1, AppendElements
<1> HIDE DEF e
<1>5. \A m \in ToSet(surfaces) : m.surface \in Surface /\ m.surface # s /\ surf'[m.surface] = surf[m.surface]
  <2>1. \A m \in ToSet(surfaces) : m.surface \in Surface /\ surf[m.surface].role = "lock"
    BY <1>3 DEF SurfaceInv, SurfacesAreTheirs, MapEntry
  <2> QED BY <2>1, <1>1, <1>3 DEF Untouched, Surf
<1>6. shows' = shows /\ s \notin shows
      /\ \A x \in Surface : surf'[x].content = surf[x].content
  BY <1>1, <1>3 DEF Untouched, Configured, Surf
<1>7. surf'[s].role = "lock"
  BY <1>1, <1>3 DEF Configured, Surf
<1>8. ours' = IF id = holder THEN ours \cup {e} ELSE ours
  BY <1>1, <1>2, <1>4, <1>5, <1>7
<1>9. e \notin ours
  BY <1>2, <1>5
<1> HIDE DEF ours
<1>10. CASE holder = NoLock
  <2>1. SurfacesOfHolder = <<>> /\ SurfacesOfHolder' = <<>>
    BY <1>1, <1>10 DEF SurfacesOfHolder
  <2> QED BY <1>1, <2>1, SiftEmpty DEF Scene
<1>11. CASE holder # NoLock
  <2> DEFINE its == Sift(surfaces, ours)
  <2>1. SurfacesOfHolder = [i \in DOMAIN its |-> its[i].surface]
    BY <1>11 DEF SurfacesOfHolder, ours
  <2>2. SurfacesOfHolder' = LET new == Sift(Append(surfaces, e), ours')
                            IN  [i \in DOMAIN new |-> new[i].surface]
    BY <1>1, <1>11 DEF SurfacesOfHolder, ours
  <2>3. Sift(surfaces, ours \cup {e}) = its
    <3>1. \A n \in 1..Len(surfaces) : surfaces[n] # e
      BY <1>2, <1>3, <1>5 DEF ToSet
    <3> QED BY <1>3, <3>1, SiftAgrees
  <2>4. Sift(Append(surfaces, e), ours') = IF id = holder THEN Append(its, e) ELSE its
    <3>1. Sift(Append(surfaces, e), ours \cup {e}) = Append(its, e)
      <4> DEFINE K == ours \cup {e}
      <4>1. e \in K /\ Sift(surfaces, K) = its
        BY <2>3
      <4> HIDE DEF K
      <4>2. Sift(Append(surfaces, e), K) = Append(Sift(surfaces, K), e)
        BY <1>2, <1>3, <4>1, SiftAppend
      <4> QED BY <4>1, <4>2 DEF K
    <3>2. Sift(Append(surfaces, e), ours) = its
      BY <1>2, <1>3, <1>9, SiftAppend
    <3> QED BY <1>8, <3>1, <3>2
  <2>5. its \in Seq(MapEntry)
    BY <1>3, SiftTyped
  <2> HIDE DEF its
  <2>6. SurfacesOfHolder' = IF id = holder THEN Append(SurfacesOfHolder, s) ELSE SurfacesOfHolder
    <3>1. CASE id # holder
      BY <2>1, <2>2, <2>4, <3>1
    <3>2. CASE id = holder
      <4>1. SurfacesOfHolder' = [i \in DOMAIN Append(its, e) |-> Append(its, e)[i].surface]
        BY <2>2, <2>4, <3>2
      <4>2. SurfacesOfHolder \in Seq(Surface)
        BY HolderSurfaces
      <4>3. Len(SurfacesOfHolder) = Len(its) /\ DOMAIN Append(its, e) = 1..(Len(its) + 1)
        BY <2>1, <2>5, <4>2
      <4>4. DOMAIN Append(SurfacesOfHolder, s) = 1..(Len(its) + 1)
        BY <4>2, <4>3
      <4>5. ASSUME NEW i \in 1..(Len(its) + 1)
            PROVE  Append(its, e)[i].surface = Append(SurfacesOfHolder, s)[i]
        <5>1. CASE i = Len(its) + 1
          BY <5>1, <1>2, <2>5, <4>2, <4>3
        <5>2. CASE i # Len(its) + 1
          <6>1. i \in 1..Len(its) /\ i \in 1..Len(SurfacesOfHolder)
            BY <5>2, <2>5, <4>3
          <6>2. Append(its, e)[i] = its[i] /\ Append(SurfacesOfHolder, s)[i] = SurfacesOfHolder[i]
            BY <6>1, <2>5, <4>2
          <6> QED BY <6>1, <6>2, <2>1, <2>5
        <5> QED BY <5>1, <5>2
      <4>6. Append(SurfacesOfHolder, s) = [i \in 1..(Len(its) + 1) |-> Append(SurfacesOfHolder, s)[i]]
        <5> DEFINE F == Append(SurfacesOfHolder, s)
        <5>1. F \in Seq(Surface) /\ DOMAIN F = 1..(Len(its) + 1)
          BY <4>2, <4>4
        <5> HIDE DEF F
        <5>2. F \in [1..(Len(its) + 1) -> Surface]
          BY <5>1
        <5>3. F = [i \in 1..(Len(its) + 1) |-> F[i]]
          BY <5>2
        <5> QED BY <5>3 DEF F
      <4> QED BY <3>2, <4>1, <4>3, <4>5, <4>6
    <3> QED BY <3>1, <3>2
  <2>7. SurfacesOfHolder \in Seq(Surface)
    BY HolderSurfaces
  <2>8. Sift(SurfacesOfHolder', shows) = Sift(SurfacesOfHolder, shows)
    BY <1>6, <2>6, <2>7, SiftAppend
  <2> DEFINE seen == Sift(SurfacesOfHolder, shows)
  <2>9. seen \in Seq(Surface)
    BY <2>7, SiftTyped
  <2>10. CASE ~held
    BY <1>1, <2>10 DEF Scene
  <2>11. CASE held
    <3>1. Scene = [i \in DOMAIN seen |-> <<seen[i], surf[seen[i]].content>>]
      BY <2>11 DEF Scene
    <3>2. Scene' = [i \in DOMAIN seen |-> <<seen[i], surf'[seen[i]].content>>]
      <4>1. Scene' = LET new == Sift(SurfacesOfHolder', shows')
                     IN  [i \in DOMAIN new |-> <<new[i], surf'[new[i]].content>>]
        BY <1>1, <2>11 DEF Scene
      <4> HIDE DEF shows
      <4> QED BY <1>6, <2>8, <4>1
    <3> HIDE DEF seen
    <3>3. \A i \in DOMAIN seen : seen[i] \in Surface
      BY <2>9
    <3> QED BY <1>6, <3>1, <3>2, <3>3
  <2> QED BY <2>10, <2>11
<1> QED BY <1>10, <1>11

\* A client without a surface that is not the holder takes nothing off the
\* screen when it goes.
LEMMA GoneScene ==
    ASSUME SurfaceInv, [LockSurfaceNext]_lockSurfaceVars, NEW id \in LockId, ClientGone(id),
           frameOwed' = FALSE
    PROVE  Scene' = Scene
<1> DEFINE ours == {m \in ToSet(surfaces) : m.lock = holder /\ surf[m.surface].role # "dead"}
           keep == {m \in ToSet(surfaces) : m.lock # id}
<1>1. ~IsHolder(id) /\ \A s \in Surface : surf[s].owner # id
  BY DEF ClientGone, SurfaceInv, LockSurfaceTypeOK
<1>2. surf' = surf /\ surfaces' = Sift(surfaces, keep)
  <2>1. surf' = [s \in Surface |-> IF surf[s].owner = id THEN Dead ELSE surf[s]]
    BY DEF ClientGone
  <2>2. surf = [s \in Surface |-> surf[s]]
    BY DEF SurfaceInv, LockSurfaceTypeOK
  <2> QED BY <1>1, <2>1, <2>2 DEF ClientGone
<1>3. UNCHANGED <<held, holder>>
  BY <1>1 DEF ClientGone, LoseObject, Vacate, seal, lockVars
<1>4. surfaces \in Seq(MapEntry) /\ ToSet(surfaces) \subseteq MapEntry
  BY SurfacesTyped DEF SurfaceInv
<1>5. keep = ToSet(surfaces)
  BY <1>1, <1>4 DEF SurfaceInv, SurfacesAreTheirs, MapEntry
<1>6. surfaces' = surfaces
  <2>1. \A n \in 1..Len(surfaces) : surfaces[n] \in keep
    BY <1>4, <1>5 DEF ToSet
  <2> QED BY <1>2, <1>4, <2>1, SiftAll
<1> QED BY <1>2, <1>3, <1>6, SameScene

\* A holder that destroys its lock leaves its own picture behind, if any.
LEMMA GivenUpScene ==
    ASSUME SurfaceInv, NEW id \in LockId, DestroyLock(id), IsHolder(id),
           onScreen = Scene \/ LeftStanding
    PROVE  LeftStanding'
<1>1. /\ held' = TRUE /\ holder' = NoLock /\ held /\ holder = id /\ id # NoLock
      /\ gaveUp' = gaveUp \cup {id} /\ UNCHANGED <<surfaces, surf, onScreen>>
  BY NoLockAssumption DEF DestroyLock, LoseObject, Vacate, Seal, IsHolder
<1>2. Scene' = <<>>
  <2>1. SurfacesOfHolder' = <<>>
    BY <1>1 DEF SurfacesOfHolder
  <2> QED BY <1>1, <2>1, SiftEmpty DEF Scene
<1> DEFINE left(g) == {<<s, surf[s].content>> : s \in {x \in Surface : surf[x].owner \in g}}
<1>3. ToSet(onScreen) \subseteq left(gaveUp \cup {id})
  <2>1. CASE LeftStanding
    BY <2>1 DEF LeftStanding
  <2>2. CASE onScreen = Scene
    <3> DEFINE its == Sift(SurfacesOfHolder, {s \in Surface : surf[s].content # "none"})
    <3>1. Scene = [i \in DOMAIN its |-> <<its[i], surf[its[i]].content>>]
      BY <1>1 DEF Scene
    <3>2. SurfacesOfHolder \in Seq(Surface)
      BY HolderSurfaces
    <3>3. its \in Seq(Surface) /\ ToSet(its) \subseteq ToSet(SurfacesOfHolder)
      BY <3>2, SiftTyped, SiftElements
    <3> HIDE DEF its
    <3>4. \A i \in DOMAIN its : its[i] \in Surface /\ its[i] \in ToSet(SurfacesOfHolder)
      <4>1. \A i \in DOMAIN its : its[i] \in Surface
        BY <3>3
      <4>2. \A i \in DOMAIN its : its[i] \in ToSet(its)
        BY DEF ToSet
      <4> QED BY <3>3, <4>1, <4>2
    <3>5. \A s \in ToSet(SurfacesOfHolder) : surf[s].owner = id
      BY <1>1, HolderSurfaces DEF SurfaceInv, SurfacesAreTheirs
    <3>6. \A i \in DOMAIN its : <<its[i], surf[its[i]].content>> \in left(gaveUp \cup {id})
      BY <3>4, <3>5
    <3> HIDE DEF left
    <3>7. ToSet(onScreen) = {<<its[i], surf[its[i]].content>> : i \in DOMAIN its}
      BY <2>2, <3>1 DEF ToSet
    <3> QED BY <3>6, <3>7
  <2> QED BY <2>1, <2>2
<1>4. ToSet(onScreen)' = ToSet(onScreen)
  BY <1>1 DEF ToSet
<1> QED BY <1>1, <1>2, <1>3, <1>4 DEF LeftStanding

\* What is on the screen stays up to date, or is what such a holder left.
LEMMA NextUpToDate ==
    SurfaceInv /\ LockScreenIsUpToDate /\ [LockSurfaceNext]_lockSurfaceVars => LockScreenIsUpToDate'
<1> SUFFICES ASSUME SurfaceInv, LockScreenIsUpToDate, [LockSurfaceNext]_lockSurfaceVars
             PROVE  LockScreenIsUpToDate'
  OBVIOUS
<1> SUFFICES ASSUME frameOwed' = FALSE PROVE onScreen' = Scene' \/ LeftStanding'
  <2>1. SurfaceInv'
    BY NextSurfaceInv
  <2> QED BY <2>1 DEF LockScreenIsUpToDate, SurfaceInv, LockSurfaceTypeOK
<1>1. ASSUME DrawFrame PROVE onScreen' = Scene' \/ LeftStanding'
  <2>1. UNCHANGED <<held, holder, surfaces, surf>> /\ onScreen' = Scene
    BY <1>1 DEF DrawFrame, FrameFlipped, seal, clientVars
  <2> QED BY <2>1, SameScene
<1>2. ASSUME UNCHANGED <<frameOwed, onScreen, gaveUp, held>>, Scene' = Scene,
             \A s \in Surface : surf[s].owner \in gaveUp =>
                 surf'[s].owner = surf[s].owner /\ surf'[s].content = surf[s].content
      PROVE  onScreen' = Scene' \/ LeftStanding'
  <2>1. onScreen = Scene \/ LeftStanding
    BY <1>2 DEF LockScreenIsUpToDate
  <2>2. CASE LeftStanding
    <3>1. ToSet(onScreen)' = ToSet(onScreen)
      BY <1>2 DEF ToSet
    <3>2. {<<s, surf[s].content>> : s \in {x \in Surface : surf[x].owner \in gaveUp}} \subseteq
          {<<s, surf'[s].content>> : s \in {x \in Surface : surf'[x].owner \in gaveUp'}}
      BY <1>2
    <3> QED BY <1>2, <2>2, <3>1, <3>2 DEF LeftStanding
  <2> QED BY <1>2, <2>1, <2>2
<1>3. ASSUME NEW id \in LockId, RequestLock(id) PROVE onScreen' = Scene' \/ LeftStanding'
  <2>1. ~GrantOpen(id)
    BY <1>3 DEF RequestLock, SessionShut, GrantOpen, GrantTakeover, FinishLock, NeedsAClient
  <2>2. UNCHANGED <<frameOwed, onScreen, surfaces, surf, gaveUp>>
    BY <1>3, <2>1 DEF RequestLock, shellVars
  <2>3. CASE GrantTakeover(id)
    <3>1. held' = held
      BY <2>3 DEF GrantTakeover, NeedsAClient, Seal
    <3> QED BY <1>2, <1>3, <2>2, <2>3, <3>1, TakeoverScene
  <2>4. CASE FinishLock(id)
    <3>1. UNCHANGED <<held, holder>>
      BY <2>4 DEF FinishLock, seal
    <3> QED BY <1>2, <2>2, <3>1, SameScene
  <2> QED BY <1>3, <2>1, <2>3, <2>4 DEF RequestLock
<1>4. ASSUME NEW id \in LockId, RefuseUnlock(id) \/ DestroyLock(id)
      PROVE  onScreen' = Scene' \/ LeftStanding'
  <2>1. CASE ~IsHolder(id)
    <3>1. UNCHANGED <<frameOwed, onScreen, surfaces, surf, gaveUp>>
      BY <1>4, <2>1 DEF RefuseUnlock, DestroyLock, Vacant, shellVars
    <3>2. UNCHANGED <<held, holder>>
      BY <1>4, <2>1 DEF RefuseUnlock, DestroyLock, UnlockRefused, LoseObject, Vacate, seal
    <3> QED BY <1>2, <3>1, <3>2, SameScene
  <2>2. CASE IsHolder(id)
    <3>1. DestroyLock(id)
      BY <1>4, <2>2 DEF RefuseUnlock, Vacant
    <3>2. onScreen = Scene \/ LeftStanding
      BY <3>1 DEF DestroyLock, shellVars, LockScreenIsUpToDate
    <3> QED BY <2>2, <3>1, <3>2, GivenUpScene
  <2> QED BY <2>1, <2>2
<1>5. ASSUME NEW id \in LockId, ClientGone(id) PROVE onScreen' = Scene' \/ LeftStanding'
  <2>1. frameOwed = FALSE /\ onScreen' = onScreen /\ gaveUp' = gaveUp
    BY <1>5 DEF ClientGone, SurfaceInv, LockSurfaceTypeOK
  <2>2. ~IsHolder(id) /\ \A s \in Surface : surf[s].owner # id
    BY <1>5 DEF ClientGone, SurfaceInv, LockSurfaceTypeOK
  <2>3. held' = held
    BY <1>5, <2>2 DEF ClientGone, LoseObject, Vacate, seal, lockVars
  <2>4. \A s \in Surface : surf'[s] = surf[s]
    BY <1>5, <2>2 DEF ClientGone
  <2> QED BY <1>2, <1>5, <2>1, <2>3, <2>4, GoneScene
<1>6. ASSUME NEW id \in LockId, ClientErrs(id) PROVE onScreen' = Scene' \/ LeftStanding'
  BY <1>2, <1>6, SameScene DEF ClientErrs, lockVars, shellVars
<1>7. ASSUME NEW id \in LockId, NEW s \in Surface, NEW o \in OutputHandle, GetLockSurface(id, s, o)
      PROVE  onScreen' = Scene' \/ LeftStanding'
  <2>1. UNCHANGED <<frameOwed, onScreen, gaveUp, held>>
    BY <1>7 DEF GetLockSurface, shellVars, lockVars
  <2>2. surf[s].owner = NoLock /\ surf' = [surf EXCEPT ![s] = Configured(id)]
    BY <1>7 DEF GetLockSurface, Untouched, Surf
  <2>3. NoLock \notin gaveUp
    BY NoLockAssumption DEF SurfaceInv, LockInv, LockTypeOK, LockSurfaceTypeOK
  <2>4. \A x \in Surface : surf[x].owner \in gaveUp => surf'[x] = surf[x]
    BY <2>2, <2>3 DEF SurfaceInv, LockSurfaceTypeOK
  <2> QED BY <1>2, <1>7, <2>1, <2>4, MapScene
<1>8. ASSUME NEW s \in Surface, AckConfigure(s) PROVE onScreen' = Scene' \/ LeftStanding'
  <2>1. UNCHANGED <<held, holder, surfaces, frameOwed, onScreen, gaveUp>>
        /\ surf' = [surf EXCEPT ![s].configure = "acked"]
    BY <1>8 DEF AckConfigure, lockVars, shellVars
  <2>2. \A x \in Surface : /\ surf'[x].role = surf[x].role /\ surf'[x].content = surf[x].content
                            /\ surf'[x].owner = surf[x].owner
    BY <2>1 DEF SurfaceInv, LockSurfaceTypeOK
  <2> QED BY <1>2, <2>1, <2>2, SameScene
<1>9. ASSUME GlassReports \/ UNCHANGED lockSurfaceVars PROVE onScreen' = Scene' \/ LeftStanding'
  <2>1. UNCHANGED <<surfaces, surf, frameOwed, onScreen, gaveUp>>
    BY <1>9 DEF GlassReports, lockSurfaceVars, clientVars, shellVars
  <2>2. UNCHANGED <<held, holder>>
    BY <1>9 DEF GlassReports, FrameRetired, OnGlassNow, CoverGlass, Seal, seal, lockSurfaceVars, lockVars,
                SurfaceInv, LockInv, LockTypeOK
  <2> QED BY <1>2, <2>1, <2>2, SameScene
<1>10. ASSUME \/ LockSession
              \/ \E id \in LockId : Opened(id)
              \/ \E s \in Surface : DestroyLockSurface(s)
              \/ \E s \in Surface, b \in {"nothing", "removed", "fits", "misfits"} : Commit(s, b)
       PROVE  frameOwed' = TRUE
  BY <1>10 DEF LockSession, SessionShut, Opened, DestroyLockSurface, Commit
<1> QED BY <1>1, <1>3, <1>4, <1>5, <1>6, <1>7, <1>8, <1>9, <1>10 DEF LockSurfaceNext

\* The screen shows what there is to show, or a frame is owed, or what stands
\* is the picture of a client that destroyed the lock it held.
THEOREM ScreenAlwaysUpToDate == LockSurfaceSpec => []LockScreenIsUpToDate
<1>1. LockSurfaceInit => SurfaceInv /\ LockScreenIsUpToDate
  BY InitSurfaceInv DEF LockSurfaceInit, LockInit, LockScreenIsUpToDate, Scene
<1> QED BY <1>1, NextSurfaceInv, NextUpToDate, PTL DEF LockSurfaceSpec

\* What is shown was acknowledged and fits.
THEOREM ShownAsAcked == LockSurfaceSpec => []ShownAsConfigured
<1>1. SurfaceInv => ShownAsConfigured
  <2> SUFFICES ASSUME SurfaceInv, NEW s \in ToSet(SurfacesOfHolder), surf[s].content # "none",
                      Acts(surf[s].owner)
               PROVE  surf[s].configure = "acked" /\ surf[s].content = "fits"
    BY DEF ShownAsConfigured
  <2>1. PICK m \in ToSet(surfaces) : s = m.surface
    BY HolderSurfaces
  <2>2. s \in Surface /\ surf[s].role = "lock"
    BY <2>1, SurfacesTyped DEF SurfaceInv, SurfacesAreTheirs, MapEntry
  <2> QED BY <2>2 DEF SurfaceInv, ShownIsLegal, Acts
<1> QED BY <1>1, InitSurfaceInv, NextSurfaceInv, PTL DEF LockSurfaceSpec

\* The lock surfaces are a refinement of the session lock: what is proved of it
\* holds with its clients' surfaces too.
THEOREM SurfacesImplementTheLock == LockSurfaceSpec => LockSpec
<1>1. LockSurfaceInit => LockInit
  BY DEF LockSurfaceInit
<1> QED BY <1>1, SurfaceStepIsLockStep, PTL DEF LockSurfaceSpec, LockSpec

-----------------------------------------------------------------------------
(* Who has the keyboard, when a client has bound the screen once.          *)

OneHandle == \A o, p \in OutputHandle : o = p

\* A lock has one surface at most.
OneSurface == \A m, n \in ToSet(surfaces) : m.lock = n.lock => m = n

\* The surface a holder shows something on has the keyboard.
ShownHasKeys ==
    held => /\ keyFocus # AWindow
            /\ \A m \in ToSet(surfaces) :
                  m.lock = holder /\ surf[m.surface].content # "none" => keyFocus = m.surface

KeysInv == OneSurface /\ ShownHasKeys

\* A step that leaves the surfaces alone.
LEMMA KeysAlone ==
    ASSUME SurfaceInv, KeysInv, surfaces' = surfaces,
           held' => \/ held /\ holder' = holder /\ keyFocus' = keyFocus
                    \/ /\ keyFocus' # AWindow /\ \A m \in ToSet(surfaces) : m.lock # holder',
           \A s \in Surface : surf'[s].content = surf[s].content
    PROVE  KeysInv'
<1>1. ToSet(surfaces)' = ToSet(surfaces)
  BY DEF ToSet
<1>2. \A m \in ToSet(surfaces) : m.surface \in Surface
  BY SurfacesTyped DEF SurfaceInv, MapEntry
<1> QED BY <1>1, <1>2 DEF KeysInv, OneSurface, ShownHasKeys

LEMMA NextKeysInv ==
    OneHandle /\ SurfaceInv /\ KeysInv /\ [LockSurfaceNext]_lockSurfaceVars => KeysInv'
<1> SUFFICES ASSUME OneHandle, SurfaceInv, KeysInv, [LockSurfaceNext]_lockSurfaceVars
             PROVE  KeysInv'
  OBVIOUS
<1>1. \A m \in ToSet(surfaces) : /\ m \in MapEntry /\ m.lock \in LockId /\ m.surface \in Surface
                                 /\ m.lock \in minted /\ m.lock # NoLock
                                 /\ surf[m.surface].owner = m.lock /\ surf[m.surface].role = "lock"
  BY SurfacesTyped, NoLockAssumption DEF SurfaceInv, SurfacesAreTheirs, MapEntry
<1>2. Nowhere # AWindow /\ AWindow \notin Surface
  BY LockSurfaceAssumption DEF Nowhere, AWindow
<1>3. held => keyFocus # AWindow
  BY DEF KeysInv, ShownHasKeys
<1>4. ASSUME NEW id \in LockId, RequestLock(id) PROVE KeysInv'
  <2>1. UNCHANGED <<surfaces, surf>>
    BY <1>4 DEF RequestLock
  <2>2. CASE GrantOpen(id)
    <3>1. id \notin minted /\ holder' = id
      BY <2>2 DEF GrantOpen, MintFresh, Seal
    <3>2. keyFocus' = Nowhere
      BY <1>4, <2>2 DEF GrantOpen, RequestLock, SessionShut, GrantTakeover, FinishLock, NeedsAClient
    <3> QED BY <1>1, <1>2, <2>1, <3>1, <3>2, KeysAlone
  <2>3. CASE GrantTakeover(id)
    <3>1. id \notin minted /\ holder' = id /\ held
      BY <2>3 DEF GrantTakeover, MintFresh, Seal, NeedsAClient
    <3>2. keyFocus' = keyFocus
      BY <1>4, <2>3 DEF GrantOpen, RequestLock, GrantTakeover, FinishLock, NeedsAClient, shellVars
    <3> QED BY <1>1, <1>3, <2>1, <3>1, <3>2, KeysAlone
  <2>4. CASE FinishLock(id)
    <3>1. UNCHANGED <<held, holder>> /\ held
      BY <2>4 DEF FinishLock, seal
    <3>2. keyFocus' = keyFocus
      BY <1>4, <2>4 DEF GrantOpen, RequestLock, GrantTakeover, FinishLock, NeedsAClient, shellVars
    <3> QED BY <2>1, <3>1, <3>2, KeysAlone
  <2> QED BY <1>4, <2>2, <2>3, <2>4 DEF RequestLock
<1>5. ASSUME LockSession PROVE KeysInv'
  <2>1. UNCHANGED <<surfaces, surf>> /\ keyFocus' = Nowhere /\ holder' = NoLock
    BY <1>5 DEF LockSession, SessionShut, CompositorLock, Seal, clientVars
  <2> QED BY <1>1, <1>2, <2>1, KeysAlone
<1>6. ASSUME NEW id \in LockId, Opened(id) PROVE KeysInv'
  <2>1. ~held' /\ surfaces' = <<>>
    BY <1>6 DEF Opened, UnlockOpens, Unseal
  <2> QED BY <2>1 DEF KeysInv, OneSurface, ShownHasKeys, ToSet
<1>7. ASSUME NEW id \in LockId, RefuseUnlock(id) \/ DestroyLock(id) PROVE KeysInv'
  <2>1. UNCHANGED <<surfaces, surf>> /\ Vacate(id) /\ (Vacant(id) \/ keyFocus' = keyFocus)
    BY <1>7 DEF RefuseUnlock, DestroyLock, UnlockRefused, LoseObject, shellVars
  <2>2. CASE IsHolder(id)
    <3>1. keyFocus' \in {Nowhere, keyFocus} /\ holder' = NoLock /\ held
      BY <2>1, <2>2 DEF Vacant, Vacate, Seal, IsHolder
    <3> QED BY <1>1, <1>2, <1>3, <2>1, <3>1, KeysAlone
  <2>3. CASE ~IsHolder(id)
    <3>1. UNCHANGED <<held, holder, keyFocus>>
      BY <2>1, <2>3 DEF Vacant, Vacate, seal, shellVars
    <3> QED BY <2>1, <3>1, KeysAlone
  <2> QED BY <2>2, <2>3
<1>8. ASSUME NEW id \in LockId, ClientGone(id) PROVE KeysInv'
  <2>1. /\ surf' = [s \in Surface |-> IF surf[s].owner = id THEN Dead ELSE surf[s]]
        /\ surfaces' = Sift(surfaces, {m \in ToSet(surfaces) : m.lock # id})
        /\ keyFocus' = IF IsHolder(id) THEN Nowhere ELSE keyFocus
    BY <1>8 DEF ClientGone
  <2>2. ToSet(surfaces)' = {m \in ToSet(surfaces) : m.lock # id}
    BY <2>1, DropTyped
  <2>3. \A m \in ToSet(surfaces)' : surf'[m.surface] = surf[m.surface]
    BY <1>1, <2>1, <2>2
  <2>4. CASE IsHolder(id)
    <3>1. id \in alive
      BY <2>4, NoLockAssumption DEF IsHolder, SurfaceInv, LockInv, HolderIsReachable
    <3>2. holder' = NoLock
      BY <1>8, <2>4, <3>1 DEF ClientGone, LoseObject, Vacate, Seal
    <3> QED BY <1>1, <1>2, <2>1, <2>2, <2>4, <3>2 DEF KeysInv, OneSurface, ShownHasKeys
  <2>5. CASE ~IsHolder(id)
    <3>1. UNCHANGED <<held, holder, keyFocus>>
      BY <1>8, <2>1, <2>5 DEF ClientGone, LoseObject, Vacate, seal, lockVars
    <3> QED BY <2>2, <2>3, <3>1 DEF KeysInv, OneSurface, ShownHasKeys
  <2> QED BY <2>4, <2>5
<1>9. ASSUME NEW id \in LockId, ClientErrs(id) PROVE KeysInv'
  BY <1>9, KeysAlone DEF ClientErrs, lockVars, shellVars
<1>10. ASSUME NEW id \in LockId, NEW s \in Surface, NEW o \in OutputHandle, GetLockSurface(id, s, o)
       PROVE  KeysInv'
  <2> DEFINE e == MappedSurface(id, s, o)
  <2>1. /\ ~Taken(id, o) /\ surfaces' = Append(surfaces, e)
        /\ surf' = [surf EXCEPT ![s] = Configured(id)]
        /\ UNCHANGED <<held, holder, keyFocus>>
        /\ surf[s] = Untouched
    BY <1>10 DEF GetLockSurface, lockVars, shellVars
  <2>2. e \in MapEntry /\ e.lock = id /\ e.surface = s
    BY DEF MapEntry, MappedSurface
  <2> HIDE DEF e
  <2>3. ToSet(surfaces)' = ToSet(surfaces) \cup {e}
    <3>1. surfaces \in Seq(MapEntry)
      BY SurfacesTyped DEF SurfaceInv
    <3>2. ToSet(surfaces)' = ToSet(Append(surfaces, e))
      BY <2>1 DEF ToSet
    <3> QED BY <2>2, <3>1, <3>2, AppendElements
  <2>4. \A m \in ToSet(surfaces) : m.lock # id
    BY <1>1, <2>1 DEF Taken, ToSet, OneHandle, MapEntry
  <2>5. surf'[s].content = "none"
    BY <2>1 DEF Configured, Surf, SurfaceInv, LockSurfaceTypeOK
  <2>6. \A m \in ToSet(surfaces) : surf'[m.surface] = surf[m.surface]
    BY <1>1, <2>1 DEF Untouched, Surf, SurfaceInv, LockSurfaceTypeOK
  <2> QED BY <2>1, <2>2, <2>3, <2>4, <2>5, <2>6 DEF KeysInv, OneSurface, ShownHasKeys
<1>11. ASSUME NEW s \in Surface, AckConfigure(s) PROVE KeysInv'
  <2>1. UNCHANGED <<held, holder, surfaces, keyFocus>>
        /\ surf' = [surf EXCEPT ![s].configure = "acked"]
    BY <1>11 DEF AckConfigure, lockVars, shellVars
  <2>2. \A x \in Surface : surf'[x].content = surf[x].content
    BY <2>1 DEF SurfaceInv, LockSurfaceTypeOK
  <2> QED BY <2>1, <2>2, KeysAlone
<1>12. ASSUME NEW s \in Surface, NEW b \in {"nothing", "removed", "fits", "misfits"}, Commit(s, b)
       PROVE  KeysInv'
  <2>1. /\ UNCHANGED <<held, holder, surfaces>>
        /\ \A x \in Surface : x # s => surf'[x] = surf[x]
        /\ keyFocus' = IF s \in ToSet(SurfacesOfHolder) THEN Head(SurfacesOfHolder) ELSE keyFocus
    BY <1>12 DEF Commit, FocusHolderSurface, lockVars, SurfaceInv, LockSurfaceTypeOK
  <2>2. /\ SurfacesOfHolder \in Seq(Surface)
        /\ ToSet(SurfacesOfHolder) = {m.surface : m \in {e \in ToSet(surfaces) : e.lock = holder}}
    BY HolderSurfaces
  <2>3. ToSet(surfaces)' = ToSet(surfaces)
    BY <2>1 DEF ToSet
  <2>4. CASE s \in ToSet(SurfacesOfHolder)
    <3>1. Head(SurfacesOfHolder) \in ToSet(SurfacesOfHolder)
      BY <2>2, <2>4 DEF ToSet
    <3>2. \A m \in ToSet(surfaces) : m.lock = holder => m.surface = s
      BY <2>2, <2>4 DEF KeysInv, OneSurface
    <3>3. keyFocus' = s
      BY <2>1, <2>2, <2>4, <3>1, <3>2
    <3> QED BY <1>2, <2>1, <2>3, <3>2, <3>3 DEF KeysInv, OneSurface, ShownHasKeys
  <2>5. CASE s \notin ToSet(SurfacesOfHolder)
    <3>1. \A m \in ToSet(surfaces) : m.lock = holder => m.surface # s
      BY <2>2, <2>5
    <3> QED BY <1>1, <2>1, <2>3, <2>5, <3>1 DEF KeysInv, OneSurface, ShownHasKeys
  <2> QED BY <2>4, <2>5
<1>13. ASSUME NEW s \in Surface, DestroyLockSurface(s) PROVE KeysInv'
  <2>1. /\ surf' = [surf EXCEPT ![s] = Dead]
        /\ surfaces' = Sift(surfaces, {m \in ToSet(surfaces) : m.surface # s})
        /\ UNCHANGED <<held, holder, keyFocus>>
    BY <1>13 DEF DestroyLockSurface, lockVars
  <2>2. ToSet(surfaces)' = {m \in ToSet(surfaces) : m.surface # s}
    BY <2>1, DropTyped
  <2>3. \A m \in ToSet(surfaces)' : surf'[m.surface] = surf[m.surface]
    BY <1>1, <2>1, <2>2 DEF SurfaceInv, LockSurfaceTypeOK
  <2> QED BY <2>1, <2>2, <2>3 DEF KeysInv, OneSurface, ShownHasKeys
<1>14. ASSUME DrawFrame \/ GlassReports \/ UNCHANGED lockSurfaceVars PROVE KeysInv'
  <2>1. UNCHANGED <<surfaces, surf, keyFocus>>
    BY <1>14 DEF DrawFrame, GlassReports, lockSurfaceVars, clientVars, shellVars
  <2>2. UNCHANGED <<held, holder>>
    BY <1>14 DEF DrawFrame, FrameFlipped, GlassReports, FrameRetired, OnGlassNow, CoverGlass, Seal,
                 seal, lockSurfaceVars, lockVars, SurfaceInv, LockInv, LockTypeOK
  <2> QED BY <2>1, <2>2, KeysAlone
<1> QED BY <1>4, <1>5, <1>6, <1>7, <1>8, <1>9, <1>10, <1>11, <1>12, <1>13, <1>14
        DEF LockSurfaceNext

\* With the surface it shows, a holder has the keyboard.
LEMMA KeysAreTyped == SurfaceInv /\ KeysInv => HolderIsTypedAt
<1> SUFFICES ASSUME SurfaceInv, KeysInv, held
             PROVE  IF Scene # <<>> THEN keyFocus \in ToSet(SurfacesOfHolder) ELSE keyFocus # AWindow
  BY DEF HolderIsTypedAt
<1>1. /\ SurfacesOfHolder \in Seq(Surface)
      /\ ToSet(SurfacesOfHolder) = {m.surface : m \in {e \in ToSet(surfaces) : e.lock = holder}}
  BY HolderSurfaces
<1>2. CASE \A s \in ToSet(SurfacesOfHolder) : surf[s].content = "none"
  <2> DEFINE shows == {s \in Surface : surf[s].content # "none"}
  <2>1. Sift(SurfacesOfHolder, shows) = <<>>
    <3>1. \A n \in 1..Len(SurfacesOfHolder) : SurfacesOfHolder[n] \notin shows
      BY <1>1, <1>2 DEF ToSet
    <3> HIDE DEF shows
    <3> QED BY <1>1, <3>1, SiftNone
  <2>2. Scene = <<>>
    <3> DEFINE its == Sift(SurfacesOfHolder, shows)
    <3>1. Scene = [i \in DOMAIN its |-> <<its[i], surf[its[i]].content>>]
      BY DEF Scene
    <3> HIDE DEF its
    <3>2. its = <<>>
      BY <2>1 DEF its
    <3> QED BY <3>1, <3>2
  <2> QED BY <2>2 DEF KeysInv, ShownHasKeys
<1>3. CASE \E s \in ToSet(SurfacesOfHolder) : surf[s].content # "none"
  <2>1. PICK m \in ToSet(surfaces) : m.lock = holder /\ surf[m.surface].content # "none"
    BY <1>1, <1>3
  <2>2. keyFocus = m.surface /\ m.surface \in ToSet(SurfacesOfHolder)
    BY <1>1, <2>1 DEF KeysInv, ShownHasKeys
  <2> QED BY <2>2 DEF KeysInv, ShownHasKeys
<1> QED BY <1>2, <1>3

\* The lock screen shows its holder, as configured, and can be typed at, for
\* any clients that bind the output once.
THEOREM LockScreenAlwaysHolds == OneHandle => (LockSurfaceSpec => []LockScreenHolds)
<1>1. LockSurfaceInit => KeysInv
  BY DEF LockSurfaceInit, LockInit, KeysInv, OneSurface, ShownHasKeys, ToSet
<1> SUFFICES ASSUME OneHandle PROVE LockSurfaceSpec => []LockScreenHolds
  OBVIOUS
<1>2. SurfaceInv /\ KeysInv /\ [LockSurfaceNext]_lockSurfaceVars => KeysInv'
  BY NextKeysInv
<1>3. LockSurfaceSpec => []HolderIsTypedAt
  BY <1>1, <1>2, InitSurfaceInv, NextSurfaceInv, KeysAreTyped, PTL DEF LockSurfaceSpec
<1>4. LockScreenIsUpToDate /\ ShownAsConfigured /\ HolderIsTypedAt => LockScreenHolds
  BY DEF LockScreenHolds
<1> QED BY <1>3, <1>4, ScreenAlwaysUpToDate, ShownAsAcked, PTL

=============================================================================
