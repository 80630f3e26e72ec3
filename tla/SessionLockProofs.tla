------------------------- MODULE SessionLockProofs -------------------------
(***************************************************************************)
(* Proofs about SessionLock, for any set of lock ids.                      *)
(*                                                                         *)
(* The inductive invariant is the conjunction of the module's invariants.  *)
(* None is inductive alone: that a fresh holder was not told needs         *)
(* told \subseteq minted; that a holder told by a frame is in `told` needs *)
(* its object to be in the map.                                            *)
(***************************************************************************)
EXTENDS SessionLock, TLAPS

LockInv == LockTypeOK /\ HolderKnowsTheGlass /\ HolderIsReachable

\* The initial state satisfies the invariant.
LEMMA LockInitInv == LockInit => LockInv
BY DEF LockInit, LockInv, LockTypeOK, HolderKnowsTheGlass, HolderIsReachable

\* Telling the holder that a hidden frame is on the glass keeps the
\* invariant, whatever becomes of the in-flight flag of a held seat.
LEMMA CoverInv ==
    ASSUME LockInv, CoverGlass, flipInFlight' \in BOOLEAN, flipInFlight' => flipInFlight
    PROVE  LockInv'
<1>1. CASE held
  BY <1>1 DEF CoverGlass, Seal, LockInv, LockTypeOK, HolderKnowsTheGlass, HolderIsReachable
<1>2. CASE ~held
  BY <1>2 DEF CoverGlass, seal, LockInv, LockTypeOK, HolderKnowsTheGlass, HolderIsReachable
<1> QED BY <1>1, <1>2

\* Losing an object keeps the invariant: a lost holder leaves a vacant seal.
LEMMA LossInv ==
    ASSUME LockInv, NEW id \in LockId, Forget(id), Vacate(id), UNCHANGED flipInFlight
    PROVE  LockInv'
<1>1. CASE IsHolder(id)
  BY <1>1 DEF IsHolder, Vacate, Forget, Seal, LockInv, LockTypeOK, HolderKnowsTheGlass,
              HolderIsReachable
<1>2. CASE ~IsHolder(id)
  BY <1>2 DEF IsHolder, Vacate, Forget, seal, LockInv, LockTypeOK, HolderKnowsTheGlass,
              HolderIsReachable
<1> QED BY <1>1, <1>2

\* Every step of the machine and its shell keeps the invariant.
LEMMA LockNextInv == LockInv /\ [LockNext]_lockVars => LockInv'
<1> SUFFICES ASSUME LockInv, [LockNext]_lockVars PROVE LockInv'
  OBVIOUS
<1>1. ASSUME NEW id \in LockId, GrantOpen(id) PROVE LockInv'
  BY <1>1, NoLockAssumption
     DEF GrantOpen, MintFresh, Seal, LockInv, LockTypeOK, HolderKnowsTheGlass, HolderIsReachable
<1>2. ASSUME NEW id \in LockId, GrantTakeover(id) PROVE LockInv'
  BY <1>2, NoLockAssumption
     DEF GrantTakeover, NeedsAClient, MintFresh, Seal, LockInv, LockTypeOK, HolderKnowsTheGlass,
         HolderIsReachable
<1>3. ASSUME NEW id \in LockId, FinishLock(id) PROVE LockInv'
  BY <1>3 DEF FinishLock, MintFresh, seal, LockInv, LockTypeOK, HolderKnowsTheGlass,
              HolderIsReachable
<1>4. ASSUME NEW id \in LockId, UnlockOpens(id) PROVE LockInv'
  BY <1>4 DEF UnlockOpens, Forget, Unseal, LockInv, LockTypeOK, HolderKnowsTheGlass,
              HolderIsReachable
<1>5. ASSUME NEW id \in LockId, UnlockRefused(id) PROVE LockInv'
  BY <1>5, LossInv DEF UnlockRefused
<1>6. ASSUME NEW id \in LockId, LoseObject(id) PROVE LockInv'
  BY <1>6, LossInv DEF LoseObject
<1>7. ASSUME CompositorLock PROVE LockInv'
  BY <1>7 DEF CompositorLock, Seal, wire, LockInv, LockTypeOK, HolderKnowsTheGlass,
              HolderIsReachable
<1>8. ASSUME FrameFlipped PROVE LockInv'
  BY <1>8 DEF FrameFlipped, seal, wire, LockInv, LockTypeOK, HolderKnowsTheGlass,
              HolderIsReachable
<1>9. ASSUME FrameRetired PROVE LockInv'
  <2>1. CASE flipInFlight
    BY <1>9, <2>1, CoverInv DEF FrameRetired
  <2>2. CASE ~flipInFlight
    BY <1>9, <2>2 DEF FrameRetired, lockVars, LockInv, LockTypeOK, HolderKnowsTheGlass,
                      HolderIsReachable
  <2> QED BY <2>1, <2>2
<1>10. ASSUME OnGlassNow PROVE LockInv'
  BY <1>10, CoverInv DEF OnGlassNow, LockInv, LockTypeOK
<1>11. ASSUME UNCHANGED lockVars PROVE LockInv'
  BY <1>11 DEF lockVars, LockInv, LockTypeOK, HolderKnowsTheGlass, HolderIsReachable
<1> QED
  BY <1>1, <1>2, <1>3, <1>4, <1>5, <1>6, <1>7, <1>8, <1>9, <1>10, <1>11 DEF LockNext, Lock

\* The session lock's state is well typed, its holder knows the glass and can
\* be told, in every reachable state.
THEOREM LockInvariant == LockSpec => []LockInv
BY LockInitInv, LockNextInv, PTL DEF LockSpec

\* The state is well typed, and an open seat is clean.
THEOREM LockTypeCorrect == LockSpec => []LockTypeOK
<1>1. LockInv => LockTypeOK
  BY DEF LockInv
<1> QED BY <1>1, LockInvariant, PTL

\* The holder is told if and only if a hidden frame is on the glass.
THEOREM LockedIsTold == LockSpec => []HolderKnowsTheGlass
<1>1. LockInv => HolderKnowsTheGlass
  BY DEF LockInv
<1> QED BY <1>1, LockInvariant, PTL

\* `locked` can always be delivered to the holder.
THEOREM HolderAlwaysReachable == LockSpec => []HolderIsReachable
<1>1. LockInv => HolderIsReachable
  BY DEF LockInv
<1> QED BY <1>1, LockInvariant, PTL

-----------------------------------------------------------------------------
(* Steps.                                                                  *)

\* What each kind of step may do to the seal: cover the glass, grant, vacate
\* or open; every action property follows from this one.
SealStep ==
    \/ UNCHANGED <<held, holder, announced, told>>
    \/ /\ held /\ held' /\ ~announced /\ holder' = holder
       /\ \/ holder = NoLock /\ ~announced' /\ told' = told
          \/ holder # NoLock /\ announced' /\ holder \notin told /\ told' = told \cup {holder}
    \/ /\ holder = NoLock /\ ~announced /\ held' /\ holder' \notin minted
       /\ \/ ~announced' /\ told' = told
          \/ held /\ announced' /\ holder' \in LockId /\ told' = told \cup {holder'}
    \/ /\ held /\ held' /\ holder # NoLock /\ holder' = NoLock /\ ~announced' /\ told' = told
       /\ holder \notin alive'
    \/ /\ held /\ ~held' /\ announced /\ holder # NoLock /\ holder' = NoLock /\ ~announced'
       /\ told' = told /\ holder \in alive /\ alive' = alive \ {holder}

LEMMA LossIsSealStep ==
    ASSUME LockInv, NEW id \in LockId, Forget(id), Vacate(id)
    PROVE  SealStep
<1>1. CASE IsHolder(id)
  BY <1>1, NoLockAssumption DEF IsHolder, Vacate, Forget, Seal, SealStep
<1>2. CASE ~IsHolder(id)
  BY <1>2 DEF Vacate, Forget, seal, SealStep
<1> QED BY <1>1, <1>2

LEMMA CoverIsSealStep == ASSUME LockInv, CoverGlass PROVE SealStep
<1> USE DEF LockInv, LockTypeOK, HolderKnowsTheGlass, HolderIsReachable
<1>1. CASE held /\ ~announced
  <2>1. CASE holder = NoLock
    BY <1>1, <2>1, NoLockAssumption DEF CoverGlass, Seal, SealStep
  <2>2. CASE holder # NoLock
    BY <1>1, <2>2 DEF CoverGlass, Seal, SealStep
  <2> QED BY <2>1, <2>2
<1>2. CASE held /\ announced
  BY <1>2 DEF CoverGlass, Seal, SealStep
<1>3. CASE ~held
  BY <1>3 DEF CoverGlass, seal, SealStep
<1> QED BY <1>1, <1>2, <1>3

\* Every step is one of these.
LEMMA NextIsSealStep == LockInv /\ [LockNext]_lockVars => SealStep
<1> SUFFICES ASSUME LockInv, [LockNext]_lockVars PROVE SealStep
  OBVIOUS
<1>1. ASSUME NEW id \in LockId, GrantOpen(id) PROVE SealStep
  BY <1>1 DEF GrantOpen, MintFresh, Seal, SealStep, LockInv, LockTypeOK
<1>2. ASSUME NEW id \in LockId, GrantTakeover(id) PROVE SealStep
  <2>1. ~announced
    BY <1>2 DEF GrantTakeover, NeedsAClient, LockInv, HolderKnowsTheGlass
  <2>2. CASE onGlass
    BY <1>2, <2>1, <2>2 DEF GrantTakeover, NeedsAClient, MintFresh, Seal, SealStep
  <2>3. CASE ~onGlass
    BY <1>2, <2>1, <2>3 DEF GrantTakeover, NeedsAClient, MintFresh, Seal, SealStep
  <2> QED BY <2>2, <2>3
<1>3. ASSUME NEW id \in LockId, FinishLock(id) PROVE SealStep
  BY <1>3 DEF FinishLock, seal, SealStep
<1>4. ASSUME NEW id \in LockId, UnlockOpens(id) PROVE SealStep
  BY <1>4, NoLockAssumption DEF UnlockOpens, MayUnlock, IsHolder, Forget, Unseal, SealStep
<1>5. ASSUME NEW id \in LockId, UnlockRefused(id) \/ LoseObject(id) PROVE SealStep
  BY <1>5, LossIsSealStep DEF UnlockRefused, LoseObject
<1>6. ASSUME CompositorLock PROVE SealStep
  BY <1>6, NoLockAssumption DEF CompositorLock, Seal, wire, SealStep, LockInv, LockTypeOK
<1>7. ASSUME FrameFlipped \/ UNCHANGED lockVars PROVE SealStep
  BY <1>7 DEF FrameFlipped, seal, wire, lockVars, SealStep
<1>8. ASSUME FrameRetired \/ OnGlassNow PROVE SealStep
  <2>1. CASE CoverGlass
    BY <2>1, CoverIsSealStep
  <2>2. CASE UNCHANGED lockVars
    BY <2>2 DEF lockVars, SealStep
  <2> QED BY <1>8, <2>1, <2>2 DEF FrameRetired, OnGlassNow
<1> QED
  BY <1>1, <1>2, <1>3, <1>4, <1>5, <1>6, <1>7, <1>8 DEF LockNext, Lock

\* Only the holder that was told `locked` opens the seat.
THEOREM OnlyTheHolderOpens == LockSpec => OnlyTheToldHolderOpens
<1>1. LockInv /\ SealStep => (held /\ ~held' =>
          holder \in told /\ holder \in alive /\ alive' = alive \ {holder})
  BY DEF SealStep, LockInv, HolderKnowsTheGlass
<1> QED BY <1>1, NextIsSealStep, LockInvariant, PTL DEF LockSpec, OnlyTheToldHolderOpens

\* A lock changes hands only through a vacant seal, and no id holds twice.
THEOREM NobodyDisplaces == LockSpec => NobodyDisplacesAHolder
<1>1. LockInv /\ SealStep =>
          /\ holder # NoLock /\ holder' # holder => holder' = NoLock /\ holder \notin alive'
          /\ holder' # holder => holder' \notin minted
  BY NoLockAssumption DEF SealStep, LockInv, LockTypeOK
<1> QED BY <1>1, NextIsSealStep, LockInvariant, PTL DEF LockSpec, NobodyDisplacesAHolder

\* The session lock implements the promise of SeatSeal: every one of its steps
\* is a step of the promise, or none.
THEOREM LockKeepsThePromise == LockSpec => KeepsThePromise
<1> DEFINE K == IF announced THEN holder ELSE NoLock
<1>1. LockInit => Promise!SealInit
  BY DEF LockInit, Promise!SealInit
<1>2. LockInv /\ SealStep => [Promise!SealNext]_<<held, K, told>>
  <2> SUFFICES ASSUME LockInv, SealStep PROVE [Promise!SealNext]_<<held, K, told>>
    OBVIOUS
  <2> USE DEF LockInv, LockTypeOK, HolderKnowsTheGlass
  <2>1. CASE UNCHANGED <<held, holder, announced, told>>
    BY <2>1
  <2>2. CASE /\ held /\ held' /\ ~announced /\ holder' = holder
             /\ holder = NoLock /\ ~announced' /\ told' = told
    BY <2>2
  <2>3. CASE /\ held /\ held' /\ ~announced /\ holder' = holder
             /\ holder # NoLock /\ announced' /\ holder \notin told
             /\ told' = told \cup {holder}
    <3>1. Promise!HandOver(holder)
      BY <2>3 DEF Promise!HandOver
    <3>2. holder \in LockId
      BY <2>3
    <3> QED BY <3>1, <3>2 DEF Promise!SealNext
  <2>4. CASE /\ holder = NoLock /\ ~announced /\ held' /\ holder' \notin minted
             /\ ~announced' /\ told' = told
    <3>1. CASE held
      BY <2>4, <3>1
    <3>2. CASE ~held
      BY <2>4, <3>2 DEF Promise!SealNext, Promise!Shut
    <3> QED BY <3>1, <3>2
  <2>5. CASE /\ holder = NoLock /\ ~announced /\ held' /\ holder' \notin minted
             /\ held /\ announced' /\ holder' \in LockId /\ told' = told \cup {holder'}
    <3>1. Promise!HandOver(holder')
      BY <2>5 DEF Promise!HandOver
    <3> QED BY <2>5, <3>1 DEF Promise!SealNext
  <2>6. CASE /\ held /\ held' /\ holder # NoLock /\ holder' = NoLock /\ ~announced'
             /\ told' = told /\ holder \notin alive'
    <3>1. CASE announced
      BY <2>6, <3>1 DEF Promise!SealNext, Promise!LoseKey
    <3>2. CASE ~announced
      BY <2>6, <3>2
    <3> QED BY <3>1, <3>2
  <2>7. CASE /\ held /\ ~held' /\ announced /\ holder # NoLock /\ holder' = NoLock
             /\ ~announced' /\ told' = told
    <3>1. Promise!OpenWithKey
      BY <2>7 DEF Promise!OpenWithKey
    <3> QED BY <3>1 DEF Promise!SealNext
  <2> QED BY <2>1, <2>2, <2>3, <2>4, <2>5, <2>6, <2>7 DEF SealStep
<1>3. [Promise!SealNext]_<<held, K, told>> => [Promise!SealNext]_Promise!sealVars
  BY DEF Promise!sealVars
<1> QED BY <1>1, <1>2, <1>3, NextIsSealStep, LockInvariant, PTL
        DEF LockSpec, KeepsThePromise, Promise!SealSpec

\* The holder of the lock knows what it may do, and can be told.
THEOREM HolderAlwaysServed == LockSpec => []HolderIsServed
<1>1. HolderKnowsTheGlass /\ HolderIsReachable => HolderIsServed
  BY DEF HolderIsServed
<1> QED BY <1>1, LockedIsTold, HolderAlwaysReachable, PTL

\* The seal leaves its holder by the holder's own end or unlock alone.
THEOREM SealAlwaysStays == LockSpec => SealStaysWithItsHolder
  BY OnlyTheHolderOpens, NobodyDisplaces DEF SealStaysWithItsHolder

=============================================================================
