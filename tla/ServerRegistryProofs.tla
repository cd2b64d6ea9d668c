------------------------ MODULE ServerRegistryProofs ------------------------
(***************************************************************************)
(* Proofs about ServerRegistry, for every set of owners, engines and       *)
(* numbers and any MaxBrokers: its type invariant, and the three           *)
(* invariants of the server count, from one inductive invariant.           *)
(***************************************************************************)
EXTENDS ServerRegistry, FiniteSetTheorems, TLAPS

\* An owner that has a server in hand has one of its own.
MineIsMine ==
    \A b \in Owners :
        /\ at[b] \in {"spawned", "serving", "stopping", "leftover", "release",
                      "resume"}
              => mine[b] \in Servers /\ mine[b].owner = b
        /\ at[b] = "spawned" => mine[b].engine = target[b]

\* A server whose entry is about to be dropped is dead.
ReleasedIsDead ==
    \A b \in Owners : at[b] \in {"release", "resume"} => mine[b] \notin alive

\* Between the end of a claim's sweep and its spawn the slot is empty.
FreeIsFree ==
    \A b \in Owners : at[b] = "free" =>
        \A s \in alive : ~(s.engine = target[b] /\ Role(s) = RoleOf[b])

\* An owner that was never started has started no server.
DownHasNone ==
    \A b \in Owners : at[b] = "down" => \A s \in alive : s.owner # b

\* The list a claim is about to write loses no live server.
KeptIsEnough ==
    \A b \in Owners : at[b] \in {"free", "spawned"} =>
        \A s \in alive \cap entries :
            s.engine = target[b] /\ Up(s.owner) => s \in kept[b]

\* LiveServersRecorded, naming the one server that may be unrecorded.
UnrecordedIsMine ==
    \A s \in alive : Up(s.owner) =>
        s \in entries \/ (at[s.owner] = "spawned" /\ mine[s.owner] = s)

KeptOfEngine ==
    \A b \in Owners : at[b] \in {"free", "spawned"} =>
        \A s \in kept[b] : s.engine = target[b]

IInv == /\ TypeOK /\ MineIsMine /\ ReleasedIsDead /\ FreeIsFree /\ DownHasNone
        /\ KeptIsEnough /\ KeptOfEngine /\ UnrecordedIsMine /\ OnePerSlot

-----------------------------------------------------------------------------
(* Types *)

\* While an owner sweeps, it holds the lock of the registry it sweeps.
LEMMA SweptIsLocked ==
    ASSUME TypeOK, NEW b \in Owners, at[b] \in {"sweeping", "claiming"}
    PROVE  Swept(b) \in Engines /\ lock[Swept(b)] = b
<1>1. \E e \in Engines : lock[e] = b
    BY DEF TypeOK
<1>. QED BY <1>1 DEF Swept

\* One step keeps the types, and keeps a lock with the owner that uses it.
LEMMA TypeStep == TypeOK /\ MineIsMine /\ [Next]_vars => TypeOK'
<1>. SUFFICES ASSUME TypeOK, MineIsMine, [Next]_vars PROVE TypeOK'
    OBVIOUS
<1>. USE RegistryAssumption DEF TypeOK, Places
<1>a. ASSUME NEW b \in Owners,
             \/ Start(b) \/ LockOther(b) \/ LockOwn(b) \/ SweepKill(b)
             \/ SweepFails(b) \/ OtherFree(b) \/ OtherBusy(b)
             \/ OwnLeftover(b) \/ ClaimBusy(b) \/ ClaimFree(b)
             \/ SpawnFails(b) \/ Spawn(b) \/ Record(b) \/ Stop(b)
             \/ StopKill(b) \/ StopRelease(b) \/ StopFails(b) \/ Forget(b)
             \/ Crash(b)
      PROVE  TypeOK'
  <2>1. CASE Start(b)
      BY <2>1 DEF Start, GoTo, Up
  <2>2. CASE LockOther(b)
      BY <2>2 DEF LockOther, GoTo, Lock
  <2>3. CASE LockOwn(b)
      BY <2>3 DEF LockOwn, GoTo, Lock
  <2>4. CASE SweepKill(b)
      BY <2>4 DEF SweepKill
  <2>5. CASE SweepFails(b)
      BY <2>5, SweptIsLocked DEF SweepFails, GoTo, Unlock
  <2>6. CASE OtherFree(b)
      BY <2>6, SweptIsLocked DEF OtherFree, GoTo, Unlock, SweepEnds, Kept
  <2>7. CASE OtherBusy(b)
      BY <2>7, SweptIsLocked DEF OtherBusy, GoTo, Unlock, SweepEnds, Kept
  <2>8. CASE OwnLeftover(b)
      BY <2>8, SweptIsLocked DEF OwnLeftover, GoTo, Unlock, SweepEnds, Kept,
         Holders
  <2>9. CASE ClaimBusy(b)
      BY <2>9, SweptIsLocked DEF ClaimBusy, GoTo, Unlock, SweepEnds, Kept
  <2>10. CASE ClaimFree(b)
      BY <2>10 DEF ClaimFree, GoTo, Kept
  <2>11. CASE SpawnFails(b)
      BY <2>11 DEF SpawnFails, GoTo, Unlock
  <2>12. CASE Spawn(b)
      BY <2>12 DEF Spawn, GoTo, Servers
  <2>13. CASE Record(b)
      BY <2>13 DEF Record, GoTo, Unlock, WithMine, MineIsMine
  <2>14. CASE Stop(b)
      BY <2>14 DEF Stop, GoTo
  <2>15. CASE StopKill(b)
      BY <2>15 DEF StopKill, GoTo
  <2>16. CASE StopRelease(b)
      BY <2>16 DEF StopRelease, GoTo
  <2>17. CASE StopFails(b)
      BY <2>17 DEF StopFails, GoTo
  <2>18. CASE Forget(b)
      BY <2>18 DEF Forget, GoTo
  <2>19. CASE Crash(b)
      BY <2>19 DEF Crash, GoTo
  <2>. QED BY <1>a, <2>1, <2>2, <2>3, <2>4, <2>5, <2>6, <2>7, <2>8, <2>9,
              <2>10, <2>11, <2>12, <2>13, <2>14, <2>15, <2>16, <2>17, <2>18,
              <2>19
<1>b. ASSUME NEW b \in Owners, NEW e \in Engines, Begin(b, e) PROVE TypeOK'
    BY <1>b DEF Begin, GoTo, Elsewhere
<1>c. ASSUME NEW b \in Owners, NEW e \in Engines, CalSweep(b, e) PROVE TypeOK'
    BY <1>c DEF CalSweep, Kept
<1>d. ASSUME NEW s \in Servers, ServerDies(s) \/ ReleaseDead(s) PROVE TypeOK'
    BY <1>d DEF ServerDies, ReleaseDead
<1>e. ASSUME NEW e \in Engines, LockStale(e) PROVE TypeOK'
    BY <1>e DEF LockStale, Stale, Unlock, Up
<1>f. CASE UNCHANGED vars
    BY <1>f DEF vars
<1>. QED BY <1>a, <1>b, <1>c, <1>d, <1>e, <1>f DEF Next

-----------------------------------------------------------------------------
(* The inductive invariant *)

\* One step keeps it.  Only Spawn adds a server, and FreeIsFree says that it
\* adds the first of its slot; only a holder of the engine's lock, or a release
\* of a dead server, changes what an engine's registry lists.
LEMMA InvStep == IInv /\ [Next]_vars => IInv'
<1>. SUFFICES ASSUME IInv, [Next]_vars PROVE IInv'
    OBVIOUS
<1>t. TypeOK'
    BY TypeStep DEF IInv
<1>. USE RegistryAssumption
     DEF IInv, TypeOK, MineIsMine, ReleasedIsDead, FreeIsFree, DownHasNone,
         KeptIsEnough, KeptOfEngine, UnrecordedIsMine, OnePerSlot, Up, Role
<1>1. ASSUME NEW b \in Owners, Start(b) PROVE IInv'
      BY <1>1, <1>t DEF Start, GoTo
<1>2. ASSUME NEW b \in Owners, LockOther(b) PROVE IInv'
      BY <1>2, <1>t DEF LockOther, GoTo, Lock
<1>3. ASSUME NEW b \in Owners, LockOwn(b) PROVE IInv'
      BY <1>3, <1>t DEF LockOwn, GoTo, Lock
<1>4. ASSUME NEW b \in Owners, SweepKill(b) PROVE IInv'
      BY <1>4, <1>t, SweptIsLocked DEF SweepKill, Orphans,AliveOn
<1>5. ASSUME NEW b \in Owners, SweepFails(b) PROVE IInv'
      BY <1>5, <1>t, SweptIsLocked DEF SweepFails, GoTo, Unlock
<1>6. ASSUME NEW b \in Owners, OtherFree(b) PROVE IInv'
      BY <1>6, <1>t, SweptIsLocked DEF OtherFree, GoTo, Unlock, SweepEnds,
         Kept, Orphans, AliveOn
<1>7. ASSUME NEW b \in Owners, OtherBusy(b) PROVE IInv'
      BY <1>7, <1>t, SweptIsLocked DEF OtherBusy, GoTo, Unlock, SweepEnds,
         Kept, Orphans, AliveOn
<1>8. ASSUME NEW b \in Owners, OwnLeftover(b) PROVE IInv'
      BY <1>8, <1>t, SweptIsLocked DEF OwnLeftover, GoTo, Unlock, SweepEnds,
         Kept, Holders, Orphans, AliveOn
<1>9. ASSUME NEW b \in Owners, ClaimBusy(b) PROVE IInv'
      BY <1>9, <1>t, SweptIsLocked DEF ClaimBusy, GoTo, Unlock, SweepEnds,
         Kept, Orphans, AliveOn
<1>10. ASSUME NEW b \in Owners, ClaimFree(b) PROVE IInv'
      BY <1>10, <1>t DEF ClaimFree, GoTo, Kept, SlotFree, Holders, Orphans,
         AliveOn
<1>11. ASSUME NEW b \in Owners, SpawnFails(b) PROVE IInv'
      BY <1>11, <1>t DEF SpawnFails, GoTo, Unlock
<1>12. ASSUME NEW b \in Owners, Spawn(b) PROVE IInv'
      BY <1>12, <1>t DEF Spawn, GoTo, Servers
<1>13. ASSUME NEW b \in Owners, Record(b) PROVE IInv'
      BY <1>13, <1>t DEF Record, GoTo, Unlock, WithMine
<1>14. ASSUME NEW b \in Owners, Stop(b) PROVE IInv'
      BY <1>14, <1>t DEF Stop, GoTo
<1>15. ASSUME NEW b \in Owners, StopKill(b) PROVE IInv'
      BY <1>15, <1>t DEF StopKill, GoTo
<1>16. ASSUME NEW b \in Owners, StopRelease(b) PROVE IInv'
      BY <1>16, <1>t DEF StopRelease, GoTo
<1>17. ASSUME NEW b \in Owners, StopFails(b) PROVE IInv'
      BY <1>17, <1>t DEF StopFails, GoTo
<1>18. ASSUME NEW b \in Owners, Forget(b) PROVE IInv'
      BY <1>18, <1>t DEF Forget, GoTo
<1>19. ASSUME NEW b \in Owners, Crash(b) PROVE IInv'
      BY <1>19, <1>t DEF Crash, GoTo
<1>b. ASSUME NEW b \in Owners, NEW e \in Engines, Begin(b, e) PROVE IInv'
    BY <1>b, <1>t DEF Begin, GoTo, Elsewhere
<1>c. ASSUME NEW b \in Owners, NEW e \in Engines, CalSweep(b, e) PROVE IInv'
    BY <1>c, <1>t DEF CalSweep, Kept, Orphans, AliveOn
<1>d. ASSUME NEW s \in Servers, ServerDies(s) \/ ReleaseDead(s) PROVE IInv'
    BY <1>d, <1>t DEF ServerDies, ReleaseDead
<1>e. ASSUME NEW e \in Engines, LockStale(e) PROVE IInv'
    BY <1>e, <1>t DEF LockStale, Stale, Unlock, Up
<1>f. CASE UNCHANGED vars
    BY <1>f, <1>t DEF vars
<1>. QED BY <1>b, <1>c, <1>d, <1>e, <1>f, <1>1, <1>2, <1>3, <1>4, <1>5, <1>6,
            <1>7, <1>8, <1>9, <1>10, <1>11, <1>12, <1>13, <1>14, <1>15, <1>16,
            <1>17, <1>18, <1>19 DEF Next

\* No owner runs and no server does at the start.
LEMMA InvInit == Init => IInv
<1>1. ASSUME Init PROVE TypeOK
    BY <1>1, RegistryAssumption DEF Init, TypeOK, Places
<1>. QED BY <1>1 DEF Init, IInv, MineIsMine, ReleasedIsDead, FreeIsFree,
                     DownHasNone, KeptIsEnough, KeptOfEngine,
                     UnrecordedIsMine, OnePerSlot

\* The inductive invariant holds in every reachable state.
LEMMA Invariance == Spec => []IInv
<1>. QED BY InvInit, InvStep, PTL DEF Spec

\* Every variable keeps its type, and a lock stays with the owner that sweeps,
\* claims or spawns under it, whatever is killed meanwhile.
THEOREM TypeCorrect == Spec => []TypeOK
<1>1. IInv => TypeOK
    BY DEF IInv
<1>. QED BY Invariance, <1>1, PTL

\* At most one main and one calibration server run per engine (registry.ts),
\* for any number of brokers and runners that start, crash and take over.
THEOREM AtMostOnePerSlot == Spec => []OnePerSlot
<1>1. IInv => OnePerSlot
    BY DEF IInv
<1>. QED BY Invariance, <1>1, PTL

\* No sweep stops a server whose owner is up: an unrecorded one of such an
\* owner is still being started, and then its owner holds the lock.
THEOREM SweepsSpareTheLiving == Spec => []OnlyOrphansSwept
<1>1. IInv => OnlyOrphansSwept
  <2>. SUFFICES ASSUME IInv, NEW b \in Owners,
                       at[b] \in {"sweeping", "claiming"},
                       NEW s \in Orphans(Swept(b), RoleOf[b]), Up(s.owner)
                PROVE  FALSE
      BY DEF OnlyOrphansSwept
  <2>1. s \in alive /\ s \in Servers /\ s.engine = Swept(b)
      BY DEF Orphans, AliveOn, IInv, TypeOK
  <2>2. at[s.owner] = "spawned" /\ mine[s.owner] = s
      BY <2>1 DEF Orphans, IInv, UnrecordedIsMine
  <2>3. s.owner \in Owners /\ lock[s.engine] = s.owner
      BY <2>1, <2>2 DEF IInv, MineIsMine, TypeOK, Servers
  <2>. QED BY <2>1, <2>2, <2>3, SweptIsLocked DEF IInv
<1>. QED BY Invariance, <1>1, PTL

\* The registry never loses the server of an owner that is up.
THEOREM LiveOnesRecorded == Spec => []LiveServersRecorded
<1>1. IInv => LiveServersRecorded
    BY DEF IInv, UnrecordedIsMine, LiveServersRecorded
<1>. QED BY Invariance, <1>1, PTL

-----------------------------------------------------------------------------
(* One local model, while brokers do not overlap *)

Alone == \A b, c \in Brokers : Up(b) /\ Up(c) => b = c

\* The engines a starting broker has behind it run no main, and the one whose
\* leftover it stops runs no other.
SweptClean ==
    \A b \in Brokers : \A s \in alive : Role(s) = "main" =>
        /\ at[b] \in {"other", "sweeping", "leftover", "resume"}
              => s.engine \in todo[b] \cup {target[b]}
        /\ at[b] \in {"claim", "claiming", "free"} => s.engine = target[b]
        /\ at[b] \in {"leftover", "resume"} /\ s.engine = mine[b].engine
              => s = mine[b]

OneInv == IInv /\ Alone /\ SweptClean /\ OneLocalModel

\* A broker that starts is the only one up.
LEMMA AloneStep ==
    ASSUME MaxBrokers = 1, IsFiniteSet(Owners)
    PROVE  TypeOK /\ Alone /\ [Next]_vars => Alone'
<1>. SUFFICES ASSUME TypeOK, Alone, [Next]_vars PROVE Alone'
    OBVIOUS
<1>1. ASSUME NEW b \in Owners, Start(b) PROVE Alone'
  <2>. DEFINE U == {o \in Brokers : Up(o)}
  <2>1. RoleOf[b] = "main" => U = {}
    <3>1. RoleOf[b] = "main" => Cardinality(U) < 1
        BY <1>1 DEF Start
    <3>2. IsFiniteSet(U)
        BY FS_Subset DEF Brokers
    <3>. QED BY <3>1, <3>2, FS_CardinalityType, FS_EmptySet
  <2>. QED BY <1>1, <2>1 DEF Start, GoTo, Alone, Up, Brokers, TypeOK
<1>2. ASSUME NEW b \in Owners, Up(b), NEW where, GoTo(b, where) PROVE Alone'
    BY <1>2 DEF GoTo, Alone, Up, Brokers, TypeOK
<1>3. ASSUME at' = at PROVE Alone'
    BY <1>3 DEF Alone, Up, Brokers
<1>4. ASSUME NEW b \in Owners,
             \/ LockOther(b) \/ LockOwn(b) \/ SweepKill(b) \/ SweepFails(b)
             \/ OtherFree(b) \/ OtherBusy(b) \/ OwnLeftover(b)
             \/ ClaimBusy(b) \/ ClaimFree(b) \/ SpawnFails(b) \/ Spawn(b)
             \/ Record(b) \/ Stop(b) \/ StopKill(b) \/ StopRelease(b)
             \/ StopFails(b) \/ Forget(b) \/ Crash(b)
      PROVE  Alone'
    BY <1>2, <1>3, <1>4 DEF Up, LockOther, LockOwn, SweepKill, SweepFails,
       OtherFree, OtherBusy, OwnLeftover, ClaimBusy, ClaimFree, SpawnFails,
       Spawn, Record, Stop, StopKill, StopRelease, StopFails, Forget, Crash
<1>5. ASSUME NEW b \in Owners, NEW e \in Engines, Begin(b, e) \/ CalSweep(b, e)
      PROVE  Alone'
    BY <1>2, <1>3, <1>5 DEF Up, Begin, CalSweep
<1>6. ASSUME \/ UNCHANGED vars
             \/ \E s \in Servers : ServerDies(s) \/ ReleaseDead(s)
             \/ \E e \in Engines : LockStale(e)
      PROVE  Alone'
    BY <1>3, <1>6 DEF vars, ServerDies, ReleaseDead, LockStale
<1>. QED BY <1>1, <1>4, <1>5, <1>6 DEF Next

\* With at most one broker up, one step keeps the mains to one.
LEMMA OneStep ==
    ASSUME MaxBrokers = 1, IsFiniteSet(Owners)
    PROVE  OneInv /\ [Next]_vars => OneInv'
<1>. SUFFICES ASSUME OneInv, [Next]_vars PROVE OneInv'
    OBVIOUS
<1>i. IInv' /\ Alone'
    BY InvStep, AloneStep DEF OneInv, IInv
<1>. USE RegistryAssumption
     DEF OneInv, IInv, TypeOK, MineIsMine, Alone, SweptClean, OneLocalModel,
         OnePerSlot, Up, Role, Brokers
<1>1. ASSUME NEW b \in Owners, Start(b) PROVE OneInv'
    BY <1>1, <1>i DEF Start, GoTo
<1>2. ASSUME NEW b \in Owners, LockOther(b) PROVE OneInv'
    BY <1>2, <1>i DEF LockOther, GoTo, Lock
<1>3. ASSUME NEW b \in Owners, LockOwn(b) PROVE OneInv'
    BY <1>3, <1>i DEF LockOwn, GoTo, Lock
<1>4. ASSUME NEW b \in Owners, SweepKill(b) PROVE OneInv'
    BY <1>4, <1>i DEF SweepKill
<1>5. ASSUME NEW b \in Owners, SweepFails(b) PROVE OneInv'
    BY <1>5, <1>i DEF SweepFails, GoTo, Unlock
<1>6. ASSUME NEW b \in Owners, OtherFree(b) PROVE OneInv'
    BY <1>6, <1>i DEF OtherFree, GoTo, SweepEnds, Kept, Holders, Orphans,
       AliveOn
<1>7. ASSUME NEW b \in Owners, OtherBusy(b) PROVE OneInv'
    BY <1>7, <1>i DEF OtherBusy, GoTo
<1>8. ASSUME NEW b \in Owners, OwnLeftover(b) PROVE OneInv'
    BY <1>8, <1>i DEF OwnLeftover, GoTo, SweepEnds, Kept, Holders, Orphans,
       AliveOn
<1>9. ASSUME NEW b \in Owners, ClaimBusy(b) PROVE OneInv'
    BY <1>9, <1>i DEF ClaimBusy, GoTo
<1>10. ASSUME NEW b \in Owners, ClaimFree(b) PROVE OneInv'
    BY <1>10, <1>i DEF ClaimFree, GoTo
<1>11. ASSUME NEW b \in Owners, SpawnFails(b) PROVE OneInv'
    BY <1>11, <1>i DEF SpawnFails, GoTo
<1>12. ASSUME NEW b \in Owners, Spawn(b) PROVE OneInv'
    BY <1>12, <1>i DEF Spawn, GoTo, FreeIsFree
<1>13. ASSUME NEW b \in Owners, Record(b) PROVE OneInv'
    BY <1>13, <1>i DEF Record, GoTo
<1>14. ASSUME NEW b \in Owners, Stop(b) PROVE OneInv'
    BY <1>14, <1>i DEF Stop, GoTo
<1>15. ASSUME NEW b \in Owners, StopKill(b) PROVE OneInv'
    BY <1>15, <1>i DEF StopKill, GoTo
<1>16. ASSUME NEW b \in Owners, StopRelease(b) PROVE OneInv'
    BY <1>16, <1>i DEF StopRelease, GoTo, ReleasedIsDead
<1>17. ASSUME NEW b \in Owners, StopFails(b) PROVE OneInv'
    BY <1>17, <1>i DEF StopFails, GoTo
<1>18. ASSUME NEW b \in Owners, Forget(b) PROVE OneInv'
    BY <1>18, <1>i DEF Forget, GoTo
<1>19. ASSUME NEW b \in Owners, Crash(b) PROVE OneInv'
    BY <1>19, <1>i DEF Crash, GoTo
<1>b. ASSUME NEW b \in Owners, NEW e \in Engines, Begin(b, e) PROVE OneInv'
    BY <1>b, <1>i DEF Begin, GoTo, Elsewhere, Servers
<1>c. ASSUME NEW b \in Owners, NEW e \in Engines, CalSweep(b, e) PROVE OneInv'
    BY <1>c, <1>i DEF CalSweep
<1>d. ASSUME NEW s \in Servers, ServerDies(s) \/ ReleaseDead(s) PROVE OneInv'
    BY <1>d, <1>i DEF ServerDies, ReleaseDead
<1>e. ASSUME NEW e \in Engines, LockStale(e) PROVE OneInv'
    BY <1>e, <1>i DEF LockStale
<1>f. CASE UNCHANGED vars
    BY <1>f, <1>i DEF vars
<1>. QED BY <1>b, <1>c, <1>d, <1>e, <1>f, <1>1, <1>2, <1>3, <1>4, <1>5, <1>6,
            <1>7, <1>8, <1>9, <1>10, <1>11, <1>12, <1>13, <1>14, <1>15, <1>16,
            <1>17, <1>18, <1>19 DEF Next

\* One local model at a time across engines, as long as no two brokers are up
\* at once, whatever crashes and whichever stop fails: only a handover, when an
\* old and a new broker overlap, can break the rule.
THEOREM OneModelWithoutHandover ==
    ASSUME MaxBrokers = 1, IsFiniteSet(Owners)
    PROVE  Spec => []OneLocalModel
<1>1. Init => OneInv
    BY InvInit DEF Init, OneInv, Alone, SweptClean, OneLocalModel, Up, Brokers
<1>2. OneInv /\ [Next]_vars => OneInv'
    BY OneStep
<1>3. OneInv => OneLocalModel
    BY DEF OneInv
<1>. QED BY <1>1, <1>2, <1>3, PTL DEF Spec
=============================================================================
