--------------------------- MODULE FileLocksProofs ---------------------------
(***************************************************************************)
(* Proofs about the directory locks and the benchmarks' lock file, each    *)
(* for any set of users and any bound on the faults: the locks exclude     *)
(* while nobody is killed or suspended in them, no update of a sidecar is  *)
(* lost, and of n claimers (n+1)/2 run benchmarks at once, and one more    *)
(* for each live run that lost its lock to its age or its claimer's death. *)
(***************************************************************************)
EXTENDS FileLocks, TLAPS, FiniteSetTheorems

-----------------------------------------------------------------------------
(* AsyncLock, the lock of the broker spawn and of the registry.  A killed  *)
(* process never runs again, so an invariant about the states in which     *)
(* nobody was killed is enough.                                            *)

NoneKilled == \A p \in Processes : Live(p)

\* Nobody removes a directory, nor has a reason to: the one that is there is
\* its holder's, who touches it.
NoTakeover == NoneKilled => ~stale /\ \A p \in Processes : at[p] # "remove"

AsyncInv == TypeOK /\ NoTakeover

\* The locks start free.
LEMMA AsyncInvInit == Init => AsyncInv
<1>. SUFFICES ASSUME Init PROVE AsyncInv
    OBVIOUS
<1>1. Inside = {} /\ {dir} \ {Nobody} = {}
    BY DEF Init, Inside
<1>. QED BY <1>1 DEF Init, AsyncInv, TypeOK, NoTakeover

\* One step keeps the invariant.
LEMMA AsyncInvStep == AsyncInv /\ [Next]_vars => AsyncInv'
<1>. SUFFICES ASSUME AsyncInv, [Next]_vars PROVE AsyncInv'
    OBVIOUS
<1>. USE LockAssumption DEF AsyncInv, TypeOK, NoTakeover, NoneKilled, Live, GoTo
<1>1. ASSUME NEW p \in Processes, Call(p) PROVE AsyncInv'
    BY <1>1 DEF Call, Inside
<1>2. ASSUME NEW p \in Processes, Acquire(p) PROVE AsyncInv'
    BY <1>2 DEF Acquire, Inside
<1>3. ASSUME NEW p \in Processes, Exists(p) PROVE AsyncInv'
    BY <1>3 DEF Exists, Inside
<1>4. ASSUME NEW p \in Processes, FoundStale(p) PROVE AsyncInv'
    BY <1>4 DEF FoundStale, Inside
<1>5. ASSUME NEW p \in Processes, FoundFresh(p) PROVE AsyncInv'
    BY <1>5 DEF FoundFresh, Inside
<1>6. ASSUME NEW p \in Processes, TimeOut(p) PROVE AsyncInv'
    BY <1>6 DEF TimeOut, Inside
<1>7. ASSUME NEW p \in Processes, Remove(p) PROVE AsyncInv'
    BY <1>7 DEF Remove, Inside
<1>8. ASSUME NEW p \in Processes, Leave(p) PROVE AsyncInv'
    BY <1>8 DEF Leave, Release, Inside
<1>9. ASSUME NEW p \in Processes, Crash(p) PROVE AsyncInv'
    BY <1>9 DEF Crash, Inside
<1>10. CASE Ages
    \* Without a kill a directory has its maker inside, so it does not age.
    BY <1>10 DEF Ages, NotRefreshed, Inside
<1>11. CASE UNCHANGED vars
    BY <1>11 DEF vars, Inside
<1>. QED BY <1>1, <1>2, <1>3, <1>4, <1>5, <1>6, <1>7, <1>8, <1>9, <1>10, <1>11
         DEF Next, Step

\* The inductive invariant holds in every reachable state.
LEMMA AsyncInvariance == Spec => []AsyncInv
<1>. QED BY AsyncInvInit, AsyncInvStep, PTL DEF Spec

-----------------------------------------------------------------------------

\* Every process is at a place of withAsyncLock, and while none was killed the
\* lock directory exists exactly when its maker is inside.
THEOREM TypeCorrect == Spec => []TypeOK
<1>1. AsyncInv => TypeOK
    BY DEF AsyncInv
<1>. QED BY <1>1, AsyncInvariance, PTL

\* withAsyncLock is a mutual exclusion for any number of processes as long as
\* none of them is killed while it uses the lock.
THEOREM SlowHoldersAreSafe == Spec => []ExclusiveWithoutCrash
<1>1. ASSUME AsyncInv PROVE ExclusiveWithoutCrash
    BY <1>1 DEF AsyncInv, TypeOK, ExclusiveWithoutCrash
<1>2. AsyncInv => ExclusiveWithoutCrash
    BY <1>1
<1>. QED BY <1>2, AsyncInvariance, PTL

-----------------------------------------------------------------------------
(* StateLock, the lock of the calibration queue: while nobody is killed,   *)
(* or suspended for half a minute, it excludes, and a release undoes       *)
(* exactly what its call made.                                             *)

\* A directory without a maker is none.
StateParameters == Nobody \notin Users

Prompt == State!Faulty = {}

\* What is at the path is what its holder, the only one, made of it; so it
\* never grows old, and nobody is about to take it away.
HolderHasIt ==
    Prompt =>
      /\ ~sStale /\ \A p \in Users : sAt[p] # "take"
      /\ sDir # Nobody => State!Holding(sDir)
      /\ \A p \in Users :
           /\ State!Holding(p) => sDir = p
           /\ sAt[p] \in {"inside", "unlink"} => sOwner = p
           /\ sAt[p] \in {"write", "rmdir"} => sOwner = Nobody

StateInv == State!TypeOK /\ HolderHasIt

\* The lock starts free.
LEMMA StateInvInit == ASSUME StateParameters PROVE State!Init => StateInv
<1>. QED BY DEF State!Init, StateInv, State!TypeOK, HolderHasIt, State!Holding, StateParameters

\* Who was killed or late stays so.
LEMMA FaultsStay == ASSUME State!TypeOK, [State!Next]_(State!vars) PROVE Prompt' => Prompt
<1>. USE DEF State!TypeOK, Prompt, State!Faulty, State!Dead, State!Live, State!GoTo
<1>1. ASSUME NEW p \in Users, State!Call(p) \/ State!Step(p) \/ State!TimeOut(p) \/ State!Crash(p)
      PROVE  Prompt' => Prompt
    <2>1. State!Live(p) /\ sLate' = sLate /\ \A q \in Users : q # p => sAt'[q] = sAt[q]
        BY <1>1 DEF State!Call, State!Step, State!TimeOut, State!Crash, State!Make, State!Exists, State!WriteOwner, State!WriteFails,
                    State!FoundStale, State!FoundFresh, State!TakeAway, State!ReadOwner, State!UnlinkOwner,
                    State!RemoveDirectory
    <2>. QED BY <2>1
<1>2. CASE State!Ages
    BY <1>2 DEF State!Ages
<1>3. CASE UNCHANGED State!vars
    BY <1>3 DEF State!vars
<1>. QED BY <1>1, <1>2, <1>3 DEF State!Next

\* One step keeps the invariant.
LEMMA StateInvStep == ASSUME StateParameters PROVE StateInv /\ [State!Next]_(State!vars) => StateInv'
<1>. SUFFICES ASSUME StateInv, [State!Next]_(State!vars) PROVE StateInv'
    OBVIOUS
<1>. USE DEF StateInv, State!TypeOK, HolderHasIt, State!Holding, State!GoTo, State!NoDirectory, StateParameters
<1>0. Prompt' => Prompt
    BY FaultsStay
<1>1. ASSUME NEW p \in Users, State!Call(p) PROVE StateInv'
    BY <1>0, <1>1 DEF State!Call
<1>2. ASSUME NEW p \in Users, State!Make(p) PROVE StateInv'
    BY <1>0, <1>2 DEF State!Make
<1>3. ASSUME NEW p \in Users, State!Exists(p) PROVE StateInv'
    BY <1>0, <1>3 DEF State!Exists
<1>4. ASSUME NEW p \in Users, State!WriteOwner(p) PROVE StateInv'
    BY <1>0, <1>4 DEF State!WriteOwner
<1>5. ASSUME NEW p \in Users, State!WriteFails(p) PROVE StateInv'
    BY <1>0, <1>5 DEF State!WriteFails
<1>6. ASSUME NEW p \in Users, State!FoundStale(p) PROVE StateInv'
    BY <1>0, <1>6 DEF State!FoundStale, State!JudgedStale
<1>7. ASSUME NEW p \in Users, State!FoundFresh(p) PROVE StateInv'
    BY <1>0, <1>7 DEF State!FoundFresh
<1>8. ASSUME NEW p \in Users, State!TimeOut(p) PROVE StateInv'
    BY <1>0, <1>8 DEF State!TimeOut
<1>9. ASSUME NEW p \in Users, State!TakeAway(p) PROVE StateInv'
    BY <1>0, <1>9 DEF State!TakeAway
<1>10. ASSUME NEW p \in Users, State!ReadOwner(p) PROVE StateInv'
    BY <1>0, <1>10 DEF State!ReadOwner, State!Recognised
<1>11. ASSUME NEW p \in Users, State!UnlinkOwner(p) PROVE StateInv'
    BY <1>0, <1>11 DEF State!UnlinkOwner
<1>12. ASSUME NEW p \in Users, State!RemoveDirectory(p) PROVE StateInv'
    BY <1>0, <1>12 DEF State!RemoveDirectory
<1>13. ASSUME NEW p \in Users, State!Crash(p) PROVE StateInv'
    \* It is faulty now.
    <2>1. ~Prompt'
        BY <1>13 DEF State!Crash, Prompt, State!Faulty, State!Dead, State!Live
    <2>. QED BY <1>13, <2>1 DEF State!Crash
<1>14. CASE State!Ages
    \* The holder did nothing for half a minute.
    <2>1. ~Prompt'
        BY <1>0, <1>14 DEF State!Ages, Prompt, State!Faulty
    <2>. QED BY <1>14, <2>1 DEF State!Ages
<1>15. CASE UNCHANGED State!vars
    BY <1>0, <1>15 DEF State!vars
<1>. QED BY <1>1, <1>2, <1>3, <1>4, <1>5, <1>6, <1>7, <1>8, <1>9, <1>10, <1>11,
            <1>12, <1>13, <1>14, <1>15 DEF State!Next, State!Step

\* The inductive invariant holds in every reachable state.
LEMMA StateInvariance == State!Spec => []StateInv
<1>1. StateParameters
    BY LocksAssumption DEF StateParameters
<1>. QED BY <1>1, StateInvInit, StateInvStep, PTL DEF State!Spec

-----------------------------------------------------------------------------

\* However many processes ask for the lock of the calibration queue: as long as
\* none of them is killed, or suspended for STATE_LOCK_STALE_MS in it, at most
\* one is inside.
THEOREM PromptOnesExclude == State!Spec => []ExclusiveWhenPrompt
<1>1. StateInv => ExclusiveWhenPrompt
    BY DEF StateInv, HolderHasIt, Prompt, State!Holding, ExclusiveWhenPrompt, State!ExclusiveWhenPrompt, State!Inside
<1>. QED BY <1>1, StateInvariance, PTL

\* And their releases never throw after fn has run, nor remove another's lock:
\* unlink finds its own token, rmdir its own directory.
THEOREM PromptReleases == State!Spec => State!PromptReleaseCompletes
<1>0. StateParameters
    BY LocksAssumption DEF StateParameters
<1>1. ASSUME StateInv, [State!Next]_(State!vars), NEW p \in Users, State!Faulty = {},
             sAt[p] \in {"unlink", "rmdir"}, sAt'[p] # sAt[p], State!Live(p)'
      PROVE  \/ sAt[p] = "unlink" /\ sOwner = p /\ sOwner' = Nobody
             \/ sAt[p] = "rmdir" /\ sDir = p /\ sDir' = Nobody
    <2>1. sAt \in [Users -> {"out", "mkdir", "write", "stat", "take",
                                "inside", "unlink", "rmdir", "dead"}]
        BY <1>1 DEF StateInv, State!TypeOK
    <2>2. State!UnlinkOwner(p) \/ State!RemoveDirectory(p)
        BY <1>1, <2>1 DEF State!Next, State!Step, State!vars, State!Call, State!TimeOut, State!Crash, State!Make, State!Exists,
             State!WriteOwner, State!WriteFails, State!FoundStale, State!FoundFresh, State!TakeAway, State!ReadOwner,
             State!UnlinkOwner, State!RemoveDirectory, State!Ages, State!Live, State!GoTo
    <2>3. /\ State!Holding(p) => sDir = p
          /\ sAt[p] = "unlink" => sOwner = p
          /\ sAt[p] = "rmdir" => sOwner = Nobody
        BY <1>1 DEF StateInv, HolderHasIt, Prompt
    <2>4. CASE State!UnlinkOwner(p)
        BY <1>0, <2>1, <2>3, <2>4 DEF State!UnlinkOwner, StateParameters
    <2>5. CASE State!RemoveDirectory(p)
        BY <1>0, <2>1, <2>3, <2>5 DEF State!RemoveDirectory, State!Holding, State!NoDirectory, StateParameters
    <2>. QED BY <2>2, <2>4, <2>5
<1>2. StateInv /\ [State!Next]_(State!vars) =>
        [\A p \in Users :
           State!Faulty = {} /\ sAt[p] \in {"unlink", "rmdir"}
             /\ sAt'[p] # sAt[p] /\ State!Live(p)'
           => \/ sAt[p] = "unlink" /\ sOwner = p /\ sOwner' = Nobody
              \/ sAt[p] = "rmdir" /\ sDir = p /\ sDir' = Nobody]_(State!vars)
    BY <1>1
<1>. QED BY <1>2, StateInvariance, PTL DEF State!Spec, State!PromptReleaseCompletes

-----------------------------------------------------------------------------
(* ModelLock, the lock of one model's calibration.                         *)

\* A directory without a maker is none.
RunnerParameters == Nobody \notin Runners

Undisturbed == Model!Faulty = {}

\* The runners that have made a directory and not yet removed it.
Owning(r) == mAt[r] \in {"write", "rename", "held", "unlink", "rmdir"}

\* What is at the path belongs to the only runner that owns a directory; its
\* pid is in it from the rename to the unlink, and before and after it is young
\* enough to be left alone.
OwnerHasIt ==
    /\ mDir # Nobody => Owning(mDir)
    /\ \A r \in Runners :
         /\ Owning(r) => mDir = r
         /\ mAt[r] \in {"held", "unlink"} => mPid = r
         /\ mAt[r] \in {"write", "rename", "rmdir"} => mPid = Nobody /\ mYoung
         /\ r \in mTmps <=> mAt[r] = "rename"

\* Nobody judges a lock to be a wreck: a pid that was read belongs to a live
\* runner, and a directory that was read without one is still young.
JudgedRightly ==
    \A r \in Runners :
       /\ mAt[r] # "take"
       /\ mAt[r] = "judge" => mSaw[r] # r
       /\ mAt[r] = "judge" /\ mSaw[r] = Nobody /\ mDir # Nobody => mYoung

ModelInv == Model!TypeOK /\ (Undisturbed => OwnerHasIt /\ JudgedRightly)

\* The lock starts free.
LEMMA ModelInvInit == ASSUME RunnerParameters PROVE Model!Init => ModelInv
<1>1. ASSUME Model!Init PROVE Model!TypeOK
    <2>1. /\ mAt \in [Runners -> {"out", "mkdir", "write", "rename", "judge", "take",
                                 "held", "unlink", "rmdir", "dead"}]
          /\ mAttempt \in [Runners -> 0..3]
          /\ mSaw \in [Runners -> Runners \cup {Nobody}]
        BY <1>1 DEF Model!Init
    <2>2. mYoung = FALSE
        BY <1>1 DEF Model!Init
    <2>. QED BY <1>1, <2>1, <2>2 DEF Model!Init, Model!TypeOK, Model!MaxAttempts
<1>2. Model!Init => OwnerHasIt /\ JudgedRightly
    BY DEF Model!Init, OwnerHasIt, JudgedRightly, Owning, RunnerParameters
<1>. QED BY <1>1, <1>2 DEF ModelInv

\* The types are kept.
LEMMA ModelTypes ==
    ASSUME RunnerParameters, Model!TypeOK, [Model!Next]_(Model!vars)
    PROVE  Model!TypeOK'
<1>. USE DEF Model!TypeOK, Model!GoTo, Model!NoDirectory, Model!directory,
             Model!MaxAttempts
<1>1. ASSUME NEW r \in Runners, Model!Acquire(r) PROVE Model!TypeOK'
    BY <1>1 DEF Model!Acquire
<1>2. ASSUME NEW r \in Runners, Model!Make(r) PROVE Model!TypeOK'
    BY <1>2 DEF Model!Make, RunnerParameters
<1>3. ASSUME NEW r \in Runners, Model!WriteTmp(r) PROVE Model!TypeOK'
    BY <1>3 DEF Model!WriteTmp
<1>4. ASSUME NEW r \in Runners, Model!RenameTmp(r) PROVE Model!TypeOK'
    BY <1>4 DEF Model!RenameTmp
<1>5. ASSUME NEW r \in Runners, Model!ReadPid(r) PROVE Model!TypeOK'
    BY <1>5 DEF Model!ReadPid
<1>6. ASSUME NEW r \in Runners, Model!Refused(r) PROVE Model!TypeOK'
    BY <1>6 DEF Model!Refused, Model!Forget
<1>7. ASSUME NEW r \in Runners, Model!Judged(r) PROVE Model!TypeOK'
    BY <1>7 DEF Model!Judged, Model!Forget
<1>8. ASSUME NEW r \in Runners, Model!Vanished(r) PROVE Model!TypeOK'
    BY <1>8 DEF Model!Vanished, Model!TryAgain
<1>9. ASSUME NEW r \in Runners, Model!TakeAway(r) PROVE Model!TypeOK'
    <2>1. mAt' \in [Runners -> {"out", "mkdir", "write", "rename", "judge", "take",
                               "held", "unlink", "rmdir", "dead"}]
        BY <1>9 DEF Model!TakeAway, Model!TryAgain
    <2>2. mAttempt' \in [Runners -> 0..Model!MaxAttempts]
        BY <1>9 DEF Model!TakeAway, Model!TryAgain
    <2>. QED BY <1>9, <2>1, <2>2 DEF Model!TakeAway
<1>10. ASSUME NEW r \in Runners, Model!Release(r) PROVE Model!TypeOK'
    BY <1>10 DEF Model!Release
<1>11. ASSUME NEW r \in Runners, Model!Unlink(r) PROVE Model!TypeOK'
    BY <1>11 DEF Model!Unlink
<1>12. ASSUME NEW r \in Runners, Model!RemoveDirectory(r) PROVE Model!TypeOK'
    BY <1>12 DEF Model!RemoveDirectory
<1>13. ASSUME NEW r \in Runners, Model!Crash(r) PROVE Model!TypeOK'
    BY <1>13 DEF Model!Crash
<1>14. CASE Model!Ages
    BY <1>14 DEF Model!Ages
<1>15. CASE UNCHANGED Model!vars
    BY <1>15 DEF Model!vars
<1>. QED BY <1>1, <1>2, <1>3, <1>4, <1>5, <1>6, <1>7, <1>8, <1>9, <1>10, <1>11,
            <1>12, <1>13, <1>14, <1>15 DEF Model!Next, Model!Step

\* Who was killed or late stays so.
LEMMA ModelFaultsStay ==
    ASSUME Model!TypeOK, [Model!Next]_(Model!vars) PROVE Undisturbed' => Undisturbed
<1>. USE DEF Model!TypeOK, Undisturbed, Model!Faulty, Model!Dead, Model!Live, Model!GoTo
<1>1. ASSUME NEW r \in Runners,
             Model!Acquire(r) \/ Model!Step(r) \/ Model!Release(r) \/ Model!Crash(r)
      PROVE  Undisturbed' => Undisturbed
    <2>1. /\ Model!Live(r) /\ mLate' = mLate
          /\ \A q \in Runners : q # r => mAt'[q] = mAt[q]
        BY <1>1 DEF Model!Acquire, Model!Step, Model!Release, Model!Crash, Model!Make,
                    Model!WriteTmp, Model!RenameTmp, Model!ReadPid, Model!Refused,
                    Model!Judged, Model!Vanished, Model!TakeAway, Model!TryAgain,
                    Model!Unlink, Model!RemoveDirectory
    <2>. QED BY <2>1
<1>2. CASE Model!Ages
    BY <1>2 DEF Model!Ages
<1>3. CASE UNCHANGED Model!vars
    BY <1>3 DEF Model!vars
<1>. QED BY <1>1, <1>2, <1>3 DEF Model!Next

\* One step keeps the invariant.
LEMMA ModelInvStep ==
    ASSUME RunnerParameters PROVE ModelInv /\ [Model!Next]_(Model!vars) => ModelInv'
<1>. SUFFICES ASSUME ModelInv, [Model!Next]_(Model!vars), Undisturbed'
              PROVE  OwnerHasIt' /\ JudgedRightly'
    BY ModelTypes DEF ModelInv
<1>0. Model!TypeOK /\ OwnerHasIt /\ JudgedRightly
    BY ModelFaultsStay DEF ModelInv
<1>. DEFINE Goal == OwnerHasIt' /\ JudgedRightly'
<1>. SUFFICES Goal
    OBVIOUS
<1>. USE <1>0 DEF Model!TypeOK, OwnerHasIt, JudgedRightly, Owning, Model!GoTo,
                  Model!directory, Model!NoDirectory, RunnerParameters
<1>1. ASSUME NEW r \in Runners, Model!Acquire(r) PROVE Goal
    BY <1>1 DEF Model!Acquire
<1>2. ASSUME NEW r \in Runners, Model!Make(r) PROVE Goal
    BY <1>2 DEF Model!Make
<1>3. ASSUME NEW r \in Runners, Model!WriteTmp(r) PROVE Goal
    BY <1>3 DEF Model!WriteTmp
<1>4. ASSUME NEW r \in Runners, Model!RenameTmp(r) PROVE Goal
    BY <1>4 DEF Model!RenameTmp
<1>5. ASSUME NEW r \in Runners, Model!ReadPid(r) PROVE Goal
    BY <1>5 DEF Model!ReadPid
<1>6. ASSUME NEW r \in Runners, Model!Refused(r) PROVE Goal
    BY <1>6 DEF Model!Refused, Model!Forget
<1>7. ASSUME NEW r \in Runners, Model!Judged(r) PROVE Goal
    \* No wreck is found.
    <2>1. \A q \in Runners : Model!Live(q)
        BY ModelFaultsStay DEF ModelInv, Undisturbed, Model!Faulty, Model!Dead
    <2>. QED BY <1>7, <2>1 DEF Model!Judged, Model!HeldBy, Model!StillCreated
<1>8. ASSUME NEW r \in Runners, Model!Vanished(r) PROVE Goal
    BY <1>8 DEF Model!Vanished, Model!TryAgain
<1>9. ASSUME NEW r \in Runners, Model!TakeAway(r) PROVE Goal
    BY <1>9 DEF Model!TakeAway
<1>10. ASSUME NEW r \in Runners, Model!Release(r) PROVE Goal
    BY <1>10 DEF Model!Release
<1>11. ASSUME NEW r \in Runners, Model!Unlink(r) PROVE Goal
    BY <1>11 DEF Model!Unlink
<1>12. ASSUME NEW r \in Runners, Model!RemoveDirectory(r) PROVE Goal
    BY <1>12 DEF Model!RemoveDirectory
<1>13. ASSUME NEW r \in Runners, Model!Crash(r) PROVE Goal
    BY <1>13 DEF Model!Crash, Undisturbed, Model!Faulty, Model!Dead, Model!Live
<1>14. CASE Model!Ages
    \* Nobody was between two calls, so the pid is in the directory, and none
    \* that judges it has read it without.
    <2>1. \A q \in Runners : mAt[q] \in {"out", "held", "dead"}
        BY <1>14 DEF Model!Ages, Undisturbed, Model!Faulty
    <2>. QED BY <1>14, <2>1 DEF Model!Ages
<1>15. CASE UNCHANGED Model!vars
    BY <1>15 DEF Model!vars
<1>. QED BY <1>1, <1>2, <1>3, <1>4, <1>5, <1>6, <1>7, <1>8, <1>9, <1>10, <1>11,
            <1>12, <1>13, <1>14, <1>15 DEF Model!Next, Model!Step

\* The inductive invariant holds in every reachable state.
LEMMA ModelInvariance == Model!Spec => []ModelInv
<1>1. RunnerParameters
    BY LocksAssumption DEF RunnerParameters
<1>. QED BY <1>1, ModelInvInit, ModelInvStep, PTL DEF Model!Spec

\* However many runners want to calibrate one model: as long as none of them is
\* killed, or suspended in a call for MODEL_LOCK_CREATING_MS, one at most does.
THEOREM OneCalibrates == Model!Spec => []OneCalibration
<1>1. ModelInv => OneCalibration
    BY DEF ModelInv, Undisturbed, OwnerHasIt, Owning, OneCalibration,
           Model!OneCalibration, Model!Holders
<1>. QED BY <1>1, ModelInvariance, PTL

-----------------------------------------------------------------------------
(* MkdirLock, around the read-modify-writes of the JSON sidecars.          *)

\* A directory without a maker is none.
WriterParameters == Nobody \notin Writers

\* Nobody was killed in a call, or suspended with the lock.
InTime == Mkdir!Dead \cup kLate = {}

\* The directory is its maker's, who has the lock, and nobody takes it away.
MakerHasIt ==
    InTime =>
      /\ ~kStale
      /\ kDir # Nobody => Mkdir!Locked(kDir)
      /\ \A p \in Writers : /\ kAt[p] # "remove"
                            /\ Mkdir!Locked(p) => kDir = p

\* What the holder has read is what the file has, with every update in it.
NothingLost ==
    kWritable /\ InTime /\ kUnlocked = {} =>
      \A p \in Writers : /\ kAt[p] = "write" => kRead[p] = kFile
                         /\ Mkdir!Updated(p) => p \in kFile

\* A call gives up waiting at its end.
UnlockedRan ==
    \A p \in kUnlocked : kAt[p] \in {"inside", "write", "release", "done", "dead"}

MkdirInv == Mkdir!TypeOK /\ UnlockedRan /\ MakerHasIt /\ NothingLost

\* The lock starts free, and nobody has made an update.
LEMMA MkdirInvInit == ASSUME WriterParameters PROVE Mkdir!Init => MkdirInv
<1>. QED BY DEF Mkdir!Init, MkdirInv, Mkdir!TypeOK, UnlockedRan, MakerHasIt,
                NothingLost, Mkdir!Locked, Mkdir!Updated, WriterParameters

\* What one step does to the faults: they stay, and a kill is one.
LEMMA MkdirFaultsStay ==
    ASSUME Mkdir!TypeOK, [Mkdir!Next]_(Mkdir!vars)
    PROVE  /\ InTime' => InTime
           /\ kWritable' = kWritable /\ kUnlocked \subseteq kUnlocked'
<1>. USE DEF Mkdir!TypeOK, InTime, Mkdir!Dead, Mkdir!Live, Mkdir!GoTo
<1>1. ASSUME NEW p \in Writers,
             Mkdir!Call(p) \/ Mkdir!Step(p) \/ Mkdir!GiveUp(p) \/ Mkdir!Crash(p)
      PROVE  /\ kAt[p] # "dead" /\ kLate' = kLate /\ kWritable' = kWritable
             /\ kUnlocked \subseteq kUnlocked'
             /\ \A q \in Writers : q # p => kAt'[q] = kAt[q]
    BY <1>1 DEF Mkdir!Call, Mkdir!Step, Mkdir!GiveUp, Mkdir!Crash, Mkdir!Acquire,
                Mkdir!MakeFails, Mkdir!FoundStale, Mkdir!Remove, Mkdir!FoundFresh,
                Mkdir!Retry, Mkdir!Read, Mkdir!Write, Mkdir!Release
<1>2. CASE Mkdir!Ages
    BY <1>2 DEF Mkdir!Ages
<1>3. CASE UNCHANGED Mkdir!vars
    BY <1>3 DEF Mkdir!vars
<1>. QED BY <1>1, <1>2, <1>3 DEF Mkdir!Next

\* One step keeps the invariant.
LEMMA MkdirInvStep ==
    ASSUME WriterParameters PROVE MkdirInv /\ [Mkdir!Next]_(Mkdir!vars) => MkdirInv'
<1>. SUFFICES ASSUME MkdirInv, [Mkdir!Next]_(Mkdir!vars) PROVE MkdirInv'
    OBVIOUS
<1>0. /\ InTime' => InTime
      /\ kWritable' = kWritable /\ kUnlocked \subseteq kUnlocked'
    BY MkdirFaultsStay DEF MkdirInv
<1>. USE <1>0 DEF MkdirInv, Mkdir!TypeOK, UnlockedRan, MakerHasIt, NothingLost, Mkdir!Locked,
                  Mkdir!Updated, Mkdir!GoTo, WriterParameters
<1>1. ASSUME NEW p \in Writers, Mkdir!Call(p) PROVE MkdirInv'
    <2>1. Mkdir!TypeOK' /\ UnlockedRan'
        BY <1>1 DEF Mkdir!Call
    <2>2. MakerHasIt'
        BY <1>1 DEF Mkdir!Call
    <2>3. NothingLost'
        BY <1>1 DEF Mkdir!Call
    <2>. QED BY <2>1, <2>2, <2>3
<1>2. ASSUME NEW p \in Writers, Mkdir!Acquire(p) PROVE MkdirInv'
    <2>1. Mkdir!TypeOK' /\ UnlockedRan'
        BY <1>2 DEF Mkdir!Acquire
    <2>2. MakerHasIt'
        BY <1>2 DEF Mkdir!Acquire
    <2>3. NothingLost'
        BY <1>2 DEF Mkdir!Acquire
    <2>. QED BY <2>1, <2>2, <2>3
<1>3. ASSUME NEW p \in Writers, Mkdir!MakeFails(p) PROVE MkdirInv'
    <2>1. Mkdir!TypeOK' /\ UnlockedRan'
        BY <1>3 DEF Mkdir!MakeFails
    <2>2. MakerHasIt'
        BY <1>3 DEF Mkdir!MakeFails
    <2>3. NothingLost'
        BY <1>3 DEF Mkdir!MakeFails
    <2>. QED BY <2>1, <2>2, <2>3
<1>4. ASSUME NEW p \in Writers, Mkdir!FoundStale(p) PROVE MkdirInv'
    <2>1. Mkdir!TypeOK' /\ UnlockedRan'
        BY <1>4 DEF Mkdir!FoundStale
    <2>2. MakerHasIt'
        BY <1>4 DEF Mkdir!FoundStale, Mkdir!JudgedStale
    <2>3. NothingLost'
        BY <1>4 DEF Mkdir!FoundStale
    <2>. QED BY <2>1, <2>2, <2>3
<1>5. ASSUME NEW p \in Writers, Mkdir!Remove(p) PROVE MkdirInv'
    BY <1>5 DEF Mkdir!Remove
<1>6. ASSUME NEW p \in Writers, Mkdir!FoundFresh(p) PROVE MkdirInv'
    BY <1>6 DEF Mkdir!FoundFresh
<1>7. ASSUME NEW p \in Writers, Mkdir!Retry(p) PROVE MkdirInv'
    BY <1>7 DEF Mkdir!Retry
<1>8. ASSUME NEW p \in Writers, Mkdir!GiveUp(p) PROVE MkdirInv'
    BY <1>8 DEF Mkdir!GiveUp
<1>9. ASSUME NEW p \in Writers, Mkdir!Read(p) PROVE MkdirInv'
    BY <1>9 DEF Mkdir!Read
<1>10. ASSUME NEW p \in Writers, Mkdir!Write(p) PROVE MkdirInv'
    <2>1. Mkdir!TypeOK' /\ UnlockedRan'
        BY <1>10 DEF Mkdir!Write
    <2>2. MakerHasIt'
        BY <1>10 DEF Mkdir!Write
    <2>3. NothingLost'
        BY <1>10 DEF Mkdir!Write
    <2>. QED BY <2>1, <2>2, <2>3
<1>11. ASSUME NEW p \in Writers, Mkdir!Release(p) PROVE MkdirInv'
    <2>1. Mkdir!TypeOK' /\ UnlockedRan'
        BY <1>11 DEF Mkdir!Release
    <2>2. MakerHasIt'
        BY <1>11 DEF Mkdir!Release, Mkdir!Mine
    <2>3. NothingLost'
        BY <1>11 DEF Mkdir!Release
    <2>. QED BY <2>1, <2>2, <2>3
<1>12. ASSUME NEW p \in Writers, Mkdir!Crash(p) PROVE MkdirInv'
    <2>1. ~InTime'
        BY <1>12 DEF Mkdir!Crash, InTime, Mkdir!Dead, Mkdir!Live
    <2>. QED BY <1>12, <2>1 DEF Mkdir!Crash
<1>13. CASE Mkdir!Ages
    \* The maker kept it for STALE_MS.
    <2>1. ~InTime'
        BY <1>13 DEF Mkdir!Ages, InTime
    <2>. QED BY <1>13, <2>1 DEF Mkdir!Ages
<1>14. CASE UNCHANGED Mkdir!vars
    BY <1>14 DEF Mkdir!vars
<1>. QED BY <1>1, <1>2, <1>3, <1>4, <1>5, <1>6, <1>7, <1>8, <1>9, <1>10, <1>11,
            <1>12, <1>13, <1>14 DEF Mkdir!Next, Mkdir!Step

\* The inductive invariant holds in every reachable state.
LEMMA MkdirInvariance == Mkdir!Spec => []MkdirInv
<1>1. WriterParameters
    BY LocksAssumption DEF WriterParameters
<1>. QED BY <1>1, MkdirInvInit, MkdirInvStep, PTL DEF Mkdir!Spec

\* However many processes update one sidecar: while none is killed or suspended
\* with the lock, and none ran its update without it, no update is lost.
THEOREM UpdatesStay == Mkdir!Spec => []NoUpdateLost
<1>1. MkdirInv => NoUpdateLost
    BY DEF MkdirInv, NothingLost, InTime, NoUpdateLost, Mkdir!NoUpdateLost
<1>. QED BY <1>1, MkdirInvariance, PTL

\* And a call that gave up waiting leaves the lock of the others alone: without
\* a fault two calls never both believe that they made the directory.
THEOREM UnlockedOnesSpare == Mkdir!Spec => []Mkdir!UnlockedSparesLock
<1>1. MkdirInv => Mkdir!UnlockedSparesLock
    BY DEF MkdirInv, MakerHasIt, InTime, Mkdir!UnlockedSparesLock
<1>. QED BY <1>1, MkdirInvariance, PTL

-----------------------------------------------------------------------------
(* BenchLock, the lock file of a background benchmark.  Counting: whoever  *)
(* takes a live claim away loses itself, so each winner beyond the first   *)
(* has a loser, or a lock that lapsed; a pid that was put back, that is    *)
(* past its time, or that guards no run, is the only one that can be taken *)
(* away without a new loser.                                               *)

\* Pids are told apart; no pid is that of an absent file; somebody claims.
ClaimerParameters ==
    /\ IsFiniteSet(Claimers) /\ Claimers # {}
    /\ \A p \in Claimers : Bench!Child(p) \notin Claimers /\ Gone # Bench!Child(p)
    /\ Gone \notin Claimers
    /\ Nobody \notin Bench!Pids

ClaimPlaces == {"first", "second", "observe", "judge", "probe", "signal", "rename", "restore"}
StartPlaces == {"won", "spawned"}
RunPlaces == {"running", "unlink"}
WinPlaces == StartPlaces \cup RunPlaces
LosePlaces == {"restore", "lost", "failed", "ended", "dead"}
Places == ClaimPlaces \cup WinPlaces \cup LosePlaces \cup {"early", "errored", "release"}

\* Places before a claim, and between a claim and the stamp of the child.
Unclaimed == ClaimPlaces \cup {"lost"}
Uncommitted == StartPlaces \cup {"early"}

Losers == {p \in Claimers : bAt[p] \in LosePlaces}

BenchTypes ==
    /\ bAt \in [Claimers -> Places]
    /\ bSeen \in [Claimers -> Bench!Pids \cup {Nobody}]
    /\ bAsked \in [Claimers -> Bench!Pids \cup {Nobody}]
    /\ bStolen \in [Claimers -> Bench!Pids \cup {Nobody}]
    /\ bPath \in Bench!Pids \cup {Nobody}
    /\ bLapses \in Nat

\* A claimer's process lasts until it has made its child's stamp.
ExitedAfter == \A p \in bExited : bAt[p] \notin Unclaimed \cup Uncommitted

\* A pid that is in the lock file, that somebody read or renamed away, or whose
\* file is past its time.
Known(x) == \/ x = bPath \/ x \in bExpired
            \/ \E q \in Claimers : x = bSeen[q] \/ x = bStolen[q]

\* A pid is known only when its process has made a claim, or was stamped.
KnownWasBorn ==
    \A p \in Claimers :
       /\ bAt[p] \in Unclaimed => ~Known(p) /\ ~Known(Bench!Child(p))
       /\ bAt[p] \in Uncommitted => ~Known(Bench!Child(p))

PutBack(x) == \E r \in Claimers : bAt[r] = "lost" /\ bStolen[r] = x

\* Nothing is lost when this content of the lock file goes.
Loose(x) == x = Nobody \/ x \in bExpired \/ ~Bench!Guards(x) \/ PutBack(x)

\* What is about to be removed as stale, or is there besides a copy in the
\* hands of a thief, is loose.
StaleIsLoose ==
    \A q \in Claimers :
       /\ bAt[q] = "rename" /\ bSeen[q] = bPath => Loose(bPath)
       /\ bAt[q] = "signal" /\ bSeen[q] = bPath /\ bAsked[q] # bPath => Loose(bPath)
       /\ bAt[q] = "restore" /\ bStolen[q] = bPath => Loose(bPath)

Slack == IF Loose(bPath) THEN 1 ELSE 0

\* Each winner beyond the first has a loser or a lapse, and one more for a
\* loose path.
EnoughLosers ==
    Cardinality(Bench!Winners) + Slack <= Cardinality(Losers) + 1 + bLapses

\* Somebody has claimed; or all look at the file of a run that died; or it has
\* gone and somebody is about to claim.
Done == Places \ Unclaimed
SomeoneClaims ==
    \/ \E p \in Claimers : bAt[p] \in Done
    \/ /\ bPath = Gone
       /\ \A p \in Claimers :
             /\ bAt[p] \in {"first", "observe", "judge", "probe", "signal", "rename"}
             /\ bAt[p] \in {"judge", "probe", "signal", "rename"} => bSeen[p] = Gone
             /\ bAt[p] = "signal" => bAsked[p] = Gone
    \/ /\ bPath = Nobody
       /\ \E p \in Claimers : bAt[p] \in {"first", "second"}
       /\ \A p \in Claimers : bAt[p] # "restore"

CountInv == BenchTypes /\ ExitedAfter /\ KnownWasBorn /\ StaleIsLoose /\ EnoughLosers

BenchInv == CountInv /\ SomeoneClaims

\* Claimers and children have pids of their own.
LEMMA PidsDiffer ==
    ASSUME ClaimerParameters, NEW p \in Claimers
    PROVE  /\ p \in Bench!Pids /\ Bench!Child(p) \in Bench!Pids /\ Gone \in Bench!Pids
           /\ p # Nobody /\ Bench!Child(p) # Nobody /\ Gone # Nobody
           /\ p # Gone /\ Bench!Child(p) # Gone
           /\ \A q \in Claimers : /\ Bench!Child(p) # q
                                  /\ Bench!Child(p) = Bench!Child(q) => p = q
<1>1. \A q \in Claimers : Bench!Child(p) = Bench!Child(q) => p = q
    BY DEF Bench!Child
<1>2. p \in Bench!Pids /\ Bench!Child(p) \in Bench!Pids /\ Gone \in Bench!Pids
    BY DEF Bench!Pids
<1>. QED BY <1>1, <1>2 DEF ClaimerParameters

\* Two sets that differ in one element at most.
LEMMA OneMoved ==
    ASSUME NEW S, NEW T, NEW x, IsFiniteSet(S), \A y : y # x => (y \in S <=> y \in T)
    PROVE  /\ IsFiniteSet(T) /\ Cardinality(S) \in Nat /\ Cardinality(T) \in Nat
           /\ (x \in S <=> x \in T) => Cardinality(T) = Cardinality(S)
           /\ x \notin S /\ x \in T => Cardinality(T) = Cardinality(S) + 1
           /\ x \in S /\ x \notin T => Cardinality(T) = Cardinality(S) - 1
<1>1. Cardinality(S) \in Nat
    BY FS_CardinalityType
<1>2. CASE x \in S <=> x \in T
    <2>1. S = T
        BY <1>2
    <2>. QED BY <1>1, <1>2, <2>1
<1>3. CASE x \notin S /\ x \in T
    <2>1. T = S \cup {x}
        BY <1>3
    <2>2. IsFiniteSet(T) /\ Cardinality(T) = Cardinality(S) + 1
        BY <1>3, <2>1, FS_AddElement
    <2>. QED BY <1>1, <1>3, <2>2
<1>4. CASE x \in S /\ x \notin T
    <2>1. T = S \ {x}
        BY <1>4
    <2>2. IsFiniteSet(T) /\ Cardinality(T) = Cardinality(S) - 1
        BY <1>4, <2>1, FS_RemoveElement
    <2>3. Cardinality(T) \in Nat
        BY <2>2, FS_CardinalityType
    <2>. QED BY <1>1, <1>4, <2>2, <2>3
<1>. QED BY <1>2, <1>3, <1>4


\* What a place counts for.
Weight(place) == IF place \in WinPlaces THEN 1 ELSE IF place \in LosePlaces THEN -1 ELSE 0

\* One claimer moves: enough losers are left when what it gains, and the path
\* with it, is paid by a lapse.
LEMMA MoveCounts ==
    ASSUME ClaimerParameters, BenchTypes, EnoughLosers, NEW p \in Claimers,
           NEW w \in Places, Bench!GoTo(p, w), bLapses' \in Nat,
           Weight(w) + Slack' <= Weight(bAt[p]) + Slack + bLapses' - bLapses
    PROVE  EnoughLosers'
<1>. DEFINE W == Bench!Winners
            V == Bench!Winners'
            L == Losers
            M == Losers'
            a == bAt[p]
<1>1. IsFiniteSet(W) /\ IsFiniteSet(L)
    BY FS_Subset DEF ClaimerParameters, Bench!Winners, Losers
<1>2. /\ \A q : q # p => (q \in W <=> q \in V) /\ (q \in L <=> q \in M)
      /\ p \in W <=> a \in WinPlaces
      /\ p \in V <=> w \in WinPlaces
      /\ p \in L <=> a \in LosePlaces
      /\ p \in M <=> w \in LosePlaces
    BY DEF Bench!GoTo, BenchTypes, Bench!Winners, Losers, WinPlaces, StartPlaces, RunPlaces
<1>. HIDE DEF W, V, L, M
<1>3. /\ Cardinality(W) \in Nat /\ Cardinality(V) \in Nat
      /\ (p \in W <=> p \in V) => Cardinality(V) = Cardinality(W)
      /\ p \notin W /\ p \in V => Cardinality(V) = Cardinality(W) + 1
      /\ p \in W /\ p \notin V => Cardinality(V) = Cardinality(W) - 1
    BY <1>1, <1>2, OneMoved
<1>4. /\ Cardinality(L) \in Nat /\ Cardinality(M) \in Nat
      /\ (p \in L <=> p \in M) => Cardinality(M) = Cardinality(L)
      /\ p \notin L /\ p \in M => Cardinality(M) = Cardinality(L) + 1
      /\ p \in L /\ p \notin M => Cardinality(M) = Cardinality(L) - 1
    BY <1>1, <1>2, OneMoved
<1>5. \A x : ~(x \in WinPlaces /\ x \in LosePlaces)
    BY DEF WinPlaces, StartPlaces, RunPlaces, LosePlaces
<1>6. Cardinality(W) + Slack <= Cardinality(L) + 1 + bLapses
    BY DEF EnoughLosers, W, L
<1>7. Slack \in {0, 1} /\ Slack' \in {0, 1} /\ bLapses \in Nat
    BY DEF Slack, BenchTypes
<1>8. /\ Weight(w) = IF p \in V THEN 1 ELSE IF p \in M THEN -1 ELSE 0
      /\ Weight(a) = IF p \in W THEN 1 ELSE IF p \in L THEN -1 ELSE 0
    BY <1>2 DEF Weight
<1>9. ~(p \in V /\ p \in M) /\ ~(p \in W /\ p \in L)
    BY <1>2, <1>5
<1>10. Cardinality(V) - Cardinality(M) = Cardinality(W) - Cardinality(L) + Weight(w) - Weight(a)
    BY <1>3, <1>4, <1>8, <1>9
<1>11. Weight(w) \in Int /\ Weight(a) \in Int
    BY <1>8
<1>12. Weight(w) + Slack' <= Weight(a) + Slack + bLapses' - bLapses
    OBVIOUS
<1>. HIDE DEF a
<1>13. Cardinality(V) + Slack' <= Cardinality(M) + 1 + bLapses'
    BY <1>3, <1>4, <1>6, <1>7, <1>10, <1>11, <1>12
<1>. QED BY <1>13 DEF EnoughLosers, V, M

\* A file guards a run that it did not before only when its process claims, or
\* its process has just been spawned.
LEMMA GuardStarts ==
    ASSUME BenchTypes, NEW p \in Claimers, NEW w, Bench!GoTo(p, w),
           NEW x, Bench!Guards(x)', ~Bench!Guards(x)
    PROVE  \/ x = p /\ w \in StartPlaces /\ bAt[p] \notin StartPlaces
           \/ x = Bench!Child(p) /\ w \in RunPlaces /\ bAt[p] \notin RunPlaces
<1>1. bAt'[p] = w /\ \A q \in Claimers : q # p => bAt'[q] = bAt[q]
    BY DEF Bench!GoTo, BenchTypes
<1>. QED BY <1>1 DEF Bench!Guards, Bench!Child, StartPlaces, RunPlaces

\* And it ceases to only when its process goes elsewhere.
LEMMA GuardEnds ==
    ASSUME BenchTypes, NEW p \in Claimers, NEW w, Bench!GoTo(p, w),
           NEW x, Bench!Guards(x), ~Bench!Guards(x)'
    PROVE  \/ x = p /\ bAt[p] \in StartPlaces /\ w \notin StartPlaces
           \/ x = Bench!Child(p) /\ bAt[p] \in RunPlaces /\ w \notin RunPlaces
<1>1. bAt'[p] = w /\ \A q \in Claimers : q # p => bAt'[q] = bAt[q]
    BY DEF Bench!GoTo, BenchTypes
<1>. QED BY <1>1 DEF Bench!Guards, Bench!Child, StartPlaces, RunPlaces

\* No pid becomes known that was not.
LEMMA NoNewPids ==
    ASSUME ClaimerParameters, BenchTypes, KnownWasBorn, NEW p \in Claimers, NEW w,
           Bench!GoTo(p, w),
           w \in Unclaimed => bAt[p] \in Unclaimed,
           w \in Uncommitted => bAt[p] \in Uncommitted,
           \A x : x # Nobody => (Known(x)' => Known(x))
    PROVE  KnownWasBorn'
<1>. SUFFICES ASSUME NEW q \in Claimers
              PROVE  /\ bAt'[q] \in Unclaimed => ~Known(q)' /\ ~Known(Bench!Child(q))'
                     /\ bAt'[q] \in Uncommitted => ~Known(Bench!Child(q))'
    BY DEF KnownWasBorn, Bench!Child
<1>1. q # Nobody /\ Bench!Child(q) # Nobody
    BY PidsDiffer
<1>2. /\ bAt'[q] \in Unclaimed => bAt[q] \in Unclaimed
      /\ bAt'[q] \in Uncommitted => bAt[q] \in Uncommitted
    BY DEF Bench!GoTo, BenchTypes
<1>. QED BY <1>1, <1>2 DEF KnownWasBorn

\* Processes end only after their claims.
LEMMA ExitedStays ==
    ASSUME BenchTypes, ExitedAfter, NEW p \in Claimers, NEW w, Bench!GoTo(p, w),
           w \in Unclaimed \cup Uncommitted => bAt[p] \in Unclaimed \cup Uncommitted,
           \/ bExited' = bExited
           \/ bExited' = bExited \cup {p} /\ w \notin Unclaimed \cup Uncommitted
    PROVE  ExitedAfter'
<1>1. \A q : q # p => bAt'[q] = bAt[q]
    BY DEF Bench!GoTo, BenchTypes
<1>2. bAt'[p] = w
    BY DEF Bench!GoTo, BenchTypes
<1>. QED BY <1>1, <1>2 DEF ExitedAfter

\* A step of a claimer or of its child that leaves the files alone.
LEMMA FilesAlone ==
    ASSUME ClaimerParameters, CountInv, NEW p \in Claimers, NEW w \in Places,
           Bench!GoTo(p, w), UNCHANGED <<bPath, bStolen, bExpired>>,
           BenchTypes', ExitedAfter',
           bAt[p] # "lost", w \notin {"won", "restore"},
           w \in Unclaimed => bAt[p] \in Unclaimed,
           w \in Uncommitted => bAt[p] \in Uncommitted,
           w = "spawned" => bAt[p] = "won",
           w \in RunPlaces => bAt[p] \in RunPlaces \cup {"spawned"},
           \A q \in Claimers : q # p => bSeen'[q] = bSeen[q] /\ bAsked'[q] = bAsked[q],
           \A x : x # Nobody => (Known(x)' => Known(x)),
           w = "rename" => bSeen'[p] # bPath \/ Loose(bPath),
           w = "signal" => bAsked'[p] = bPath,
           \/ Weight(w) + 1 <= Weight(bAt[p]) + bLapses' - bLapses
           \/ /\ Weight(w) = Weight(bAt[p]) /\ bLapses' = bLapses
              /\ bAt[p] \in StartPlaces => w \in StartPlaces
              /\ bAt[p] \in RunPlaces => w \in RunPlaces
    PROVE  CountInv'
<1>1. BenchTypes /\ KnownWasBorn /\ StaleIsLoose /\ EnoughLosers
    BY DEF CountInv
<1>2. bAt'[p] = w /\ \A q \in Claimers : q # p => bAt'[q] = bAt[q]
    BY <1>1 DEF BenchTypes, Bench!GoTo
<1>3. KnownWasBorn'
    BY <1>1, NoNewPids
<1>4. Loose(bPath) => Loose(bPath)'
    <2>. SUFFICES ASSUME Loose(bPath), bPath # Nobody, bPath \notin bExpired PROVE Loose(bPath)'
        BY DEF Loose
    <2>1. CASE PutBack(bPath)
        BY <1>2, <2>1 DEF PutBack, Loose
    <2>2. CASE ~Bench!Guards(bPath)
        <3>1. ~Bench!Guards(bPath)'
            <4>. SUFFICES ASSUME Bench!Guards(bPath)' PROVE FALSE
                OBVIOUS
            <4>1. \/ bPath = p /\ w \in StartPlaces /\ bAt[p] \notin StartPlaces
                  \/ bPath = Bench!Child(p) /\ w \in RunPlaces /\ bAt[p] \notin RunPlaces
                BY <1>1, <2>2, GuardStarts DEF Bench!Guards
            <4>2. w \in StartPlaces => bAt[p] \in StartPlaces
                BY DEF StartPlaces
            <4>3. bAt[p] = "spawned" /\ bPath = Bench!Child(p)
                BY <4>1, <4>2
            <4>. QED BY <1>1, <4>3 DEF KnownWasBorn, Uncommitted, StartPlaces, Known
        <3>. QED BY <3>1 DEF Loose
    <2>. QED BY <2>1, <2>2 DEF Loose
<1>5. StaleIsLoose'
    <2>. SUFFICES ASSUME NEW q \in Claimers
                  PROVE  /\ bAt'[q] = "rename" /\ bSeen'[q] = bPath => Loose(bPath)'
                         /\ bAt'[q] = "signal" /\ bSeen'[q] = bPath /\ bAsked'[q] # bPath
                              => Loose(bPath)'
                         /\ bAt'[q] = "restore" /\ bStolen[q] = bPath => Loose(bPath)'
        BY DEF StaleIsLoose
    <2>. QED BY <1>1, <1>2, <1>4 DEF StaleIsLoose
<1>6. Slack \in {0, 1} /\ Slack' \in {0, 1} /\ bLapses \in Nat /\ bLapses' \in Nat
    BY <1>1 DEF Slack, BenchTypes
<1>7. Weight(w) \in Int /\ Weight(bAt[p]) \in Int
    BY DEF Weight
<1>8. EnoughLosers'
    <2>1. CASE Weight(w) + 1 <= Weight(bAt[p]) + bLapses' - bLapses
        <3>1. Weight(w) + Slack' <= Weight(bAt[p]) + Slack + bLapses' - bLapses
            BY <1>6, <1>7, <2>1
        <3>. QED BY <1>1, <1>6, <3>1, MoveCounts
    <2>2. CASE /\ Weight(w) = Weight(bAt[p]) /\ bLapses' = bLapses
               /\ bAt[p] \in StartPlaces => w \in StartPlaces
               /\ bAt[p] \in RunPlaces => w \in RunPlaces
        <3>1. Loose(bPath)' => Loose(bPath)
            <4>1. Bench!Guards(bPath) => Bench!Guards(bPath)'
                <5>. SUFFICES ASSUME Bench!Guards(bPath), ~Bench!Guards(bPath)' PROVE FALSE
                    OBVIOUS
                <5>1. \/ bPath = p /\ bAt[p] \in StartPlaces /\ w \notin StartPlaces
                      \/ bPath = Bench!Child(p) /\ bAt[p] \in RunPlaces /\ w \notin RunPlaces
                    BY <1>1, GuardEnds DEF Bench!Guards
                <5>. QED BY <2>2, <5>1
            <4>2. PutBack(bPath)' => Loose(bPath)
                <5>. SUFFICES ASSUME NEW r \in Claimers, bAt'[r] = "lost", bStolen[r] = bPath
                              PROVE  Loose(bPath)
                    BY DEF PutBack
                <5>1. CASE r = p
                    <6>1. w = "lost" /\ bAt[p] \in ClaimPlaces
                        BY <1>2, <5>1 DEF Unclaimed
                    <6>2. bAt[p] = "restore"
                        BY <2>2, <6>1 DEF Weight, WinPlaces, StartPlaces, RunPlaces,
                                          LosePlaces, ClaimPlaces
                    <6>. QED BY <1>1, <5>1, <6>2 DEF StaleIsLoose
                <5>2. CASE r # p
                    BY <1>2, <5>2 DEF PutBack, Loose
                <5>. QED BY <5>1, <5>2
            <4>. QED BY <4>1, <4>2 DEF Loose
        <3>2. Slack' <= Slack
            BY <3>1 DEF Slack
        <3>3. Weight(w) + Slack' <= Weight(bAt[p]) + Slack + bLapses' - bLapses
            BY <1>6, <1>7, <2>2, <3>2
        <3>. QED BY <1>1, <1>6, <3>3, MoveCounts
    <2>. QED BY <2>1, <2>2
<1>. QED BY <1>3, <1>5, <1>8 DEF CountInv

\* The steps that leave the files alone.
LEMMA QuietSteps ==
    ASSUME ClaimerParameters, CountInv, NEW p \in Claimers,
           \/ Bench!Exists(p) \/ Bench!Observe(p) \/ Bench!Judge(p) \/ Bench!Probe(p)
           \/ Bench!Signal(p) \/ (Bench!Rename(p) /\ bPath = Nobody)
           \/ (Bench!Restore(p) /\ bPath # Nobody) \/ Bench!Spawn(p) \/ Bench!EndsEarly(p)
           \/ Bench!Listen(p) \/ Bench!Ends(p) \/ Bench!Crash(p) \/ Bench!Orphan(p)
    PROVE  CountInv'
<1>0. BenchTypes /\ ExitedAfter /\ StaleIsLoose
    BY DEF CountInv
<1>1. bLapses \in Nat /\ bPath \in Bench!Pids \cup {Nobody}
    BY <1>0 DEF BenchTypes
<1>. USE DEF Unclaimed, Uncommitted, ClaimPlaces, StartPlaces, RunPlaces, WinPlaces,
             LosePlaces, Places, Weight
<1>2. CASE Bench!Exists(p)
    <2>. DEFINE w == IF bAt[p] = "first" THEN "observe" ELSE "lost"
    <2>1. /\ Bench!GoTo(p, w) /\ bAt[p] \in {"first", "second"}
          /\ UNCHANGED <<bSeen, bAsked, bPath, bStolen, bExpired, bExited, bLapses>>
        BY <1>2 DEF Bench!Exists
    <2>2. w \in {"observe", "lost"}
        OBVIOUS
    <2>. HIDE DEF w
    <2>3. BenchTypes'
        BY <1>0, <2>1, <2>2 DEF BenchTypes, Bench!GoTo
    <2>4. ExitedAfter'
        BY <1>0, <2>1, <2>2, ExitedStays
    <2>5. \A x : Known(x)' => Known(x)
        BY <2>1 DEF Known
    <2>. QED BY <1>1, <2>1, <2>2, <2>3, <2>4, <2>5, FilesAlone
<1>3. CASE Bench!Observe(p)
    <2>1. /\ Bench!GoTo(p, "judge") /\ bAt[p] = "observe"
          /\ bSeen' = [bSeen EXCEPT ![p] = bPath]
          /\ UNCHANGED <<bAsked, bPath, bStolen, bExpired, bExited, bLapses>>
        BY <1>3 DEF Bench!Observe
    <2>2. \A q \in Claimers : q # p => bSeen'[q] = bSeen[q]
        BY <1>0, <2>1 DEF BenchTypes
    <2>3. BenchTypes'
        BY <1>0, <2>1 DEF BenchTypes, Bench!GoTo
    <2>4. ExitedAfter'
        BY <1>0, <2>1, ExitedStays
    <2>5. \A x : Known(x)' => Known(x)
        BY <1>0, <2>1 DEF Known, BenchTypes
    <2>. QED BY <1>1, <2>1, <2>2, <2>3, <2>4, <2>5, FilesAlone
<1>4. CASE Bench!Judge(p)
    <2>. DEFINE w == IF bPath = Nobody \/ bPath \in bExpired THEN "rename" ELSE "probe"
    <2>1. /\ Bench!GoTo(p, w) /\ bAt[p] = "judge"
          /\ UNCHANGED <<bSeen, bAsked, bPath, bStolen, bExpired, bExited, bLapses>>
        BY <1>4 DEF Bench!Judge
    <2>2. w \in {"rename", "probe"} /\ (w = "rename" => Loose(bPath))
        BY DEF Loose
    <2>. HIDE DEF w
    <2>3. BenchTypes'
        BY <1>0, <2>1, <2>2 DEF BenchTypes, Bench!GoTo
    <2>4. ExitedAfter'
        BY <1>0, <2>1, <2>2, ExitedStays
    <2>5. \A x : Known(x)' => Known(x)
        BY <2>1 DEF Known
    <2>. QED BY <1>1, <2>1, <2>2, <2>3, <2>4, <2>5, FilesAlone
<1>5. CASE Bench!Probe(p)
    <2>. DEFINE w == IF bPath = Nobody THEN "rename" ELSE "signal"
    <2>1. /\ Bench!GoTo(p, w) /\ bAt[p] = "probe"
          /\ bAsked' = [bAsked EXCEPT ![p] = bPath]
          /\ UNCHANGED <<bSeen, bPath, bStolen, bExpired, bExited, bLapses>>
        BY <1>5 DEF Bench!Probe
    <2>2. w \in {"rename", "signal"} /\ (w = "rename" => Loose(bPath))
        BY DEF Loose
    <2>. HIDE DEF w
    <2>3. bAsked'[p] = bPath /\ \A q \in Claimers : q # p => bAsked'[q] = bAsked[q]
        BY <1>0, <2>1 DEF BenchTypes
    <2>4. BenchTypes'
        BY <1>0, <2>1, <2>2 DEF BenchTypes, Bench!GoTo
    <2>5. ExitedAfter'
        BY <1>0, <2>1, <2>2, ExitedStays
    <2>6. \A x : Known(x)' => Known(x)
        BY <2>1 DEF Known
    <2>. QED BY <1>1, <2>1, <2>2, <2>3, <2>4, <2>5, <2>6, FilesAlone
<1>6. CASE Bench!Signal(p)
    \* What was asked for may be judged dead only when it guards nothing.
    <2>. DEFINE w == IF Bench!Alive(bAsked[p]) THEN "lost" ELSE "rename"
    <2>1. /\ Bench!GoTo(p, w) /\ bAt[p] = "signal"
          /\ bAsked' = [bAsked EXCEPT ![p] = Nobody]
          /\ UNCHANGED <<bSeen, bPath, bStolen, bExpired, bExited, bLapses>>
        BY <1>6 DEF Bench!Signal
    <2>2. w \in {"lost", "rename"}
        OBVIOUS
    <2>3. w = "rename" => bSeen[p] # bPath \/ Loose(bPath)
        <3>. SUFFICES ASSUME ~Bench!Alive(bAsked[p]), bSeen[p] = bPath PROVE Loose(bPath)
            OBVIOUS
        <3>1. CASE bAsked[p] # bPath
            BY <1>0, <2>1, <3>1 DEF StaleIsLoose
        <3>2. CASE bAsked[p] = bPath
            <4>1. ~Bench!Guards(bPath)
                BY <1>0, <3>2 DEF Bench!Guards, Bench!Alive, ExitedAfter
            <4>. QED BY <4>1 DEF Loose
        <3>. QED BY <3>1, <3>2
    <2>. HIDE DEF w
    <2>4. \A q \in Claimers : q # p => bAsked'[q] = bAsked[q]
        BY <1>0, <2>1 DEF BenchTypes
    <2>5. BenchTypes'
        BY <1>0, <2>1, <2>2 DEF BenchTypes, Bench!GoTo
    <2>6. ExitedAfter'
        BY <1>0, <2>1, <2>2, ExitedStays
    <2>7. \A x : Known(x)' => Known(x)
        BY <2>1 DEF Known
    <2>. QED BY <1>1, <2>1, <2>2, <2>3, <2>4, <2>5, <2>6, <2>7, FilesAlone
<1>7. CASE Bench!Rename(p) /\ bPath = Nobody
    <2>1. /\ Bench!GoTo(p, "lost") /\ bAt[p] = "rename"
          /\ bSeen' = [bSeen EXCEPT ![p] = Nobody]
          /\ UNCHANGED <<bAsked, bPath, bStolen, bExpired, bExited, bLapses>>
        BY <1>7 DEF Bench!Rename
    <2>2. /\ \A q \in Claimers : q # p => bSeen'[q] = bSeen[q]
          /\ \A q \in Claimers : bSeen'[q] \in {bSeen[q], Nobody}
        BY <1>0, <2>1 DEF BenchTypes
    <2>3. BenchTypes'
        BY <1>0, <2>1 DEF BenchTypes, Bench!GoTo
    <2>4. ExitedAfter'
        BY <1>0, <2>1, ExitedStays
    <2>5. \A x : x # Nobody => (Known(x)' => Known(x))
        BY <2>1, <2>2 DEF Known
    <2>. QED BY <1>1, <2>1, <2>2, <2>3, <2>4, <2>5, FilesAlone
<1>8. CASE \/ Bench!Restore(p) /\ bPath # Nobody
           \/ Bench!Spawn(p) \/ Bench!EndsEarly(p) \/ Bench!Listen(p) \/ Bench!Ends(p)
    <2>1. PICK w :
          /\ Bench!GoTo(p, w)
          /\ \/ bAt[p] = "restore" /\ w = "lost"
             \/ bAt[p] = "won" /\ w = "spawned"
             \/ bAt[p] = "spawned" /\ w = "early"
             \/ bAt[p] = "errored" /\ w \in {"release", "failed"}
             \/ bAt[p] = "running" /\ w \in {"unlink", "ended"}
          /\ UNCHANGED <<bSeen, bAsked, bPath, bStolen, bExpired, bExited, bLapses>>
        BY <1>8 DEF Bench!Restore, Bench!Spawn, Bench!EndsEarly, Bench!Listen, Bench!Ends
    <2>2. BenchTypes' /\ w \in Places
        BY <1>0, <2>1 DEF BenchTypes, Bench!GoTo
    <2>3. ExitedAfter'
        BY <1>0, <2>1, ExitedStays
    <2>4. \A x : Known(x)' => Known(x)
        BY <2>1 DEF Known
    <2>. QED BY <1>1, <2>1, <2>2, <2>3, <2>4, FilesAlone
<1>9. CASE Bench!Crash(p)
    <2>1. /\ Bench!GoTo(p, "dead") /\ bAt[p] \notin {"lost", "failed", "ended", "dead"}
          /\ bExited' \in {bExited, bExited \cup {p}}
          /\ UNCHANGED <<bSeen, bAsked, bPath, bStolen, bExpired, bLapses>>
        BY <1>9 DEF Bench!Crash
    <2>2. BenchTypes' /\ bAt[p] \in Places
        BY <1>0, <2>1 DEF BenchTypes, Bench!GoTo
    <2>3. ExitedAfter'
        BY <1>0, <2>1, ExitedStays
    <2>4. \A x : Known(x)' => Known(x)
        BY <2>1 DEF Known
    <2>5. \/ Weight("dead") + 1 <= Weight(bAt[p]) + bLapses' - bLapses
          \/ /\ Weight("dead") = Weight(bAt[p]) /\ bLapses' = bLapses
             /\ bAt[p] \notin StartPlaces /\ bAt[p] \notin RunPlaces
        BY <1>1, <2>1, <2>2
    <2>. QED BY <2>1, <2>2, <2>3, <2>4, <2>5, FilesAlone
<1>10. CASE Bench!Orphan(p)
    <2>1. /\ Bench!GoTo(p, "running") /\ bAt[p] = "spawned"
          /\ bExited' = bExited \cup {p} /\ bLapses' = bLapses + 1
          /\ UNCHANGED <<bSeen, bAsked, bPath, bStolen, bExpired>>
        BY <1>10 DEF Bench!Orphan
    <2>2. BenchTypes'
        BY <1>0, <2>1 DEF BenchTypes, Bench!GoTo
    <2>3. ExitedAfter'
        BY <1>0, <2>1, ExitedStays
    <2>4. \A x : Known(x)' => Known(x)
        BY <2>1 DEF Known
    <2>. QED BY <1>1, <2>1, <2>2, <2>3, <2>4, FilesAlone
<1>. QED BY <1>2, <1>3, <1>4, <1>5, <1>6, <1>7, <1>8, <1>9, <1>10

\* The path becomes free: something stale was taken away, or the one who takes
\* it away will not win.
LEMMA PathFreed ==
    ASSUME ClaimerParameters, CountInv, NEW p \in Claimers,
           \/ (Bench!Rename(p) /\ bPath # Nobody) \/ Bench!Fail(p) \/ Bench!NoPid(p)
           \/ Bench!Release(p) \/ Bench!Unlink(p)
    PROVE  CountInv'
<1>0. BenchTypes /\ ExitedAfter /\ KnownWasBorn /\ StaleIsLoose /\ EnoughLosers
    BY DEF CountInv
<1>1. /\ bPath' = Nobody
      /\ UNCHANGED <<bAsked, bExpired, bExited, bLapses>>
    BY DEF Bench!Rename, Bench!Fail, Bench!NoPid, Bench!Release, Bench!Unlink
<1>2. PICK w : /\ Bench!GoTo(p, w)
               /\ \/ bAt[p] = "rename" /\ w = "restore"
                  \/ bAt[p] = "rename" /\ w = "second" /\ bPath = bSeen[p]
                  \/ bAt[p] = "won" /\ w \in {"failed", "errored"}
                  \/ bAt[p] = "release" /\ w = "failed"
                  \/ bAt[p] = "unlink" /\ w = "ended"
    BY DEF Bench!Rename, Bench!Fail, Bench!NoPid, Bench!Release, Bench!Unlink, Bench!JudgedOne
<1>3. /\ bStolen' \in [Claimers -> Bench!Pids \cup {Nobody}]
      /\ \A q \in Claimers : bStolen'[q] \in {bStolen[q], bPath}
    BY <1>0 DEF Bench!Rename, Bench!Fail, Bench!NoPid, Bench!Release, Bench!Unlink, BenchTypes
<1>4. /\ bSeen' \in [Claimers -> Bench!Pids \cup {Nobody}]
      /\ \A q \in Claimers : bSeen'[q] \in {bSeen[q], Nobody}
    BY <1>0 DEF Bench!Rename, Bench!Fail, Bench!NoPid, Bench!Release, Bench!Unlink, BenchTypes
<1>5. BenchTypes' /\ w \in Places
    BY <1>0, <1>1, <1>2, <1>3, <1>4
       DEF BenchTypes, Bench!GoTo, Places, ClaimPlaces, WinPlaces, LosePlaces
<1>6. \A x : x # Nobody => (Known(x)' => Known(x))
    BY <1>1, <1>3, <1>4 DEF Known
<1>7. /\ w \in Unclaimed => bAt[p] \in Unclaimed
      /\ w \notin Uncommitted
      /\ w \in Unclaimed \cup Uncommitted => bAt[p] \in Unclaimed \cup Uncommitted
    BY <1>2 DEF Unclaimed, Uncommitted, ClaimPlaces, StartPlaces
<1>8. KnownWasBorn'
    BY <1>0, <1>2, <1>6, <1>7, NoNewPids
<1>9. ExitedAfter'
    BY <1>0, <1>1, <1>2, <1>7, ExitedStays
<1>10. Loose(bPath)'
    BY <1>1 DEF Loose
<1>11. StaleIsLoose'
    BY <1>10 DEF StaleIsLoose
<1>12. Weight(w) + Slack' <= Weight(bAt[p]) + Slack + bLapses' - bLapses
    <2>1. w = "second" => Slack = 1
        BY <1>0, <1>2 DEF StaleIsLoose, Slack
    <2>2. Slack \in {0, 1} /\ Slack' = 1 /\ bLapses \in Nat /\ bLapses' = bLapses
        BY <1>0, <1>1, <1>10 DEF Slack, BenchTypes
    <2>3. \/ w = "second" /\ Weight(w) = 0 /\ Weight(bAt[p]) = 0
          \/ Weight(w) = -1 /\ Weight(bAt[p]) \in {0, 1}
          \/ Weight(w) = 0 /\ Weight(bAt[p]) = 1
        BY <1>2 DEF Weight, WinPlaces, StartPlaces, RunPlaces, LosePlaces
    <2>. QED BY <2>1, <2>2, <2>3
<1>13. EnoughLosers'
    BY <1>0, <1>1, <1>2, <1>5, <1>12, MoveCounts DEF BenchTypes
<1>. QED BY <1>5, <1>8, <1>9, <1>11, <1>13 DEF CountInv

\* A claim, by link or by the stamp of the child: a pid nobody knows.
LEMMA PathClaimed ==
    ASSUME ClaimerParameters, CountInv, NEW p \in Claimers, NEW x,
           NEW w, Bench!GoTo(p, w), bPath' = x,
           UNCHANGED <<bSeen, bAsked, bStolen, bExpired, bExited, bLapses>>,
           \/ /\ w = "won" /\ x = p /\ bPath = Nobody
              /\ bAt[p] \in {"first", "second"}
           \/ /\ x = Bench!Child(p)
              /\ <<bAt[p], w>> \in {<<"spawned", "running">>, <<"early", "ended">>}
    PROVE  CountInv'
<1>0. BenchTypes /\ ExitedAfter /\ KnownWasBorn /\ StaleIsLoose /\ EnoughLosers
    BY DEF CountInv
<1>. USE DEF Unclaimed, Uncommitted, ClaimPlaces, StartPlaces, RunPlaces, WinPlaces, LosePlaces
<1>1. \/ w = "won" /\ bAt[p] \in {"first", "second"}
      \/ w = "running" /\ bAt[p] = "spawned" /\ x = Bench!Child(p)
      \/ w = "ended" /\ bAt[p] = "early" /\ x = Bench!Child(p)
    OBVIOUS
<1>2. x \in Bench!Pids /\ x # Nobody /\ x \in {p, Bench!Child(p)} /\ ~Known(x)
    BY <1>0, <1>1, PidsDiffer DEF KnownWasBorn
<1>3. /\ bAt'[p] = w
      /\ \A q \in Claimers : q # p => bAt'[q] = bAt[q]
    BY <1>0 DEF Bench!GoTo, BenchTypes
<1>4. BenchTypes' /\ w \in Places
    BY <1>0, <1>1, <1>2 DEF BenchTypes, Bench!GoTo, Places
<1>5. \A y : Known(y)' => Known(y) \/ y = x
    BY DEF Known
<1>6. KnownWasBorn'
    <2>. SUFFICES ASSUME NEW q \in Claimers
                  PROVE  /\ bAt'[q] \in Unclaimed => ~Known(q)' /\ ~Known(Bench!Child(q))'
                         /\ bAt'[q] \in Uncommitted => ~Known(Bench!Child(q))'
        BY DEF KnownWasBorn, Bench!Child
    <2>1. CASE q # p
        <3>1. q # x /\ Bench!Child(q) # x
            BY <1>2, <2>1, PidsDiffer
        <3>. QED BY <1>0, <1>3, <1>5, <2>1, <3>1 DEF KnownWasBorn
    <2>2. CASE q = p /\ w = "won"
        <3>1. Bench!Child(p) # x /\ ~Known(Bench!Child(p))
            BY <1>0, <1>1, <2>2, PidsDiffer DEF KnownWasBorn
        <3>2. ~Known(Bench!Child(p))'
            BY <1>5, <3>1
        <3>. QED BY <1>3, <2>2, <3>2
    <2>3. CASE q = p /\ w # "won"
        BY <1>1, <1>3, <2>3
    <2>. QED BY <2>1, <2>2, <2>3
<1>7. ExitedAfter'
    BY <1>0, <1>1, ExitedStays
<1>8. w # "ended" => ~Loose(bPath)'
    <2>. SUFFICES ASSUME w # "ended" PROVE ~Loose(x)'
        OBVIOUS
    <2>1. Bench!Guards(x)'
        BY <1>1, <1>3 DEF Bench!Guards, Bench!Child
    <2>2. ~PutBack(x)' /\ x \notin bExpired'
        BY <1>2 DEF PutBack, Known
    <2>. QED BY <1>2, <2>1, <2>2 DEF Loose, Bench!Guards, PutBack
<1>9. StaleIsLoose'
    BY <1>2 DEF StaleIsLoose, Known
<1>10. Weight(w) + Slack' <= Weight(bAt[p]) + Slack + bLapses' - bLapses
    <2>1. Slack \in {0, 1} /\ Slack' \in {0, 1} /\ bLapses \in Nat /\ bLapses' = bLapses
        BY <1>0 DEF Slack, BenchTypes
    <2>2. w # "ended" => Slack' = 0
        BY <1>8 DEF Slack
    <2>3. w = "won" => Slack = 1
        BY DEF Slack, Loose
    <2>4. \/ w = "won" /\ Weight(w) = 1 /\ Weight(bAt[p]) = 0
          \/ w = "running" /\ Weight(w) = 1 /\ Weight(bAt[p]) = 1
          \/ w = "ended" /\ Weight(w) = -1 /\ Weight(bAt[p]) = 0
        BY <1>1 DEF Weight
    <2>. QED BY <2>1, <2>2, <2>3, <2>4
<1>11. EnoughLosers'
    BY <1>0, <1>4, <1>10, MoveCounts DEF BenchTypes
<1>. QED BY <1>4, <1>6, <1>7, <1>9, <1>11 DEF CountInv

\* A claim that was taken away is put back where nothing is.
LEMMA PathRestored ==
    ASSUME ClaimerParameters, CountInv, NEW p \in Claimers, Bench!Restore(p), bPath = Nobody
    PROVE  CountInv'
<1>0. BenchTypes /\ ExitedAfter /\ KnownWasBorn /\ StaleIsLoose /\ EnoughLosers
    BY DEF CountInv
<1>1. /\ bAt[p] = "restore" /\ Bench!GoTo(p, "lost") /\ bPath' = bStolen[p]
      /\ UNCHANGED <<bSeen, bAsked, bStolen, bExpired, bExited, bLapses>>
    BY DEF Bench!Restore
<1>2. BenchTypes' /\ bAt'[p] = "lost" /\ "lost" \in Places
    BY <1>0, <1>1 DEF BenchTypes, Bench!GoTo, Places, LosePlaces
<1>3. \A x : Known(x)' => Known(x)
    BY <1>1 DEF Known
<1>4. "lost" \notin Uncommitted /\ bAt[p] \in Unclaimed
    BY <1>1 DEF Uncommitted, StartPlaces, Unclaimed, ClaimPlaces
<1>5. KnownWasBorn'
    BY <1>0, <1>1, <1>3, <1>4, NoNewPids
<1>6. ExitedAfter'
    BY <1>0, <1>1, <1>4, ExitedStays
<1>7. Loose(bPath)'
    BY <1>1, <1>2 DEF Loose, PutBack
<1>8. StaleIsLoose'
    BY <1>7 DEF StaleIsLoose
<1>9. Weight("lost") + Slack' <= Weight(bAt[p]) + Slack + bLapses' - bLapses
    <2>1. Slack = 1 /\ Slack' = 1 /\ bLapses \in Nat /\ bLapses' = bLapses
        BY <1>0, <1>1, <1>7 DEF Slack, Loose, BenchTypes
    <2>2. Weight("lost") = -1 /\ Weight(bAt[p]) = -1
        BY <1>1 DEF Weight, WinPlaces, StartPlaces, RunPlaces, LosePlaces
    <2>. QED BY <2>1, <2>2
<1>10. EnoughLosers'
    BY <1>0, <1>1, <1>2, <1>9, MoveCounts DEF BenchTypes
<1>. QED BY <1>2, <1>5, <1>6, <1>8, <1>10 DEF CountInv

\* A file passes its time, or a claimer's process ends: a live run whose lock
\* goes with it lapses.
LEMMA TimePasses ==
    ASSUME ClaimerParameters, CountInv,
           \/ \E p \in Claimers : Bench!Exit(p)
           \/ \E x \in Bench!Pids : Bench!Expire(x)
    PROVE  CountInv'
<1>0. BenchTypes /\ ExitedAfter /\ KnownWasBorn /\ StaleIsLoose /\ EnoughLosers
    BY DEF CountInv
<1>1. UNCHANGED <<bAt, bSeen, bAsked, bPath, bStolen>>
    BY DEF Bench!Exit, Bench!Expire
<1>2. /\ bExpired \subseteq bExpired' /\ bLapses' \in Nat /\ bLapses <= bLapses'
      /\ \A x \in bExpired' \ bExpired :
            Known(x) /\ (Bench!Guards(x) => bLapses' = bLapses + 1)
    BY <1>0 DEF BenchTypes, Bench!Exit, Bench!Expire, Bench!Stamped, Known
<1>3. BenchTypes'
    BY <1>0, <1>1, <1>2 DEF BenchTypes
<1>4. ExitedAfter'
    <2>1. CASE \E p \in Claimers : Bench!Exit(p)
        BY <1>0, <1>1, <2>1
           DEF Bench!Exit, ExitedAfter, Unclaimed, Uncommitted, ClaimPlaces, StartPlaces
    <2>2. CASE \E x \in Bench!Pids : Bench!Expire(x)
        BY <1>0, <1>1, <2>2 DEF Bench!Expire, ExitedAfter
    <2>. QED BY <2>1, <2>2
<1>5. \A x : Known(x)' => Known(x)
    BY <1>1, <1>2 DEF Known
<1>6. KnownWasBorn'
    BY <1>0, <1>1, <1>5 DEF KnownWasBorn, Bench!Child
<1>7. \A x : /\ Bench!Guards(x)' <=> Bench!Guards(x)
             /\ PutBack(x)' <=> PutBack(x)
    BY <1>1 DEF Bench!Guards, Bench!Child, PutBack
<1>8. Loose(bPath) => Loose(bPath)'
    BY <1>1, <1>2, <1>7 DEF Loose
<1>9. StaleIsLoose'
    BY <1>0, <1>1, <1>8 DEF StaleIsLoose
<1>10. /\ bLapses \in Nat /\ bLapses' \in Nat /\ bLapses <= bLapses'
       /\ Slack \in {0, 1} /\ Slack' \in {0, 1}
       /\ Slack' > Slack => bLapses' = bLapses + 1
    <2>1. Slack \in {0, 1} /\ Slack' \in {0, 1}
        BY DEF Slack
    <2>2. Slack' > Slack => ~Loose(bPath) /\ Loose(bPath)'
        BY DEF Slack
    <2>3. ~Loose(bPath) /\ Loose(bPath)' => bPath \in bExpired' \ bExpired /\ Bench!Guards(bPath)
        BY <1>1, <1>7 DEF Loose
    <2>. QED BY <1>0, <1>2, <2>1, <2>2, <2>3 DEF BenchTypes
<1>11. EnoughLosers'
    <2>1. Bench!Winners' = Bench!Winners /\ Losers' = Losers
        BY <1>1 DEF Bench!Winners, Losers
    <2>. DEFINE k == Cardinality(Bench!Winners)
                n == Cardinality(Losers)
    <2>2. k + Slack <= n + 1 + bLapses
        BY <1>0 DEF EnoughLosers
    <2>3. k \in Nat /\ n \in Nat
        <3>1. IsFiniteSet(Bench!Winners) /\ IsFiniteSet(Losers)
            BY FS_Subset DEF ClaimerParameters, Bench!Winners, Losers
        <3>. QED BY <3>1, FS_CardinalityType
    <2>. HIDE DEF k, n
    <2>4. ASSUME NEW s \in {0, 1}, NEW t \in {0, 1}, NEW l \in Nat, NEW m \in Nat,
                 k + s <= n + 1 + l, l <= m, t > s => m = l + 1
          PROVE  k + t <= n + 1 + m
        BY <2>3, <2>4
    <2>5. k + Slack' <= n + 1 + bLapses'
        BY <1>10, <2>2, <2>4
    <2>. QED BY <2>1, <2>5 DEF EnoughLosers, k, n
<1>. QED BY <1>3, <1>4, <1>6, <1>9, <1>11 DEF CountInv

\* One step keeps somebody with a chance.
LEMMA ChanceStays ==
    ASSUME ClaimerParameters, BenchInv, [Bench!Next]_(Bench!vars), BenchTypes'
    PROVE  SomeoneClaims'
<1>0. BenchTypes /\ SomeoneClaims
    BY DEF BenchInv, CountInv
<1>. DEFINE Quietly == /\ bPath = Gone
                       /\ \A p \in Claimers :
                             /\ bAt[p] \in {"first", "observe", "judge", "probe", "signal", "rename"}
                             /\ bAt[p] \in {"judge", "probe", "signal", "rename"} => bSeen[p] = Gone
                             /\ bAt[p] = "signal" => bAsked[p] = Gone
            Freely == /\ bPath = Nobody
                      /\ \E p \in Claimers : bAt[p] \in {"first", "second"}
                      /\ \A p \in Claimers : bAt[p] # "restore"
<1>1. CASE UNCHANGED <<bAt, bSeen, bAsked, bPath>>
    BY <1>0, <1>1 DEF SomeoneClaims
<1>2. ASSUME NEW p \in Claimers, NEW w, Bench!GoTo(p, w), w \in Done PROVE SomeoneClaims'
    BY <1>0, <1>2 DEF SomeoneClaims, Bench!GoTo, BenchTypes
<1>3. ASSUME NEW p \in Claimers,
             \/ Bench!Exists(p) \/ Bench!Observe(p) \/ Bench!Judge(p) \/ Bench!Probe(p)
             \/ Bench!Signal(p) \/ Bench!Rename(p) \/ Bench!Restore(p)
      PROVE  SomeoneClaims'
    <2>. USE <1>0, <1>3 DEF Bench!Exists, Bench!Observe, Bench!Judge, Bench!Probe, Bench!Signal,
             Bench!Rename, Bench!Restore, Bench!GoTo, BenchTypes
    <2>1. \A q \in Claimers : q # p => /\ bAt'[q] = bAt[q] /\ bSeen'[q] = bSeen[q]
                                       /\ bAsked'[q] = bAsked[q]
        OBVIOUS
    <2>2. bAt[p] \in ClaimPlaces
        BY DEF ClaimPlaces
    <2>3. CASE \E q \in Claimers : bAt[q] \in Done
        <3>1. PICK q \in Claimers : bAt[q] \in Done
            BY <2>3
        <3>2. q # p
            BY <2>2, <3>1 DEF Done, Unclaimed
        <3>. QED BY <2>1, <3>1, <3>2 DEF SomeoneClaims
    <2>4. CASE Quietly
        \* Nobody claimed, and the file of the dead run is there.
        <3>1. Gone # Nobody /\ ~Bench!Alive(Gone)
            BY PidsDiffer DEF Bench!Alive
        <3>2. CASE Bench!Rename(p)
            <4>1. bPath' = Nobody /\ bAt'[p] = "second"
                BY <2>4, <3>1, <3>2 DEF Bench!JudgedOne
            <4>2. \A q \in Claimers : bAt'[q] # "restore"
                BY <2>1, <2>4, <4>1
            <4>. QED BY <4>1, <4>2 DEF SomeoneClaims
        <3>3. CASE ~Bench!Rename(p)
            <4>1. /\ bPath' = Gone
                  /\ bAt'[p] \in {"first", "observe", "judge", "probe", "signal", "rename"}
                  /\ bAt'[p] \in {"judge", "probe", "signal", "rename"} => bSeen'[p] = Gone
                  /\ bAt'[p] = "signal" => bAsked'[p] = Gone
                BY <2>4, <3>1, <3>3
            <4>. QED BY <2>1, <2>4, <4>1 DEF SomeoneClaims
        <3>. QED BY <3>2, <3>3
    <2>5. CASE Freely
        \* The file of the dead run has gone, and nobody has anything to put back.
        <3>1. bPath' = Nobody /\ bAt'[p] # "restore"
            BY <2>5
        <3>2. PICK q \in Claimers : bAt[q] \in {"first", "second"}
            BY <2>5
        <3>3. bAt'[q] \in {"first", "second"}
            BY <2>1, <2>5, <3>2
        <3>. QED BY <2>1, <2>5, <3>1, <3>3 DEF SomeoneClaims
    <2>. QED BY <2>3, <2>4, <2>5 DEF SomeoneClaims
<1>4. ASSUME NEW p \in Claimers,
             \/ Bench!Create(p) \/ Bench!Fail(p) \/ Bench!Spawn(p) \/ Bench!EndsEarly(p)
             \/ Bench!Commit(p) \/ Bench!NoPid(p) \/ Bench!Listen(p) \/ Bench!Release(p)
             \/ Bench!Ends(p) \/ Bench!Unlink(p) \/ Bench!Crash(p) \/ Bench!Orphan(p)
      PROVE  SomeoneClaims'
    <2>1. \E w \in {"won", "failed", "spawned", "early", "ended", "running", "errored",
                    "release", "unlink", "dead"} : Bench!GoTo(p, w)
        BY <1>4 DEF Bench!Create, Bench!Fail, Bench!Spawn, Bench!EndsEarly, Bench!Commit,
                    Bench!NoPid, Bench!Listen, Bench!Release, Bench!Ends, Bench!Unlink,
                    Bench!Crash, Bench!Orphan
    <2>. QED BY <1>2, <2>1 DEF Done, Places, Unclaimed, ClaimPlaces, WinPlaces, StartPlaces,
                               RunPlaces, LosePlaces
<1>5. ASSUME \/ \E p \in Claimers : Bench!Exit(p)
             \/ \E x \in Bench!Pids : Bench!Expire(x)
      PROVE  SomeoneClaims'
    BY <1>1, <1>5 DEF Bench!Exit, Bench!Expire
<1>6. CASE UNCHANGED Bench!vars
    BY <1>1, <1>6 DEF Bench!vars
<1>. QED BY <1>3, <1>4, <1>5, <1>6 DEF Bench!Next

\* Nobody has claimed when the first comes.
LEMMA BenchInvInit == ASSUME ClaimerParameters PROVE Bench!Init => BenchInv
<1>. SUFFICES ASSUME Bench!Init PROVE BenchInv
    OBVIOUS
<1>1. PICK c : c \in Claimers
    BY DEF ClaimerParameters
<1>2. Gone \in Bench!Pids /\ Gone # Nobody
    BY <1>1, PidsDiffer
<1>3. BenchTypes
    BY <1>2 DEF Bench!Init, BenchTypes, Places, ClaimPlaces
<1>4. /\ \A q \in Claimers : bAt[q] = "first" /\ bSeen[q] = Nobody /\ bStolen[q] = Nobody
      /\ bExpired = {} /\ bExited = {} /\ bLapses = 0
    BY DEF Bench!Init
<1>5. bPath \in {Nobody, Gone}
    BY DEF Bench!Init
<1>6. KnownWasBorn
    <2>1. \A x : Known(x) => x \in {Nobody, Gone}
        BY <1>4, <1>5 DEF Known
    <2>. QED BY <1>4, <2>1, PidsDiffer DEF KnownWasBorn, Uncommitted, StartPlaces
<1>7. StaleIsLoose
    BY <1>4 DEF StaleIsLoose
<1>8. EnoughLosers
    <2>1. Bench!Winners = {} /\ Losers = {}
        BY <1>4 DEF Bench!Winners, Losers, LosePlaces
    <2>2. Cardinality({}) = 0
        BY FS_EmptySet
    <2>. QED BY <1>4, <2>1, <2>2 DEF EnoughLosers, Slack
<1>9. SomeoneClaims
    BY <1>1, <1>4, <1>5 DEF SomeoneClaims
<1>. QED BY <1>3, <1>4, <1>6, <1>7, <1>8, <1>9 DEF BenchInv, CountInv, ExitedAfter

\* One step keeps the invariant.
LEMMA BenchInvStep ==
    ASSUME ClaimerParameters PROVE BenchInv /\ [Bench!Next]_(Bench!vars) => BenchInv'
<1>. SUFFICES ASSUME BenchInv, [Bench!Next]_(Bench!vars) PROVE BenchInv'
    OBVIOUS
<1>0. CountInv
    BY DEF BenchInv
<1>1. CountInv'
    <2>1. CASE \E p \in Claimers : Bench!Create(p) \/ Bench!Commit(p)
        <3>. PICK p \in Claimers : Bench!Create(p) \/ Bench!Commit(p)
            BY <2>1
        <3>1. CASE Bench!Create(p)
            BY <1>0, <3>1, PathClaimed DEF Bench!Create
        <3>2. CASE Bench!Commit(p)
            BY <1>0, <3>2, PathClaimed DEF Bench!Commit
        <3>. QED BY <3>1, <3>2
    <2>2. CASE \E p \in Claimers : Bench!Rename(p) \/ Bench!Restore(p)
        BY <1>0, <2>2, QuietSteps, PathFreed, PathRestored
    <2>3. CASE \E p \in Claimers : Bench!Fail(p) \/ Bench!NoPid(p) \/ Bench!Release(p)
                                   \/ Bench!Unlink(p)
        BY <1>0, <2>3, PathFreed
    <2>4. CASE \E p \in Claimers :
                  \/ Bench!Exists(p) \/ Bench!Observe(p) \/ Bench!Judge(p) \/ Bench!Probe(p)
                  \/ Bench!Signal(p) \/ Bench!Spawn(p) \/ Bench!EndsEarly(p)
                  \/ Bench!Listen(p) \/ Bench!Ends(p) \/ Bench!Crash(p) \/ Bench!Orphan(p)
        BY <1>0, <2>4, QuietSteps
    <2>5. CASE \/ \E p \in Claimers : Bench!Exit(p)
               \/ \E x \in Bench!Pids : Bench!Expire(x)
        BY <1>0, <2>5, TimePasses
    <2>6. CASE UNCHANGED Bench!vars
        BY <1>0, <2>6
           DEF Bench!vars, CountInv, BenchTypes, ExitedAfter, KnownWasBorn, StaleIsLoose,
               EnoughLosers, Slack, Known, Loose, PutBack, Bench!Winners, Losers,
               Bench!Guards, Bench!Child
    <2>. QED BY <2>1, <2>2, <2>3, <2>4, <2>5, <2>6 DEF Bench!Next
<1>2. SomeoneClaims'
    BY <1>1, ChanceStays DEF CountInv
<1>. QED BY <1>1, <1>2 DEF BenchInv

\* With n claimers at most (n + 1) / 2 benchmarks run at once, and one more for
\* each live run whose lock passed the TTL or lost its claimer before the stamp,
\* whoever is killed and in whatever order the claims, thefts and removals come;
\* and they never all lose.
THEOREM WinnersAreFew == Bench!Spec => []WinnersBounded
<1>0. ClaimerParameters
    BY LocksAssumption DEF ClaimerParameters
<1>1. BenchInv => WinnersBounded
    <2>. SUFFICES ASSUME BenchInv PROVE Bench!WinnersBounded /\ Bench!SomebodyWins
        BY DEF WinnersBounded
    <2>. DEFINE W == Bench!Winners
                L == Losers
                Came == {p \in Claimers : bAt[p] # "first"}
    <2>1. 2 * Cardinality(W) <= Cardinality(Came) + 1 + bLapses
        <3>1. /\ IsFiniteSet(W) /\ IsFiniteSet(L) /\ IsFiniteSet(Came)
              /\ W \cup L \subseteq Came /\ W \cap L = {}
            BY <1>0, FS_Subset DEF ClaimerParameters, Bench!Winners, Losers, LosePlaces
        <3>2. Cardinality(W) + Slack <= Cardinality(L) + 1 + bLapses
            BY DEF BenchInv, CountInv, EnoughLosers
        <3>3. Slack \in {0, 1} /\ bLapses \in Nat
            BY DEF Slack, BenchInv, CountInv, BenchTypes
        <3>. HIDE DEF W, L, Came
        <3>4. /\ Cardinality(W) \in Nat /\ Cardinality(L) \in Nat
              /\ Cardinality(Came) \in Nat /\ Cardinality({}) = 0
            BY <3>1, FS_CardinalityType, FS_EmptySet
        <3>5. Cardinality(W \cup L) = Cardinality(W) + Cardinality(L) - Cardinality(W \cap L)
            BY <3>1, FS_Union
        <3>6. Cardinality(W \cup L) = Cardinality(W) + Cardinality(L)
            <4>1. Cardinality(W \cap L) = 0
                BY <3>1, <3>4
            <4>. QED BY <3>4, <3>5, <4>1
        <3>7. Cardinality(W \cup L) <= Cardinality(Came)
            BY <3>1, FS_Subset
        <3>. QED BY <3>2, <3>3, <3>4, <3>6, <3>7
    <2>2. \A S : Bench!Cardinality(S) = Cardinality(S)
        BY DEF Bench!Cardinality, Cardinality
    <2>3. \E p \in Claimers : bAt[p] # "lost"
        <3>1. \A p \in Claimers : bAt[p] \in Done => bAt[p] # "lost"
            BY DEF Done, Unclaimed
        <3>. QED BY <1>0, <3>1 DEF BenchInv, SomeoneClaims, ClaimerParameters
    <2>. QED BY <2>1, <2>2, <2>3 DEF Bench!WinnersBounded, Bench!SomebodyWins
<1>. QED BY <1>0, <1>1, BenchInvInit, BenchInvStep, PTL DEF Bench!Spec
=============================================================================
