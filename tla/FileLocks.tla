----------------------------- MODULE FileLocks -----------------------------
(***************************************************************************)
(* The four directory locks of the program and the lock file under which   *)
(* benchmarks are spawned.  They share nothing: each has its own users and *)
(* variables, and what is promised of each is named here.                  *)
(***************************************************************************)
EXTENDS AsyncLock

CONSTANTS
    Users,       \* of calibration/state.lock
    Runners,     \* calibration runners, which lock models
    Writers,     \* of a JSON sidecar
    Claimers,    \* who start a benchmark
    Gone,        \* the pid of a benchmark that died
    StateFaults, ModelFaults, MkdirFaults, BenchFaults   \* bounds

VARIABLES
    sAt, sDir, sOwner, sStale, sLate,
    mAt, mAttempt, mSaw, mDir, mPid, mTmps, mYoung, mLate,
    kWritable, kAt, kDir, kStale, kLate, kUnlocked, kRead, kFile,
    bAt, bSeen, bAsked, bPath, bStolen, bExpired, bExited, bFaults, bLapses

State == INSTANCE StateLock WITH Processes <- Users, MaxFaults <- StateFaults,
    at <- sAt, dir <- sDir, owner <- sOwner, stale <- sStale, late <- sLate

Model == INSTANCE ModelLock WITH MaxFaults <- ModelFaults,
    at <- mAt, attempt <- mAttempt, saw <- mSaw, dir <- mDir, pid <- mPid,
    tmps <- mTmps, young <- mYoung, late <- mLate

Mkdir == INSTANCE MkdirLock WITH Processes <- Writers, MaxFaults <- MkdirFaults,
    writable <- kWritable, at <- kAt, dir <- kDir, stale <- kStale,
    late <- kLate, unlocked <- kUnlocked, read <- kRead, file <- kFile

Bench == INSTANCE BenchLock WITH Absent <- Nobody, MaxFaults <- BenchFaults,
    at <- bAt, seen <- bSeen, asked <- bAsked, path <- bPath, stolen <- bStolen,
    expired <- bExpired, exited <- bExited, faults <- bFaults, lapses <- bLapses

\* Who made nothing is nobody, and pids are told apart.
ASSUME LocksAssumption ==
    /\ Nobody \notin Users \cup Runners \cup Writers \cup Bench!Pids
    /\ IsFiniteSet(Claimers) /\ Claimers # {}
    /\ Gone \notin Claimers
    /\ \A p \in Claimers : Bench!Child(p) \notin Claimers /\ Gone # Bench!Child(p)

-----------------------------------------------------------------------------

\* calibration/state.lock and a model's lock: one process at a time, while
\* nobody is killed or suspended.
ExclusiveWhenPrompt == State!ExclusiveWhenPrompt
OneCalibration == Model!OneCalibration

\* The sidecars' lock: no update lost.
NoUpdateLost == Mkdir!NoUpdateLost

\* The lock of a benchmark: some claimer gets it, and not more than can.
WinnersBounded == Bench!WinnersBounded /\ Bench!SomebodyWins
=============================================================================
