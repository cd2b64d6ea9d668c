---------------------------- MODULE MCFileLocks ----------------------------
(***************************************************************************)
(* Four directory locks, and the lock file under which benchmarks are      *)
(* spawned, each alone: lock says which of them a behaviour is about, and  *)
(* the others stay as they are.                                            *)
(***************************************************************************)
EXTENDS FileLocks, TLC

CONSTANTS p1, p2, p3, p4

VARIABLE lock

stateVars == <<sAt, sDir, sOwner, sStale, sLate>>
modelVars == <<mAt, mAttempt, mSaw, mDir, mPid, mTmps, mYoung, mLate>>
mkdirVars == <<kWritable, kAt, kDir, kStale, kLate, kUnlocked, kRead, kFile>>
benchVars == <<bAt, bSeen, bAsked, bPath, bStolen, bExpired, bExited, bFaults, bLapses>>

\* A runner that waits for a model's lock comes back: where the behaviour is
\* about another lock, none is there to do so.
NoRunner ==
    /\ mAt = [r \in Runners |-> "dead"] /\ mAttempt = [r \in Runners |-> 0]
    /\ mSaw = [r \in Runners |-> Nobody]
    /\ mDir = Nobody /\ mPid = Nobody /\ mTmps = {} /\ mYoung = FALSE
    /\ mLate = {}

AnyInit ==
    /\ lock \in {"async", "state", "model", "mkdir", "bench"}
    /\ Init /\ State!Init /\ Mkdir!Init /\ Bench!Init
    /\ IF lock = "model" THEN Model!Init ELSE NoRunner
    /\ lock # "mkdir" => kWritable
    /\ lock # "bench" => bPath = Nobody

AnyNext ==
    /\ \/ lock = "async" /\ Next
       \/ lock # "async" /\ UNCHANGED vars
    /\ \/ lock = "state" /\ State!Next
       \/ lock # "state" /\ UNCHANGED stateVars
    /\ \/ lock = "model" /\ Model!Next
       \/ lock # "model" /\ UNCHANGED modelVars
    /\ \/ lock = "mkdir" /\ Mkdir!Next
       \/ lock # "mkdir" /\ UNCHANGED mkdirVars
    /\ \/ lock = "bench" /\ Bench!Next
       \/ lock # "bench" /\ UNCHANGED benchVars
    /\ UNCHANGED lock

all == <<lock, vars, stateVars, modelVars, mkdirVars, benchVars>>

\* Each lock under its own fairness: where it stands still nothing is enabled.
AnySpec == /\ AnyInit /\ [][AnyNext]_all
           /\ Fairness /\ State!Fairness /\ Model!Fairness /\ Mkdir!Fairness

-----------------------------------------------------------------------------

\* What a killed process leaves of any of the directory locks goes, and no call
\* of the sidecars' lock waits for ever.  The processes are interchangeable: p1
\* and p2 stand for any of them.
LeftoversGo == \/ lock = "async" /\ Leftover(p1)
               \/ lock = "state" /\ State!Leftover(p1)
               \/ lock = "model" /\ Model!Leftover(p1, p2)
               \/ lock = "mkdir" /\ Mkdir!Waits(p1)
               ~>
               \/ lock = "async" /\ Passed(p1)
               \/ lock = "state" /\ State!Passed(p1)
               \/ lock = "model" /\ Model!Passed(p1, p2)
               \/ lock = "mkdir" /\ Mkdir!Over(p1)
=============================================================================
