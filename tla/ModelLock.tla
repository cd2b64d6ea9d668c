------------------------------ MODULE ModelLock ------------------------------
(***************************************************************************)
(* The lock of one model's calibration (acquireModelLock, releaseModelLock *)
(* in calibration/state.ts), held for hours: a directory with a pid file,  *)
(* written under a temporary name and renamed.  A lock is taken over when  *)
(* its pid is dead, or when it has no pid and is no longer being created.  *)
(*                                                                         *)
(* A process is a runner of the config directory as long as it lives, so   *)
(* isRunnerOf is pidState here; reused pids are left out.                  *)
(***************************************************************************)
EXTENDS FiniteSets, Integers

CONSTANTS Runners, Nobody,
          MaxFaults   \* bound: runners killed, or suspended for 5 seconds

MaxAttempts == 3

VARIABLES
    at,       \* where each runner is
    attempt,  \* the attempt its acquireModelLock is in
    saw,      \* the pid it read: a runner, or Nobody for no pid file
    dir,      \* who made the directory, or Nobody
    pid,      \* the pid file's content, or Nobody
    tmps,     \* the runners whose pid.<pid>.tmp the directory holds
    young,    \* the directory is younger than MODEL_LOCK_CREATING_MS
    late      \* the runners that were suspended in the middle of a call

vars == <<at, attempt, saw, dir, pid, tmps, young, late>>
directory == <<dir, pid, tmps, young>>

Live(r) == at[r] # "dead"
Dead == {r \in Runners : ~Live(r)}
Faulty == Dead \cup late
Holders == {r \in Runners : at[r] \in {"held", "unlink", "rmdir"}}
GoTo(r, where) == at' = [at EXCEPT ![r] = where]
Forget(r) == saw' = [saw EXCEPT ![r] = Nobody]
NoDirectory == dir' = Nobody /\ pid' = Nobody /\ tmps' = {} /\ young' = FALSE

Init ==
    /\ at = [r \in Runners |-> "out"]
    /\ attempt = [r \in Runners |-> 0]
    /\ saw = [r \in Runners |-> Nobody]
    /\ dir = Nobody /\ pid = Nobody /\ tmps = {} /\ young = FALSE
    /\ late = {}

Acquire(r) ==
    /\ at[r] = "out"
    /\ attempt' = [attempt EXCEPT ![r] = 1]
    /\ GoTo(r, "mkdir")
    /\ UNCHANGED <<saw, directory, late>>

Make(r) ==
    /\ at[r] = "mkdir" /\ dir = Nobody
    /\ dir' = r /\ young' = TRUE
    /\ GoTo(r, "write")
    /\ UNCHANGED <<attempt, saw, pid, tmps, late>>

\* writeFileSync and renameSync, by path: ENOENT makes the acquisition throw.
WriteTmp(r) ==
    /\ at[r] = "write"
    /\ IF dir = Nobody THEN GoTo(r, "out") /\ UNCHANGED directory
       ELSE /\ tmps' = tmps \cup {r} /\ young' = TRUE
            /\ GoTo(r, "rename")
            /\ UNCHANGED <<dir, pid>>
    /\ UNCHANGED <<attempt, saw, late>>

RenameTmp(r) ==
    /\ at[r] = "rename"
    /\ IF r \notin tmps THEN GoTo(r, "out") /\ UNCHANGED directory
       ELSE /\ tmps' = tmps \ {r} /\ pid' = r
            /\ GoTo(r, "held")
            /\ UNCHANGED <<dir, young>>
    /\ UNCHANGED <<attempt, saw, late>>

\* EEXIST, and the pid file is read.
ReadPid(r) ==
    /\ at[r] = "mkdir" /\ dir # Nobody
    /\ saw' = [saw EXCEPT ![r] = pid]
    /\ GoTo(r, "judge")
    /\ UNCHANGED <<attempt, directory, late>>

\* Mutation of StillCreated: a directory without a pid is always a wreck.
NeverCreated == FALSE

StillCreated == young

\* Mutation of HeldBy: the pid's process is not looked for.
AnyPid(r) == saw[r] # Nobody

\* The pid read belongs to another live runner.
HeldBy(r) == saw[r] \notin {r, Nobody} /\ Live(saw[r])

\* Held, or being created: false.
Refused(r) ==
    /\ at[r] = "judge"
    /\ HeldBy(r) \/ (saw[r] = Nobody /\ dir # Nobody /\ StillCreated)
    /\ GoTo(r, "out")
    /\ Forget(r)
    /\ UNCHANGED <<attempt, directory, late>>

Judged(r) ==
    /\ at[r] = "judge"
    /\ ~HeldBy(r)
    /\ saw[r] = Nobody => dir # Nobody /\ ~StillCreated
    /\ GoTo(r, "take")
    /\ Forget(r)
    /\ UNCHANGED <<attempt, directory, late>>

TryAgain(r) ==
    IF attempt[r] < MaxAttempts
      THEN GoTo(r, "mkdir") /\ attempt' = [attempt EXCEPT ![r] = @ + 1]
      ELSE GoTo(r, "out") /\ UNCHANGED attempt

\* stat finds no directory: released meanwhile.
Vanished(r) ==
    /\ at[r] = "judge" /\ saw[r] = Nobody /\ dir = Nobody
    /\ TryAgain(r)
    /\ UNCHANGED <<saw, directory, late>>

\* takeAway: a leftover temporary file makes its rmdirSync throw, after the
\* directory has gone from the lock's path.
TakeAway(r) ==
    /\ at[r] = "take"
    /\ IF tmps = {} THEN TryAgain(r) ELSE GoTo(r, "out") /\ UNCHANGED attempt
    /\ NoDirectory
    /\ UNCHANGED <<saw, late>>

\* releaseModelLock: the pid read is this process's, or the lock is left alone.
Release(r) ==
    /\ at[r] = "held"
    /\ GoTo(r, IF pid = r THEN "unlink" ELSE "out")
    /\ UNCHANGED <<attempt, saw, directory, late>>

Unlink(r) ==
    /\ at[r] = "unlink"
    /\ pid' = Nobody
    /\ GoTo(r, IF pid = Nobody THEN "out" ELSE "rmdir")
    /\ young' = (young \/ pid # Nobody)
    /\ UNCHANGED <<attempt, saw, dir, tmps, late>>

RemoveDirectory(r) ==
    /\ at[r] = "rmdir"
    /\ IF pid = Nobody /\ tmps = {} THEN NoDirectory ELSE UNCHANGED directory
    /\ GoTo(r, "out")
    /\ UNCHANGED <<attempt, saw, late>>

Crash(r) ==
    /\ Live(r) /\ at[r] # "out"
    /\ Cardinality(Faulty \cup {r}) <= MaxFaults
    /\ GoTo(r, "dead")
    /\ UNCHANGED <<attempt, saw, directory, late>>

\* 5 seconds: a live runner that is between two file system calls, whether it
\* creates the lock, judges it or removes it, was suspended.
Ages ==
    /\ dir # Nobody /\ young
    /\ late' = late \cup {r \in Runners : at[r] \notin {"out", "held", "dead"}}
    /\ Cardinality(Dead \cup late') <= MaxFaults
    /\ young' = FALSE
    /\ UNCHANGED <<at, attempt, saw, dir, pid, tmps>>

Step(r) ==
    \/ Make(r) \/ WriteTmp(r) \/ RenameTmp(r) \/ ReadPid(r) \/ Refused(r)
    \/ Judged(r) \/ Vanished(r) \/ TakeAway(r) \/ Unlink(r)
    \/ RemoveDirectory(r)

Next == \/ \E r \in Runners : Acquire(r) \/ Step(r) \/ Release(r) \/ Crash(r)
        \/ Ages

Spec == Init /\ [][Next]_vars

\* A live runner goes on, and one that did not get the lock comes back (the
\* broker starts a runner while it holds jobs for the model), after more than
\* the 5 seconds a directory needs to grow old.
Fairness ==
    /\ \A r \in Runners : WF_vars(Step(r)) /\ WF_vars(Release(r))
                          /\ WF_vars(Acquire(r))
    /\ SF_vars(Ages /\ late' = late)

FairSpec == Spec /\ Fairness

-----------------------------------------------------------------------------

\* The types, and that files and an age belong to a directory.
TypeOK ==
    /\ at \in [Runners -> {"out", "mkdir", "write", "rename", "judge", "take",
                           "held", "unlink", "rmdir", "dead"}]
    /\ attempt \in [Runners -> 0..MaxAttempts]
    /\ saw \in [Runners -> Runners \cup {Nobody}]
    /\ dir \in Runners \cup {Nobody} /\ pid \in Runners \cup {Nobody}
    /\ tmps \subseteq Runners /\ late \subseteq Runners
    /\ young \in BOOLEAN
    /\ dir = Nobody => pid = Nobody /\ tmps = {} /\ ~young

\* While no runner is killed or suspended, one of them calibrates the model:
\* a runner never takes a lock that is being created for a wreck.
OneCalibration == Faulty = {} => \A r, s \in Holders : r = s

\* A wreck, with a dead pid, with none or with a leftover temporary file,
\* never keeps the model from being calibrated: the one runner that is left
\* (calibrator.lock leaves one) comes back and removes it.
Leftover(r, s) == dir = r /\ Runners \ Dead = {s} /\ r # s
Passed(r, s) == dir # r \/ ~Live(s)

WreckGoes == \A r, s \in Runners : Leftover(r, s) ~> Passed(r, s)
=============================================================================
