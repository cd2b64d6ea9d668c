------------------------------ MODULE StateLock ------------------------------
(***************************************************************************)
(* calibration/state.lock (withStateLock in calibration/state.ts): the     *)
(* lock the boot trigger, the broker, models calibrate and the runner take *)
(* around the calibration queue.  A directory that holds an owner file;    *)
(* one older than STATE_LOCK_STALE_MS is renamed away, whoever made it.    *)
(*                                                                         *)
(* Every file system call is a step of its own.  Nothing touches the       *)
(* directory while it is held, so a holder that is suspended is taken over *)
(* as a killed one is.                                                     *)
(***************************************************************************)
EXTENDS FiniteSets, Integers

CONSTANTS Processes, Nobody,
          MaxFaults   \* bound: processes killed, or suspended for STALE_MS

VARIABLES
    at,      \* where each process is in withStateLock
    dir,     \* who made the directory at the lock's path, or Nobody
    owner,   \* whose token its owner file holds, or Nobody
    stale,   \* its mtime is older than STATE_LOCK_STALE_MS
    late     \* the processes that were suspended too long

vars == <<at, dir, owner, stale, late>>

Live(p) == at[p] # "dead"
Dead == {p \in Processes : ~Live(p)}
Faulty == Dead \cup late
Holding(p) == at[p] \in {"write", "inside", "unlink", "rmdir"}
Inside == {p \in Processes : at[p] = "inside"}
Waiting(p) == at[p] \in {"mkdir", "stat", "take"}
GoTo(p, where) == at' = [at EXCEPT ![p] = where]
NoDirectory == dir' = Nobody /\ owner' = Nobody /\ stale' = FALSE

Init ==
    /\ at = [p \in Processes |-> "out"]
    /\ dir = Nobody /\ owner = Nobody /\ stale = FALSE
    /\ late = {}

Call(p) ==
    /\ at[p] = "out"
    /\ GoTo(p, "mkdir")
    /\ UNCHANGED <<dir, owner, stale, late>>

Make(p) ==
    /\ at[p] = "mkdir" /\ dir = Nobody
    /\ dir' = p
    /\ GoTo(p, "write")
    /\ UNCHANGED <<owner, stale, late>>

Exists(p) ==
    /\ at[p] = "mkdir" /\ dir # Nobody
    /\ GoTo(p, "stat")
    /\ UNCHANGED <<dir, owner, stale, late>>

\* The owner file, in whatever directory is at the path by now: a new file
\* renews the directory's mtime, an overwritten one does not.
WriteOwner(p) ==
    /\ at[p] = "write" /\ dir # Nobody
    /\ owner' = p
    /\ stale' = (stale /\ owner # Nobody)
    /\ GoTo(p, "inside")
    /\ UNCHANGED <<dir, late>>

\* ENOENT is not EEXIST: withStateLock throws and fn does not run.
WriteFails(p) ==
    /\ at[p] = "write" /\ dir = Nobody
    /\ GoTo(p, "out")
    /\ UNCHANGED <<dir, owner, stale, late>>

\* Mutation of JudgedStale: every directory is.
AnyAge == TRUE

JudgedStale == stale

FoundStale(p) ==
    /\ at[p] = "stat" /\ dir # Nobody /\ JudgedStale
    /\ GoTo(p, "take")
    /\ UNCHANGED <<dir, owner, stale, late>>

\* A fresh directory (after a sleep), or none any more (at once).
FoundFresh(p) ==
    /\ at[p] = "stat" /\ (dir = Nobody \/ ~JudgedStale)
    /\ GoTo(p, "mkdir")
    /\ UNCHANGED <<dir, owner, stale, late>>

\* The deadline: withStateLock returns undefined.
TimeOut(p) ==
    /\ at[p] = "stat" /\ dir # Nobody /\ ~JudgedStale
    /\ GoTo(p, "out")
    /\ UNCHANGED <<dir, owner, stale, late>>

\* takeAway renames whatever directory is at the path by now.  What it does
\* to the renamed copy nobody else sees.
TakeAway(p) ==
    /\ at[p] = "take"
    /\ NoDirectory
    /\ GoTo(p, "mkdir")
    /\ UNCHANGED late

\* The token in the owner file is still this call's.
Recognised(p) == owner = p

\* fn ended; the lock of another is left alone.
ReadOwner(p) ==
    /\ at[p] = "inside"
    /\ GoTo(p, IF Recognised(p) THEN "unlink" ELSE "out")
    /\ UNCHANGED <<dir, owner, stale, late>>

\* unlinkSync, by path; ENOENT makes the call throw after fn has run.
UnlinkOwner(p) ==
    /\ at[p] = "unlink"
    /\ IF owner = Nobody
         THEN GoTo(p, "out") /\ UNCHANGED <<owner, stale>>
         ELSE GoTo(p, "rmdir") /\ owner' = Nobody /\ stale' = FALSE
    /\ UNCHANGED <<dir, late>>

\* rmdirSync; ENOENT, or ENOTEMPTY where another wrote its token meanwhile.
RemoveDirectory(p) ==
    /\ at[p] = "rmdir"
    /\ IF dir = Nobody \/ owner # Nobody THEN UNCHANGED <<dir, owner, stale>>
                                         ELSE NoDirectory
    /\ GoTo(p, "out")
    /\ UNCHANGED late

Crash(p) ==
    /\ Live(p) /\ at[p] # "out"
    /\ Cardinality(Faulty \cup {p}) <= MaxFaults
    /\ GoTo(p, "dead")
    /\ UNCHANGED <<dir, owner, stale, late>>

\* 30 seconds without a change: those that hold the lock meanwhile are dead
\* or were suspended.
Ages ==
    /\ dir # Nobody /\ ~stale
    /\ late' = late \cup {p \in Processes : Holding(p)}
    /\ Cardinality(Dead \cup late') <= MaxFaults
    /\ stale' = TRUE
    /\ UNCHANGED <<at, dir, owner>>

Step(p) ==
    \/ Make(p) \/ Exists(p) \/ WriteOwner(p) \/ WriteFails(p) \/ FoundStale(p)
    \/ FoundFresh(p) \/ TakeAway(p) \/ ReadOwner(p) \/ UnlinkOwner(p)
    \/ RemoveDirectory(p)

Next == \/ \E p \in Processes : Call(p) \/ Step(p) \/ TimeOut(p) \/ Crash(p)
        \/ Ages

Spec == Init /\ [][Next]_vars

\* A live process goes on, and a directory nobody works in grows old.
Fairness ==
    /\ \A p \in Processes : WF_vars(Step(p) \/ TimeOut(p))
    /\ WF_vars(Ages /\ late' = late)

FairSpec == Spec /\ Fairness

-----------------------------------------------------------------------------

\* The types, and that an owner file and an age belong to a directory.
TypeOK ==
    /\ at \in [Processes -> {"out", "mkdir", "write", "stat", "take",
                             "inside", "unlink", "rmdir", "dead"}]
    /\ dir \in Processes \cup {Nobody}
    /\ owner \in Processes \cup {Nobody}
    /\ stale \in BOOLEAN
    /\ late \subseteq Processes
    /\ dir = Nobody => owner = Nobody /\ ~stale

\* While nobody is killed or suspended for half a minute, one process at a
\* time reads and writes the queue.
ExclusiveWhenPrompt == Faulty = {} => \A p, q \in Inside : p = q

\* A prompt release never throws and always removes its directory: without
\* a fault the two calls after the reading find what was read.
PromptReleaseCompletes ==
    [][\A p \in Processes :
           Faulty = {} /\ at[p] \in {"unlink", "rmdir"}
             /\ at'[p] # at[p] /\ Live(p)'
           => \/ at[p] = "unlink" /\ owner = p /\ owner' = Nobody
              \/ at[p] = "rmdir" /\ dir = p /\ dir' = Nobody]_vars

\* What is left by a killed process, or by one whose release threw, never
\* blocks the queue for ever: it goes, or every waiter has given up.
Leftover(p) == dir = p /\ ~Holding(p)
Passed(p) == dir # p \/ Holding(p) \/ \A q \in Processes : ~Waiting(q)

AbandonedLockGoes == \A p \in Processes : Leftover(p) ~> Passed(p)
=============================================================================
