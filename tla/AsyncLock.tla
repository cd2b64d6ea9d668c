------------------------------ MODULE AsyncLock ------------------------------
(***************************************************************************)
(* The mkdir lock of the broker spawn and of the server registry           *)
(* (withAsyncLock in local-llama-server.ts), by processes that may be      *)
(* killed at any step and call it again and again.  mkdir, stat, rm and    *)
(* rmdir are one file system call each, and other processes run between    *)
(* them.                                                                   *)
(*                                                                         *)
(* A holder touches the directory three times per STALE_MS for as long as  *)
(* it lives, so the directory grows stale only while no live process       *)
(* believes it holds the lock.  A holder that is suspended for STALE_MS    *)
(* counts as killed here: that the timer fires is what the code relies on. *)
(***************************************************************************)
EXTENDS FiniteSets, Integers

CONSTANTS Processes, Nobody,
          MaxCrashes   \* bound: how many processes may be killed

ASSUME LockAssumption == Nobody \notin Processes /\ MaxCrashes \in Nat

VARIABLES
    at,      \* where each process is in withAsyncLock
    dir,     \* who made the lock directory, Nobody when it does not exist
    stale    \* its mtime is older than STALE_MS

vars == <<at, dir, stale>>

Live(p) == at[p] # "dead"
Inside == {p \in Processes : at[p] = "inside"}
Waiting(p) == at[p] \in {"mkdir", "stat", "remove"}
GoTo(p, where) == at' = [at EXCEPT ![p] = where]

Init ==
    /\ at = [p \in Processes |-> "out"]
    /\ dir = Nobody
    /\ stale = FALSE

Call(p) ==
    /\ at[p] = "out"
    /\ GoTo(p, "mkdir")
    /\ UNCHANGED <<dir, stale>>

\* mkdir succeeds: the process runs fn.
Acquire(p) ==
    /\ at[p] = "mkdir" /\ dir = Nobody
    /\ dir' = p
    /\ stale' = FALSE
    /\ GoTo(p, "inside")

\* EEXIST.
Exists(p) ==
    /\ at[p] = "mkdir" /\ dir # Nobody
    /\ GoTo(p, "stat")
    /\ UNCHANGED <<dir, stale>>

\* stat finds a stale directory, which the next call removes ...
FoundStale(p) ==
    /\ at[p] = "stat" /\ dir # Nobody /\ stale
    /\ GoTo(p, "remove")
    /\ UNCHANGED <<dir, stale>>

\* ... or a fresh one, or none: mkdir is tried again, after a sleep or at once.
FoundFresh(p) ==
    /\ at[p] = "stat" /\ (dir = Nobody \/ ~stale)
    /\ GoTo(p, "mkdir")
    /\ UNCHANGED <<dir, stale>>

\* LOCK_WAIT_MS passed: the call fails, it never runs fn without the lock.
TimeOut(p) ==
    /\ at[p] = "stat" /\ dir # Nobody /\ ~stale
    /\ GoTo(p, "out")
    /\ UNCHANGED <<dir, stale>>

\* rmSync of whatever is there by now.
Remove(p) ==
    /\ at[p] = "remove"
    /\ dir' = Nobody
    /\ stale' = FALSE
    /\ GoTo(p, "mkdir")

\* rmdirSync, whoever made the directory.
Release(p) == GoTo(p, "out") /\ dir' = Nobody /\ stale' = FALSE

Leave(p) == at[p] = "inside" /\ Release(p)

Crash(p) ==
    /\ Live(p) /\ at[p] # "out"
    /\ Cardinality({q \in Processes : ~Live(q)}) < MaxCrashes
    /\ GoTo(p, "dead")
    /\ UNCHANGED <<dir, stale>>

\* Mutation of NotRefreshed: no timer touches the directory.
NobodyRefreshes == TRUE

NotRefreshed == Inside = {}

Ages ==
    /\ dir # Nobody /\ ~stale /\ NotRefreshed
    /\ stale' = TRUE
    /\ UNCHANGED <<at, dir>>

Step(p) == \/ Acquire(p) \/ Exists(p) \/ FoundStale(p) \/ FoundFresh(p)
           \/ Remove(p)

Next == \/ \E p \in Processes : Call(p) \/ Step(p) \/ TimeOut(p) \/ Leave(p)
                                \/ Crash(p)
        \/ Ages

Spec == Init /\ [][Next]_vars

\* A live process goes on, fn ends, and an untouched directory grows old.
Fairness ==
    /\ \A p \in Processes : WF_vars(Step(p) \/ TimeOut(p)) /\ WF_vars(Leave(p))
    /\ WF_vars(Ages)

FairSpec == Spec /\ Fairness

-----------------------------------------------------------------------------

\* The types, and that a process with the lock has its directory while no
\* takeover went wrong.
TypeOK ==
    /\ at \in [Processes -> {"out", "mkdir", "stat", "remove", "inside",
                             "dead"}]
    /\ dir \in Processes \cup {Nobody}
    /\ stale \in BOOLEAN
    /\ dir = Nobody => ~stale
    /\ (\A p \in Processes : Live(p)) => {dir} \ {Nobody} = Inside

\* The guarantee the broker and the registry build on, for processes none of
\* which was killed: however slow a holder is, nobody takes its lock over.
ExclusiveWithoutCrash ==
    (\A p \in Processes : Live(p)) => \A p, q \in Inside : p = q

\* A killed holder never blocks the others for ever: its directory is taken
\* over (or every one that waited has given up).
Leftover(p) == dir = p /\ at[p] = "dead"
Passed(p) == dir # p \/ \A q \in Processes : ~Waiting(q)
Replaced(p) == Leftover(p) ~> Passed(p)

DeadHolderReplaced == \A p \in Processes : Replaced(p)
=============================================================================
