------------------------------ MODULE MkdirLock ------------------------------
(***************************************************************************)
(* withMkdirLock (mkdir-lock.ts) around a read-modify-write of a JSON      *)
(* sidecar: the paid benchmark ledger, the dynamic profile state, the      *)
(* candidate queue.  Synchronous, without an owner: a directory older than *)
(* STALE_MS is removed, and a caller that has waited WAIT_MS runs fn       *)
(* without the lock.                                                       *)
(***************************************************************************)
EXTENDS FiniteSets, Integers

CONSTANTS Processes, Nobody,
          MaxFaults   \* bound: processes killed, or suspended for STALE_MS

VARIABLES
    writable,  \* the lock's parent directory is there and can be written
    at,        \* where each process is in withMkdirLock
    dir,       \* who made the lock directory, or Nobody
    stale,     \* its mtime is older than STALE_MS
    late,      \* the processes that were suspended too long
    unlocked,  \* those that ran fn without the lock
    read,      \* the updates in the sidecar each has read
    file       \* the updates in the sidecar: the processes that made one

vars == <<writable, at, dir, stale, late, unlocked, read, file>>

Live(p) == at[p] # "dead"
Dead == {p \in Processes : ~Live(p)}
Locked(p) == at[p] \in {"inside", "write", "release"} /\ p \notin unlocked
GoTo(p, where) == at' = [at EXCEPT ![p] = where]

Init ==
    /\ writable \in BOOLEAN
    /\ at = [p \in Processes |-> "out"]
    /\ dir = Nobody /\ stale = FALSE
    /\ late = {} /\ unlocked = {}
    /\ read = [p \in Processes |-> {}]
    /\ file = {}

Call(p) ==
    /\ at[p] = "out"
    /\ GoTo(p, "mkdir")
    /\ UNCHANGED <<writable, dir, stale, late, unlocked, read, file>>

Acquire(p) ==
    /\ at[p] = "mkdir" /\ dir = Nobody /\ writable
    /\ dir' = p
    /\ GoTo(p, "inside")
    /\ UNCHANGED <<writable, stale, late, unlocked, read, file>>

\* EEXIST, or any other error.
MakeFails(p) ==
    /\ at[p] = "mkdir" /\ (dir # Nobody \/ ~writable)
    /\ GoTo(p, "stat")
    /\ UNCHANGED <<writable, dir, stale, late, unlocked, read, file>>

\* Mutation of JudgedStale: every directory is old enough.
AnyAge == TRUE

JudgedStale == stale

FoundStale(p) ==
    /\ at[p] = "stat" /\ dir # Nobody /\ JudgedStale
    /\ GoTo(p, "remove")
    /\ UNCHANGED <<writable, dir, stale, late, unlocked, read, file>>

\* rmSync of whatever is at the path by now; the deadline is looked at next.
Remove(p) ==
    /\ at[p] = "remove"
    /\ dir' = Nobody /\ stale' = FALSE
    /\ GoTo(p, "late")
    /\ UNCHANGED <<writable, late, unlocked, read, file>>

\* A fresh directory, or none (stat throws); the deadline is looked at next.
FoundFresh(p) ==
    /\ at[p] = "stat" /\ (dir = Nobody \/ ~JudgedStale)
    /\ GoTo(p, "late")
    /\ UNCHANGED <<writable, dir, stale, late, unlocked, read, file>>

Retry(p) ==
    /\ at[p] = "late"
    /\ GoTo(p, "mkdir")
    /\ UNCHANGED <<writable, dir, stale, late, unlocked, read, file>>

\* The deadline has passed: fn runs beside the holder.
GiveUp(p) ==
    /\ at[p] = "late"
    /\ unlocked' = unlocked \cup {p}
    /\ GoTo(p, "inside")
    /\ UNCHANGED <<writable, dir, stale, late, read, file>>

Read(p) ==
    /\ at[p] = "inside"
    /\ read' = [read EXCEPT ![p] = file]
    /\ GoTo(p, "write")
    /\ UNCHANGED <<writable, dir, stale, late, unlocked, file>>

\* The whole file is replaced, by a rename.
Write(p) ==
    /\ at[p] = "write"
    /\ file' = IF writable THEN read[p] \cup {p} ELSE file
    /\ read' = [read EXCEPT ![p] = {}]
    /\ GoTo(p, "release")
    /\ UNCHANGED <<writable, dir, stale, late, unlocked>>

\* This call made a directory (not: the directory is the one it made).
Mine(p) == p \notin unlocked

\* rmdirSync, whoever made the directory that is there by now.
Release(p) ==
    /\ at[p] = "release"
    /\ IF Mine(p) THEN dir' = Nobody /\ stale' = FALSE
                  ELSE UNCHANGED <<dir, stale>>
    /\ GoTo(p, "done")
    /\ UNCHANGED <<writable, late, unlocked, read, file>>

Crash(p) ==
    /\ at[p] \notin {"out", "done", "dead"}
    /\ Cardinality(Dead \cup late \cup {p}) <= MaxFaults
    /\ GoTo(p, "dead")
    /\ UNCHANGED <<writable, dir, stale, late, unlocked, read, file>>

Ages ==
    /\ dir # Nobody /\ ~stale
    /\ late' = late \cup {p \in Processes : Locked(p)}
    /\ Cardinality(Dead \cup late') <= MaxFaults
    /\ stale' = TRUE
    /\ UNCHANGED <<writable, at, dir, unlocked, read, file>>

Step(p) == \/ Acquire(p) \/ MakeFails(p) \/ FoundStale(p) \/ Remove(p)
           \/ FoundFresh(p) \/ Retry(p) \/ Read(p) \/ Write(p) \/ Release(p)

Next == \/ \E p \in Processes : Call(p) \/ Step(p) \/ GiveUp(p) \/ Crash(p)
        \/ Ages

Spec == Init /\ [][Next]_vars

\* A live process goes on, and its deadline passes.
Fairness == \A p \in Processes : WF_vars(Step(p)) /\ SF_vars(GiveUp(p))

FairSpec == Spec /\ Fairness

-----------------------------------------------------------------------------

\* The types, and that an age belongs to a directory.
TypeOK ==
    /\ writable \in BOOLEAN
    /\ at \in [Processes -> {"out", "mkdir", "stat", "remove", "late",
                             "inside", "write", "release", "done", "dead"}]
    /\ dir \in Processes \cup {Nobody}
    /\ stale \in BOOLEAN
    /\ late \subseteq Processes /\ unlocked \subseteq Processes
    /\ read \in [Processes -> SUBSET Processes]
    /\ file \subseteq Processes
    /\ dir = Nobody => ~stale

Updated(p) == at[p] \in {"release", "done"}

\* No update of the sidecar is lost while nobody is killed or suspended and
\* nobody ran without the lock: waiting, judging and releasing lose nothing.
NoUpdateLost ==
    writable /\ Dead \cup late \cup unlocked = {}
    => \A p \in Processes : Updated(p) => p \in file

\* A call that ran without the lock never takes it from the others: without
\* a fault, calls that made the directory still exclude each other.
UnlockedSparesLock ==
    Dead \cup late = {} => \A p, q \in Processes : Locked(p) /\ Locked(q)
                                                   => p = q

\* Every call ends, whatever is at the lock's path, and also where it can
\* never be made: a maintenance step may not hang the command it runs in.
Waits(p) == at[p] = "mkdir"
Over(p) == at[p] \in {"done", "dead"}

EveryCallEnds == \A p \in Processes : Waits(p) ~> Over(p)
=============================================================================
