------------------------------ MODULE BenchLock ------------------------------
(***************************************************************************)
(* The lock of a background benchmark (bench-lock.ts) and the spawn under  *)
(* it (spawnDetachedBench in bench-spawn.ts): a file with a pid, created   *)
(* by link, first stamped by the claiming process, then, when the child is *)
(* spawned, with the pid of the child, which removes it when it ends.      *)
(* Each claimer claims once; the file may be there already, left by a run  *)
(* that died.  Every stamp is a file of its own, which expires by itself.  *)
(***************************************************************************)
EXTENDS FiniteSets, Integers

CONSTANTS Claimers,
          Gone,         \* the pid of the run that died
          Absent,       \* no lock file
          MaxFaults     \* bound: claimers and children killed, files past the TTL

VARIABLES
    at,       \* where each claimer is; "running": its child runs
    seen,     \* the pid each read before it judged the lock
    asked,    \* the pid each is about to signal
    path,     \* the pid in the lock file, or Absent
    stolen,   \* the pid in the file each renamed away
    expired,  \* stamps older than BENCH_LOCK_TTL_MS
    exited,   \* claimers whose process is over
    faults,
    lapses    \* live runs whose lock stopped speaking for them

vars == <<at, seen, asked, path, stolen, expired, exited, faults, lapses>>

\* The pid of the detached child a claimer spawns.
Child(p) == <<p>>

Pids == Claimers \cup {Child(p) : p \in Claimers} \cup {Gone}

\* kill(pid, 0)
Alive(pid) == \E p \in Claimers :
    \/ pid = p /\ p \notin exited
    \/ pid = Child(p) /\ at[p] \in {"running", "unlink"}

\* The stamp under which a run is about to start, or runs.
Guards(pid) == \E p \in Claimers :
    \/ pid = p /\ at[p] \in {"won", "spawned"}
    \/ pid = Child(p) /\ at[p] \in {"running", "unlink"}

GoTo(p, where) == at' = [at EXCEPT ![p] = where]

Init ==
    /\ at = [p \in Claimers |-> "first"]
    /\ seen = [p \in Claimers |-> Absent]
    /\ asked = [p \in Claimers |-> Absent]
    /\ path \in {Absent, Gone}
    /\ stolen = [p \in Claimers |-> Absent]
    /\ expired = {} /\ exited = {}
    /\ faults = 0 /\ lapses = 0

-----------------------------------------------------------------------------
(* claimBenchLock. *)

\* linkSync publishes the file with its content, or fails with EEXIST.
Create(p) ==
    /\ at[p] \in {"first", "second"} /\ path = Absent
    /\ path' = p
    /\ GoTo(p, "won")
    /\ UNCHANGED <<seen, asked, stolen, expired, exited, faults, lapses>>

Exists(p) ==
    /\ at[p] \in {"first", "second"} /\ path # Absent
    /\ GoTo(p, IF at[p] = "first" THEN "observe" ELSE "lost")
    /\ UNCHANGED <<seen, asked, path, stolen, expired, exited, faults, lapses>>

Observe(p) ==
    /\ at[p] = "observe"
    /\ seen' = [seen EXCEPT ![p] = path]
    /\ GoTo(p, "judge")
    /\ UNCHANGED <<asked, path, stolen, expired, exited, faults, lapses>>

\* benchLockIsHeld looks at the file again, first at its age.
Judge(p) ==
    /\ at[p] = "judge"
    /\ GoTo(p, IF path = Absent \/ path \in expired THEN "rename" ELSE "probe")
    /\ UNCHANGED <<seen, asked, path, stolen, expired, exited, faults, lapses>>

\* Then at its pid,
Probe(p) ==
    /\ at[p] = "probe"
    /\ asked' = [asked EXCEPT ![p] = path]
    /\ GoTo(p, IF path = Absent THEN "rename" ELSE "signal")
    /\ UNCHANGED <<seen, path, stolen, expired, exited, faults, lapses>>

\* whose process may have ended since.
Signal(p) ==
    /\ at[p] = "signal"
    /\ asked' = [asked EXCEPT ![p] = Absent]
    /\ GoTo(p, IF Alive(asked[p]) THEN "lost" ELSE "rename")
    /\ UNCHANGED <<seen, path, stolen, expired, exited, faults, lapses>>

\* Mutation of JudgedOne: whatever was renamed away is taken for stale.
Whatever(p) == TRUE

\* The file to rename away is the one that was judged.
JudgedOne(p) == path = seen[p]

\* ENOENT: somebody else acted first.
Rename(p) ==
    /\ at[p] = "rename"
    /\ IF path = Absent
         THEN GoTo(p, "lost") /\ UNCHANGED <<path, stolen>>
         ELSE /\ path' = Absent
              /\ IF JudgedOne(p)
                   THEN GoTo(p, "second") /\ UNCHANGED stolen
                   ELSE GoTo(p, "restore") /\ stolen' = [stolen EXCEPT ![p] = path]
    /\ seen' = [seen EXCEPT ![p] = Absent]
    /\ UNCHANGED <<asked, expired, exited, faults, lapses>>

\* linkSync again, of the same file: a claim made meanwhile stays.
Restore(p) ==
    /\ at[p] = "restore"
    /\ path' = IF path = Absent THEN stolen[p] ELSE path
    /\ GoTo(p, "lost")
    /\ UNCHANGED <<seen, asked, stolen, expired, exited, faults, lapses>>

-----------------------------------------------------------------------------
(* spawnDetachedBench. *)

\* The log cannot be opened or spawn throws: releaseBenchLock, whosever it is.
Fail(p) ==
    /\ at[p] = "won"
    /\ path' = Absent
    /\ GoTo(p, "failed")
    /\ UNCHANGED <<seen, asked, stolen, expired, exited, faults, lapses>>

Spawn(p) ==
    /\ at[p] = "won"
    /\ GoTo(p, "spawned")
    /\ UNCHANGED <<seen, asked, path, stolen, expired, exited, faults, lapses>>

\* The child is over before the lock has its pid: its exit hook declines.
EndsEarly(p) ==
    /\ at[p] = "spawned"
    /\ GoTo(p, "early")
    /\ UNCHANGED <<seen, asked, path, stolen, expired, exited, faults, lapses>>

\* commitBenchLock: a new file replaces whatever is there.
Commit(p) ==
    /\ at[p] \in {"spawned", "early"}
    /\ path' = Child(p)
    /\ GoTo(p, IF at[p] = "early" THEN "ended" ELSE "running")
    /\ UNCHANGED <<seen, asked, stolen, expired, exited, faults, lapses>>

\* spawn gave no pid: the lock is released at once,
NoPid(p) ==
    /\ at[p] = "won"
    /\ path' = Absent
    /\ GoTo(p, "errored")
    /\ UNCHANGED <<seen, asked, stolen, expired, exited, faults, lapses>>

\* and again by the listener of the error, if it looks like its own.
Listen(p) ==
    /\ at[p] = "errored"
    /\ GoTo(p, IF path \in {Absent, p} THEN "release" ELSE "failed")
    /\ UNCHANGED <<seen, asked, path, stolen, expired, exited, faults, lapses>>

Release(p) ==
    /\ at[p] = "release"
    /\ path' = Absent
    /\ GoTo(p, "failed")
    /\ UNCHANGED <<seen, asked, stolen, expired, exited, faults, lapses>>

\* A file has this pid, in its place or in the hands of who renamed it.
Stamped(pid) == \/ pid = path
                \/ \E p \in Claimers : at[p] = "restore" /\ pid = stolen[p]

\* The claimer goes on to its own end, while its child runs or after it: of
\* interest as long as anybody can ask for it.
Exit(p) ==
    /\ at[p] \in {"running", "unlink", "ended", "failed", "dead"} /\ p \notin exited
    /\ Stamped(p) \/ \E q \in Claimers : asked[q] = p
    /\ exited' = exited \cup {p}
    /\ UNCHANGED <<at, seen, asked, path, stolen, expired, faults, lapses>>

-----------------------------------------------------------------------------
(* The child, and what happens to all of them. *)

\* The exit hook of the child: the stamp is its own.
Ours(p) == path = Child(p)

Ends(p) ==
    /\ at[p] = "running"
    /\ GoTo(p, IF Ours(p) THEN "unlink" ELSE "ended")
    /\ UNCHANGED <<seen, asked, path, stolen, expired, exited, faults, lapses>>

Unlink(p) ==
    /\ at[p] = "unlink"
    /\ path' = Absent
    /\ GoTo(p, "ended")
    /\ UNCHANGED <<seen, asked, stolen, expired, exited, faults, lapses>>

\* The child is killed; before it is stamped, the claimer.
Crash(p) ==
    /\ at[p] \notin {"spawned", "lost", "failed", "ended", "dead"}
    /\ faults < MaxFaults
    /\ faults' = faults + 1
    /\ exited' = IF at[p] \in {"running", "unlink"} THEN exited ELSE exited \cup {p}
    /\ GoTo(p, "dead")
    /\ UNCHANGED <<seen, asked, path, stolen, expired, lapses>>

\* The claimer is killed with its child spawned: the child runs on under the
\* stamp of a dead process.
Orphan(p) ==
    /\ at[p] = "spawned" /\ faults < MaxFaults
    /\ faults' = faults + 1 /\ lapses' = lapses + 1
    /\ exited' = exited \cup {p}
    /\ GoTo(p, "running")
    /\ UNCHANGED <<seen, asked, path, stolen, expired>>

\* A file passes the TTL.
Expire(pid) ==
    /\ Stamped(pid) /\ pid \notin expired /\ Alive(pid)
    /\ faults < MaxFaults
    /\ faults' = faults + 1
    /\ expired' = expired \cup {pid}
    /\ lapses' = IF Guards(pid) THEN lapses + 1 ELSE lapses
    /\ UNCHANGED <<at, seen, asked, path, stolen, exited>>

Next ==
    \/ \E p \in Claimers :
        \/ Create(p) \/ Exists(p) \/ Observe(p) \/ Judge(p) \/ Probe(p)
        \/ Signal(p) \/ Rename(p) \/ Restore(p)
        \/ Fail(p) \/ Spawn(p) \/ EndsEarly(p) \/ Commit(p) \/ NoPid(p)
        \/ Listen(p) \/ Release(p) \/ Exit(p)
        \/ Ends(p) \/ Unlink(p) \/ Crash(p) \/ Orphan(p)
    \/ \E pid \in Pids : Expire(pid)

Spec == Init /\ [][Next]_vars

-----------------------------------------------------------------------------

Winners == {p \in Claimers : at[p] \in {"won", "spawned", "running", "unlink"}}

\* The types.
TypeOK ==
    /\ at \in [Claimers -> {"first", "second", "observe", "judge", "probe", "signal",
                            "rename", "restore", "won", "spawned", "running", "unlink",
                            "early", "errored", "release", "ended", "lost", "failed",
                            "dead"}]
    /\ seen \in [Claimers -> Pids \cup {Absent}]
    /\ asked \in [Claimers -> Pids \cup {Absent}]
    /\ stolen \in [Claimers -> Pids \cup {Absent}]
    /\ path \in Pids \cup {Absent}
    /\ expired \subseteq Pids /\ exited \subseteq Claimers
    /\ faults \in 0..MaxFaults /\ lapses \in Nat

\* "With n concurrent claimers winners <= (n+1)/2": how many benchmarks run
\* at once, as long as no live run loses its lock to its age or to the death of
\* its claimer; and "at most one duplicate benchmark" for each that does.
WinnersBounded ==
    2 * Cardinality(Winners) <= Cardinality({p \in Claimers : at[p] # "first"}) + 1 + lapses

\* The gaps in which the lock is away never make every claimer lose: one
\* has won when all have given up.
SomebodyWins == \E p \in Claimers : at[p] # "lost"
=============================================================================
