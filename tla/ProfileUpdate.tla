---------------------------- MODULE ProfileUpdate ----------------------------
(***************************************************************************)
(* The background update of one generated profile (free or paid): commands *)
(* whose models all failed ask for it (requestProfileUpdate) and wait for  *)
(* its outcome (waitForProfileUpdate); a detached child holds the          *)
(* profile's lock and runs a plain detection, the requested update, or the *)
(* benchmark it handed the lock to.  A command that finds the lock held    *)
(* leaves its request in a marker.  The lock is BenchLock's, taken for     *)
(* exclusive here: the child that holds it, or None.                       *)
(*                                                                         *)
(* Time is a clock that ticks, slower than the steps of a process: what    *)
(* the code compares are the stamps of the records and the requests.       *)
(***************************************************************************)
EXTENDS Integers

CONSTANTS Commands, None,
          Respawn,     \* PROFILE_UPDATE_RESPAWN_MS
          Backoff,     \* the first BACKOFF_MS
          MaxTime,     \* bound: how long the clock runs
          MaxPlain,    \* bound: plain detections
          MaxCrashes   \* bound: children that die or throw

VARIABLES
    now,
    \* the commands
    at, base,      \* where each command is, and its UpdateBaseline
    role,          \* "started" or "running", as the command was answered
    heldSeen,      \* the lock as its poll found it
    \* the child, and the disk
    child,         \* the lock's holder: where it is, since when, started by
                   \* which command (None: a plain detection); or None
    marker,        \* background-update-<profile>.requested
    lastBench, lastMaint, lastFail,
    plains, crashes,
    \* history: the commands whose own update was over before its stamp, and
    \* those whose request a detection has still to honour
    unbooked, owed

commandVars == <<at, base, role, heldSeen>>
records == <<lastBench, lastMaint, lastFail>>
bounds == <<plains, crashes>>
history == <<unbooked, owed>>
vars == <<now, commandVars, child, marker, records, bounds, history>>

Waiting == {c \in Commands : at[c] \in {"waiting", "reading"}}
GoTo(c, where) == at' = [at EXCEPT ![c] = where]

Init ==
    /\ now = Respawn + 1
    /\ at = [c \in Commands |-> "idle"]
    /\ base = [c \in Commands |-> 0]
    /\ role = [c \in Commands |-> None]
    /\ heldSeen = [c \in Commands |-> FALSE]
    /\ child = None /\ marker = None
    /\ lastBench = 0 /\ lastMaint = 0 /\ lastFail = 0
    /\ plains = 0 /\ crashes = 0
    /\ unbooked = {} /\ owed = {}

-----------------------------------------------------------------------------
(* What the records say *)

\* lastUpdateFinishedMs; 0 when never.
LastFinished == IF lastBench > lastMaint THEN lastBench ELSE lastMaint

\* profileUpdateRequestPending
Pending == IF marker = None THEN FALSE ELSE LastFinished < marker

\* failureBackoffActive: cooldownUntil is set with lastFail.
BackoffActive(t) == lastFail > 0 /\ t < lastFail + Backoff

Recent(t) == LastFinished > 0 /\ t - LastFinished < Respawn

-----------------------------------------------------------------------------
(* A command *)

\* Mutation of BaselineTaken: taken when the wait begins.
BaselineAfter(c) == base[c] = 0 /\ at[c] = "waiting"

\* takeUpdateBaseline, before the request.
BaselineTaken(c) == at[c] = "idle"

Baseline(c) == base' = IF BaselineTaken(c) THEN [base EXCEPT ![c] = now] ELSE base

\* requestProfileUpdate: the lock first.
Ask(c) ==
    /\ at[c] = "idle"
    /\ Baseline(c)
    /\ GoTo(c, IF child # None THEN "marking" ELSE "judging")
    /\ UNCHANGED <<now, role, heldSeen, child, marker, records, bounds, history>>

\* A plain detection that has yet to look at the marker for the last time.
Looking == IF child = None THEN FALSE
           ELSE child.at \in {"started", "detecting", "detected"} /\ child.by = None

\* The request is left for the lock's holder, which may be gone by now; it has
\* the time at which the command asked.
Mark(c) ==
    /\ at[c] = "marking"
    /\ marker' = base[c]
    /\ role' = [role EXCEPT ![c] = "running"]
    /\ owed' = IF Looking THEN owed \cup {c} ELSE owed
    /\ GoTo(c, "waiting")
    /\ UNCHANGED <<now, base, heldSeen, child, records, bounds, unbooked>>

\* The throttles; a pending request skips the window, not the backoff.
Judge(c) ==
    /\ at[c] = "judging"
    /\ GoTo(c, IF BackoffActive(base[c]) \/ (~Pending /\ Recent(base[c]))
                 THEN "recent" ELSE "claiming")
    /\ UNCHANGED <<now, base, role, heldSeen, child, marker, records, bounds,
                   history>>

\* spawnDetachedDetector: the lock, and a child that starts later.
Spawned(by) == child' = [at |-> "started", since |-> now, by |-> by]

Claim(c) ==
    /\ at[c] = "claiming"
    /\ IF child = None
         THEN /\ Spawned(c)
              /\ role' = [role EXCEPT ![c] = "started"]
              /\ GoTo(c, "waiting")
         ELSE GoTo(c, "refused") /\ UNCHANGED <<child, role>>
    /\ UNCHANGED <<now, base, heldSeen, marker, records, bounds, history>>

\* The claim was lost to another spawner.
Refused(c) ==
    /\ at[c] = "refused"
    /\ GoTo(c, IF child # None THEN "marking" ELSE "unavailable")
    /\ UNCHANGED <<now, base, role, heldSeen, child, marker, records, bounds,
                   history>>

\* A poll reads the lock before the records.
Look(c) ==
    /\ at[c] = "waiting"
    /\ Baseline(c)
    /\ heldSeen' = [heldSeen EXCEPT ![c] = child # None]
    /\ GoTo(c, "reading")
    /\ UNCHANGED <<now, role, child, marker, records, bounds, history>>

\* readOutcome
Outcome(c) ==
    IF lastFail >= base[c] THEN "failed"
    ELSE IF lastBench >= base[c] THEN "rebenchmarked"
    ELSE IF heldSeen[c] THEN "waiting"
    ELSE IF lastMaint >= base[c] THEN "pruned" ELSE "ended"

\* Where it is still pending, another poll or the limit.
Read(c) ==
    /\ at[c] = "reading"
    /\ \/ GoTo(c, Outcome(c))
       \/ Outcome(c) = "waiting" /\ GoTo(c, "late")
    /\ UNCHANGED <<now, base, role, heldSeen, child, marker, records, bounds,
                   history>>

-----------------------------------------------------------------------------
(* The child *)

\* A command that dispatches starts a plain detection.
Detector ==
    /\ child = None /\ plains < MaxPlain
    /\ plains' = plains + 1
    /\ Spawned(None)
    /\ UNCHANGED <<now, commandVars, marker, records, crashes, history>>

ChildAt(where) == IF child = None THEN FALSE ELSE child.at = where
Child(where) == child' = [child EXCEPT !.at = where]

\* An update begins: it serves every request made so far.
Updating(since) ==
    /\ child' = [child EXCEPT !.at = "updating", !.since = since]
    /\ marker' = None
    /\ owed' = {}

\* takeProfileUpdateRequest: nothing is pending, it waits out the backoff, or
\* it is taken.
Take(where, since) ==
    IF Pending /\ ~BackoffActive(since) THEN Updating(since)
    ELSE /\ child' = [child EXCEPT !.at = where, !.since = since]
         /\ marker' = IF Pending THEN marker ELSE None
         /\ owed' = {}

\* detectProfileChanges; nowMs is the time the child starts.
Start ==
    /\ ChildAt("started")
    /\ IF child.by # None THEN Updating(now) ELSE Take("detecting", now)
    /\ UNCHANGED <<now, commandVars, records, bounds, unbooked>>

\* detectOnce: throttled, no change, or a benchmark that is refused; or a
\* change, and the lock goes to the benchmark, which is the update.
Detect ==
    /\ ChildAt("detecting")
    /\ \/ Child("detected") /\ UNCHANGED owed
       \/ Child("benchmark") /\ owed' = {}
    /\ UNCHANGED <<now, commandVars, marker, records, bounds, unbooked>>

\* Mutation of LastLook: the marker is looked at once, before the detection.
OneLook == /\ Child("leaving")
           /\ UNCHANGED <<marker, owed>>

\* The marker is looked at again before the lock is released.
LastLook == Take("leaving", child.since)

Detected ==
    /\ ChildAt("detected")
    /\ LastLook
    /\ UNCHANGED <<now, commandVars, records, bounds, unbooked>>

\* The maintainer pass stamps its own start.
Maintained ==
    /\ ChildAt("updating")
    /\ lastMaint' = child.since
    /\ Child("maintained")
    /\ UNCHANGED <<now, commandVars, marker, lastBench, lastFail, bounds, history>>

\* The pass ends before its stamp: no settings.yaml; or a section that it leaves
\* to the user or to a concurrent fix, or something that throws, and then the
\* requests made meanwhile are consumed.
Unstamped ==
    /\ ChildAt("updating")
    /\ Child("leaving")
    /\ marker' \in {marker, None}
    /\ unbooked' = unbooked \cup ({child.by} \ {None})
    /\ UNCHANGED <<now, commandVars, records, bounds, owed>>

\* The lock goes to the benchmark; or the pass was all, and the requests made
\* meanwhile are consumed.
HandOver ==
    /\ ChildAt("maintained")
    /\ \/ Child("benchmark") /\ UNCHANGED marker
       \/ Child("leaving") /\ marker' = None
    /\ UNCHANGED <<now, commandVars, records, bounds, history>>

\* A failure is recorded; or a success, in two files; or the benchmark refuses
\* or throws, and leaves no record.
Benchmark ==
    /\ ChildAt("benchmark")
    /\ \/ lastFail' = now /\ Child("leaving")
       \/ lastFail' = 0 /\ Child("banked")
       \/ UNCHANGED lastFail /\ Child("leaving")
    /\ UNCHANGED <<now, commandVars, marker, lastBench, lastMaint, bounds, history>>

Banked ==
    /\ ChildAt("banked")
    /\ lastBench' = now
    /\ Child("leaving")
    /\ UNCHANGED <<now, commandVars, marker, lastMaint, lastFail, bounds, history>>

Exit ==
    /\ ChildAt("leaving")
    /\ child' = None
    /\ UNCHANGED <<now, commandVars, marker, records, bounds, history>>

\* The child is killed, or throws: the lock is free with its process gone.
Crash ==
    /\ child # None /\ ~ChildAt("leaving") /\ crashes < MaxCrashes
    /\ crashes' = crashes + 1
    /\ child' = None
    /\ unbooked' = IF ChildAt("started") \/ ChildAt("updating")
                     THEN unbooked \cup ({child.by} \ {None}) ELSE unbooked
    /\ owed' = {}
    /\ UNCHANGED <<now, commandVars, marker, records, plains>>

Tick ==
    /\ now < MaxTime
    /\ now' = now + 1
    /\ UNCHANGED <<commandVars, child, marker, records, bounds, history>>

Step(c) == Ask(c) \/ Mark(c) \/ Judge(c) \/ Claim(c) \/ Refused(c) \/ Look(c)
           \/ Read(c)
ChildStep == Start \/ Detect \/ Detected \/ Maintained \/ Unstamped \/ HandOver
             \/ Benchmark \/ Banked \/ Exit

Next == (\E c \in Commands : Step(c)) \/ ChildStep \/ Detector \/ Crash \/ Tick

Spec == Init /\ [][Next]_vars

-----------------------------------------------------------------------------

Places == {"idle", "marking", "judging", "claiming", "refused", "waiting", "reading",
           "rebenchmarked", "pruned", "failed", "ended", "recent", "unavailable", "late"}

\* The children that start at one of the times.
Children(times) == [at : {"started", "detecting", "detected", "updating",
                          "maintained", "benchmark", "banked", "leaving"},
                    since : times, by : Commands \cup {None}]

\* The types, and that a command that waits has a baseline.
TypeOK ==
    /\ now \in 0..MaxTime
    /\ at \in [Commands -> Places]
    /\ base \in [Commands -> 0..now]
    /\ role \in [Commands -> {None, "started", "running"}]
    /\ heldSeen \in [Commands -> BOOLEAN]
    /\ child # None => child \in Children(0..now)
    /\ marker # None => marker \in 0..now
    /\ {lastBench, lastMaint, lastFail} \subseteq 0..now
    /\ plains \in 0..MaxPlain /\ crashes \in 0..MaxCrashes
    /\ unbooked \subseteq Commands /\ owed \subseteq Commands
    /\ \A c \in Waiting : base[c] > 0 /\ role[c] # None

\* "The update ended without recording a result" is said to the command that
\* started an update only where that very update was over before its stamp:
\* killed, or ended in one of the ways that book nothing.  (A command that
\* joined a running update compares with a stamp of the update's start.)
StarterHearsOutcome ==
    \A c \in Commands : at[c] = "ended" /\ role[c] = "started" => c \in unbooked

\* A request left while a plain detection had yet to look at the marker for
\* the last time is honoured before the lock is free: by an update, or kept
\* for when the backoff is over.
RequestHonoured == child = None => owed = {}
=============================================================================
