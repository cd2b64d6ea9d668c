------------------------- MODULE CalibrationRunner -------------------------
(***************************************************************************)
(* The calibration runner: one detached process per config dir works       *)
(* through the queue of models, loads each and measures its phases, and    *)
(* writes the record that ends the model's wait.  Finished phases are kept *)
(* in a progress file, so the next runner resumes after a stop or a kill.  *)
(*                                                                         *)
(* Files are as every process reads them: a state file or a lock whose     *)
(* process is gone is None.  The state lock and the model lock are the     *)
(* business of StateLock and ModelLock, and atomic here.  A change of the  *)
(* weights or of the method, which starts from scratch, is left out.       *)
(***************************************************************************)
EXTENDS Integers, FiniteSets

CONSTANTS Models, Runners, None,
          VersionOf,    \* the version of llm-ext a runner belongs to
          LastPhase,    \* METHOD_PHASES: phase 1 is A
          MaxCrashes,   \* MAX_CRASHES
          MaxWaits,     \* memory checks before a step is given up
          MaxBuild,     \* bound: builds of the engine
          MaxAsks,      \* bound: changes of the queue from outside
          MaxFaults     \* bound: kills, stops, handovers, pauses

VARIABLES
    queue,     \* what a model is queued as: "plain" or "force"
    record, progress,
    build,     \* of the engine that is installed
    runner,    \* each runner: where it is, and what it carries
    claimed,   \* calibrator-local.json: the live runner
    handover,  \* calibrator-handover.json: the version that asked
    lock,      \* of each model
    asks, faults,
    owed       \* history: queued, and no record written since

files == <<queue, record, progress, lock>>
bounds == <<asks, faults>>
vars == <<files, build, runner, claimed, handover, bounds, owed>>

Phases == 1..LastPhase

Fresh == [passed |-> [p \in Phases |-> None], crashes |-> 0, paused |-> 0,
          waits |-> 0, forced |-> FALSE]
Idle == [at |-> "off", model |-> None, force |-> FALSE, quick |-> FALSE,
         loaded |-> 0, attempted |-> {}, stopping |-> FALSE]

Init ==
    /\ queue = [m \in Models |-> None]
    /\ record = [m \in Models |-> None]
    /\ progress = [m \in Models |-> Fresh]
    /\ build = 1
    /\ runner = [r \in Runners |-> Idle]
    /\ claimed = None /\ handover = None
    /\ lock = [m \in Models |-> None]
    /\ asks = 0 /\ faults = 0
    /\ owed = {}

At(r, where) == runner[r].at = where
GoTo(r, where) == runner' = [runner EXCEPT ![r].at = where]
HasStatus(m, status) == IF record[m] = None THEN FALSE
                        ELSE record[m].status = status
Stale(m, on) == IF record[m] = None THEN FALSE ELSE record[m].checked # on

-----------------------------------------------------------------------------
(* The queue *)

\* What a held job, a changed profile or models calibrate queues.
Wanted(m) == \/ record[m] = None \/ HasStatus(m, "memory-limited")
             \/ HasStatus(m, "ok") /\ Stale(m, build)

\* Who queues a model finds a record that was just written.
Closing(m) == \E r \in Runners : runner[r].at \in {"recorded", "settled"}
                                /\ runner[r].model = m
Owe(m) == owed' = IF queue[m] = None /\ ~Closing(m) THEN owed \cup {m} ELSE owed

Enqueue(m) ==
    /\ queue[m] = None /\ Wanted(m) /\ asks < MaxAsks
    /\ asks' = asks + 1
    /\ queue' = [queue EXCEPT ![m] = "plain"]
    /\ Owe(m)
    /\ UNCHANGED <<record, progress, lock, build, runner, claimed, handover, faults>>

\* --force, which upgrades a queued item.
ForceQueue(m) ==
    /\ queue[m] # "force" /\ asks < MaxAsks
    /\ asks' = asks + 1
    /\ queue' = [queue EXCEPT ![m] = "force"]
    /\ Owe(m)
    /\ UNCHANGED <<record, progress, lock, build, runner, claimed, handover, faults>>

\* No profile names the model any more, or its entry is removed by hand.
Unqueue(m) ==
    /\ queue[m] # None /\ asks < MaxAsks
    /\ asks' = asks + 1
    /\ queue' = [queue EXCEPT ![m] = None]
    /\ owed' = owed \ {m}
    /\ UNCHANGED <<record, progress, lock, build, runner, claimed, handover, faults>>

Upgrade ==
    /\ build < MaxBuild
    /\ build' = build + 1
    /\ UNCHANGED <<files, runner, claimed, handover, bounds, owed>>

-----------------------------------------------------------------------------
(* Starting and leaving *)

\* ensureCalibrator, by a caller of r's version: it looks, and never waits.
Ensure(r) ==
    /\ claimed = None /\ At(r, "off")
    /\ \E m \in Models : queue[m] # None
    /\ GoTo(r, "claiming")
    /\ UNCHANGED <<files, build, claimed, handover, bounds, owed>>

AskHandover(r) ==
    /\ claimed # None /\ faults < MaxFaults
    /\ VersionOf[claimed] # VersionOf[r]
    /\ handover' = VersionOf[r]
    /\ faults' = faults + 1
    /\ UNCHANGED <<files, build, runner, claimed, asks, owed>>

\* Mutation of Live: the caller of ensureCalibrator looked.
LookedBefore(r) == FALSE

\* Another runner is alive, looked at under calibrator.lock.
Live(r) == claimed \notin {None, r}

Claim(r) ==
    /\ At(r, "claiming")
    /\ IF Live(r) THEN GoTo(r, "off") /\ UNCHANGED claimed
       ELSE GoTo(r, "choosing") /\ claimed' = r
    /\ UNCHANGED <<files, build, handover, bounds, owed>>

\* The model's lock, where r holds it, is released.
Unlocked(r) == [m \in Models |-> IF lock[m] = r THEN None ELSE lock[m]]

\* removeOwnState, and the process ends.
Quit(r) ==
    /\ runner' = [runner EXCEPT ![r] = Idle]
    /\ claimed' = IF claimed = r THEN None ELSE claimed
    /\ handover' = IF claimed = r THEN None ELSE handover
    /\ lock' = Unlocked(r)

\* The model's turn is over: it is attempted once in a run.
TurnOver(r) ==
    /\ runner' = [runner EXCEPT
         ![r] = [Idle EXCEPT !.at = "choosing", !.stopping = runner[r].stopping,
                   !.attempted = runner[r].attempted \cup {runner[r].model}]]
    /\ lock' = Unlocked(r)
    /\ UNCHANGED <<claimed, handover>>

\* A crash is retried at once.
Again(r) ==
    /\ runner' = [runner EXCEPT
         ![r] = [Idle EXCEPT !.at = "choosing", !.stopping = runner[r].stopping,
                             !.attempted = runner[r].attempted]]
    /\ lock' = Unlocked(r)
    /\ UNCHANGED <<claimed, handover>>

\* The loop: stopped, handed over, done, or the next model and its lock.
Choose(r) ==
    /\ At(r, "choosing")
    /\ LET next == {m \in Models : queue[m] # None} \ runner[r].attempted
           over == runner[r].stopping \/ handover \notin {None, VersionOf[r]}
                   \/ next = {}
       IN \/ over /\ Quit(r)
          \/ ~over /\ \E m \in next :
               IF lock[m] = None
                 THEN /\ lock' = [lock EXCEPT ![m] = r]
                      /\ runner' = [runner EXCEPT
                           ![r].at = "checking", ![r].model = m,
                           ![r].force = (queue[m] = "force")]
                      /\ UNCHANGED <<claimed, handover>>
                 ELSE /\ runner' = [runner EXCEPT ![r].attempted = @ \cup {m}]
                      /\ UNCHANGED <<lock, claimed, handover>>
    /\ UNCHANGED <<queue, record, progress, build, bounds, owed>>

-----------------------------------------------------------------------------
(* Records *)

\* writeRecord's schema: a verdict on the measurements needs them.
Writable(rec) == rec.status \in {"ok", "engine-check-failed"} => rec.body

NewRecord(r, status) ==
    [status |-> status, checked |-> runner[r].loaded, body |-> status = "ok",
     reused |-> /\ status = "ok" /\ runner[r].force
                /\ \E p \in Phases : progress[runner[r].model].passed[p] # "forced"]

\* failedRecord: the quick check only marks the record it checked.
FailedRecord(r, status) ==
    IF runner[r].quick /\ status = "calibration-failed"
      THEN [record[runner[r].model] EXCEPT !.status = "engine-check-failed"]
      ELSE NewRecord(r, status)

Write(r, rec, next) ==
    /\ record' = [record EXCEPT ![runner[r].model] = rec]
    /\ owed' = owed \ {runner[r].model}
    /\ GoTo(r, next)
    /\ UNCHANGED <<lock, claimed, handover>>

Save(m, p) == progress' = [progress EXCEPT ![m] = p]

\* RunnerStopping, and every exception after a stop signal.
Stopped(r) == runner[r].stopping

\* Exceptions are counted per model; beyond MaxCrashes the count is the same.
Counted(m) == IF progress[m].crashes < MaxCrashes THEN progress[m].crashes + 1
              ELSE MaxCrashes

\* The catch of calibrateOne, with the progress p kept so far.
Raise(r, p) ==
    LET m == runner[r].model
        n == Counted(m)
        failed == FailedRecord(r, "calibration-failed")
    IN IF Stopped(r) THEN Quit(r) /\ Save(m, p) /\ UNCHANGED <<record, owed>>
       ELSE /\ Save(m, [p EXCEPT !.crashes = n])
            /\ IF n < MaxCrashes THEN Again(r) /\ UNCHANGED <<record, owed>>
               ELSE IF Writable(failed) THEN Write(r, failed, "recorded")
               ELSE Quit(r) /\ UNCHANGED <<record, owed>>

\* finish: the record first; a record that cannot be written raises.
Finish(r, rec, p) ==
    IF Writable(rec) THEN Write(r, rec, "recorded") /\ Save(runner[r].model, p)
    ELSE Raise(r, p)

\* The record ends the forced run: the stamp goes, and what was measured
\* answers no later --force.
Settle(r) ==
    /\ At(r, "recorded")
    /\ LET m == runner[r].model
           old == [q \in Phases |-> IF progress[m].passed[q] = None THEN None
                                    ELSE "plain"]
       IN Save(m, [progress[m] EXCEPT !.crashes = 0, !.forced = FALSE,
                                      !.passed = old])
    /\ GoTo(r, "settled")
    /\ UNCHANGED <<queue, record, lock, build, claimed, handover, bounds, owed>>

\* dequeue; nothing is removed where the state lock stays busy.
Dequeue(r) ==
    /\ At(r, "settled")
    /\ \/ queue' = [queue EXCEPT ![runner[r].model] = None] /\ UNCHANGED faults
       \/ faults < MaxFaults /\ faults' = faults + 1 /\ UNCHANGED queue
    /\ TurnOver(r)
    /\ UNCHANGED <<record, progress, build, asks, owed>>

-----------------------------------------------------------------------------
(* Measuring *)

\* Mutation of Leftover: the stamp is dropped where the progress is reset.
KeptLeftover(r, m) == FALSE

\* A stamp with no forced item.
Leftover(r, m) == ~runner[r].force /\ progress[m].forced

\* Mutation of ResetPending: every pass of a forced item resets.
EveryPass(r, p) == runner[r].force

\* --force resets the progress once, and stamps it.
ResetPending(r, p) == runner[r].force /\ ~p.forced

\* The stamp and the memory precheck, with the model unloaded.
Check(r) ==
    /\ At(r, "checking")
    /\ LET m == runner[r].model
           p == [progress[m] EXCEPT !.forced = IF Leftover(r, m) THEN FALSE ELSE @]
       IN \/ /\ Save(m, p)
             /\ GoTo(r, "turn")
             /\ UNCHANGED <<lock, claimed, handover>>
          \/ /\ ~ResetPending(r, p) /\ p.waits \in 1..(MaxWaits - 1)
             /\ Save(m, [p EXCEPT !.waits = @ + 1])
             /\ TurnOver(r)
    /\ UNCHANGED <<queue, record, build, bounds, owed>>

\* waitForTurn: the broker is idle, or busy for so long that the runner ends.
Turn(r) ==
    /\ At(r, "turn")
    /\ \/ GoTo(r, "loading") /\ UNCHANGED <<lock, claimed, handover, faults>>
       \/ faults < MaxFaults /\ faults' = faults + 1 /\ Quit(r)
    /\ UNCHANGED <<queue, record, progress, build, asks, owed>>

\* The record holds for what is loaded.
Valid(r, m) == /\ record[m] # None /\ ~runner[r].force
               /\ ~Stale(m, build) /\ ~HasStatus(m, "memory-limited")

QuickCheck(r, m) == /\ Stale(m, build) /\ ~runner[r].force
                    /\ ~HasStatus(m, "calibration-failed")

\* Mutation of Rewritten: the valid record is left as it is.
LeftAsItIs(r, m) == GoTo(r, "settled") /\ UNCHANGED <<record, owed, lock,
                                                      claimed, handover>>

\* A valid record is written again, so a broker that marked it stale sees it.
Rewritten(r, m) == Write(r, record[m], "settled")

\* The model is loaded: its record holds, or measuring begins.
Load(r) ==
    /\ At(r, "loading")
    /\ LET m == runner[r].model
           reset == IF ResetPending(r, progress[m])
                      THEN [Fresh EXCEPT !.forced = TRUE] ELSE progress[m]
           quick == QuickCheck(r, m)
       IN \/ Valid(r, m) /\ Rewritten(r, m) /\ UNCHANGED progress
          \/ /\ ~Valid(r, m)
             /\ Save(m, IF quick THEN [reset EXCEPT !.passed[1] = None] ELSE reset)
             /\ runner' = [runner EXCEPT ![r].at = "measuring", ![r].quick = quick,
                                         ![r].loaded = build]
             /\ UNCHANGED <<record, owed, lock, claimed, handover>>
          \/ Raise(r, progress[m])
    /\ UNCHANGED <<queue, build, bounds>>

\* The phases this run has to pass.
Due(r) == IF runner[r].quick THEN {1} ELSE Phases
Missing(r) == {p \in Due(r) : progress[runner[r].model].passed[p] = None}

\* One phase; a verdict that comes after a stop signal is the stop's.
Phase(r, p) ==
    LET m == runner[r].model
        was == progress[m]
    IN \/ Stopped(r) /\ Quit(r) /\ UNCHANGED <<progress, record, owed>>
       \/ /\ ~Stopped(r)
          /\ \/ /\ Save(m, [was EXCEPT
                     !.passed[p] = IF runner[r].force THEN "forced" ELSE "plain",
                     !.paused = 0, !.waits = 0])
                /\ UNCHANGED <<record, owed, runner, lock, claimed, handover>>
             \/ Finish(r, FailedRecord(r, "calibration-failed"), was)
             \* two inconclusive runs: once the step is paused, then it fails
             \/ /\ was.paused = 0
                /\ Save(m, [was EXCEPT !.paused = 1])
                /\ TurnOver(r) /\ UNCHANGED <<record, owed>>
             \* phases B and C wait for memory, and give up
             \/ /\ p > 1 /\ was.waits < MaxWaits
                /\ Save(m, [was EXCEPT !.waits = @ + 1])
                /\ TurnOver(r) /\ UNCHANGED <<record, owed>>
             \/ /\ p > 1 /\ was.waits = MaxWaits
                /\ Finish(r, IF HasStatus(m, "ok") /\ ~Stale(m, runner[r].loaded)
                               THEN record[m] ELSE FailedRecord(r, "memory-limited"),
                          [was EXCEPT !.waits = 0])
       \/ Raise(r, was)

\* All passed: the record, or the record checked for this build.
Conclude(r) ==
    LET m == runner[r].model
    IN Finish(r, IF runner[r].quick
                   THEN [record[m] EXCEPT !.status = "ok",
                                          !.checked = runner[r].loaded]
                   ELSE NewRecord(r, "ok"), progress[m])

Measure(r) ==
    /\ At(r, "measuring")
    /\ IF Missing(r) = {} THEN Conclude(r)
       ELSE Phase(r, CHOOSE p \in Missing(r) : \A q \in Missing(r) : p <= q)
    /\ UNCHANGED <<queue, build, bounds>>

-----------------------------------------------------------------------------
(* Signals and kills *)

\* SIGTERM or SIGINT: seen where the runner awaits something.
Awaits(r) == \/ runner[r].at \in {"choosing", "checking", "turn", "loading"}
             \/ At(r, "measuring") /\ Missing(r) # {}

Stop(r) ==
    /\ Awaits(r)
    /\ ~runner[r].stopping /\ faults < MaxFaults
    /\ runner' = [runner EXCEPT ![r].stopping = TRUE]
    /\ faults' = faults + 1
    /\ UNCHANGED <<files, build, claimed, handover, asks, owed>>

\* Killed; or a stopped runner did not settle in time.
Die(r) ==
    /\ ~At(r, "off") /\ faults < MaxFaults
    /\ runner' = [runner EXCEPT ![r] = Idle]
    /\ claimed' = IF claimed = r THEN None ELSE claimed
    /\ lock' = Unlocked(r)
    /\ faults' = faults + 1
    /\ UNCHANGED <<queue, record, progress, build, handover, asks, owed>>

Step(r) == Claim(r) \/ Choose(r) \/ Check(r) \/ Turn(r) \/ Load(r) \/ Measure(r)
           \/ Settle(r) \/ Dequeue(r)

Next ==
    \/ \E m \in Models : Enqueue(m) \/ ForceQueue(m) \/ Unqueue(m)
    \/ Upgrade
    \/ \E r \in Runners : Ensure(r) \/ AskHandover(r) \/ Step(r) \/ Stop(r)
                          \/ Die(r)

Spec == Init /\ [][Next]_vars

\* A runner goes on, and somebody asks for one while a model is queued: the
\* broker does every few seconds.
Fairness == /\ \A r \in Runners : WF_vars(Step(r))
            /\ WF_vars(\E r \in Runners : Ensure(r))

FairSpec == Spec /\ Fairness

-----------------------------------------------------------------------------

Working == {r \in Runners : runner[r].at \in {"checking", "turn", "loading",
                                              "measuring", "recorded", "settled"}}

\* The types, and who holds a lock.
TypeOK ==
    /\ queue \in [Models -> {None, "plain", "force"}]
    /\ \A m \in Models : record[m] # None => record[m] \in
         [status : {"ok", "calibration-failed", "engine-check-failed",
                    "memory-limited"},
          checked : 0..MaxBuild, body : BOOLEAN, reused : BOOLEAN]
    /\ progress \in [Models -> [passed : [Phases -> {None, "plain", "forced"}],
                                crashes : 0..MaxCrashes, paused : 0..1,
                                waits : 0..MaxWaits, forced : BOOLEAN]]
    /\ build \in 1..MaxBuild
    /\ claimed \in Runners \cup {None}
    /\ handover \in {VersionOf[r] : r \in Runners} \cup {None}
    /\ asks \in 0..MaxAsks /\ faults \in 0..MaxFaults
    /\ owed \subseteq Models
    /\ \A r \in Runners :
         /\ runner[r].attempted \subseteq Models
         /\ r \in Working <=> \E m \in Models : lock[m] = r
         /\ r \in Working => lock[runner[r].model] = r

\* One runner works in a config dir, whoever started how many.
OneRunner == /\ Cardinality(Working) <= 1
             /\ \A r \in Working : claimed = r

\* A model leaves the queue through the runner only after a record was written
\* for it since it was queued: the jobs held for it see a change.
RecordEndsWait == \A m \in owed : queue[m] # None

\* --force measures everything again: the ok record of a forced run holds no
\* phase measured before its reset, whatever was killed or removed meanwhile.
ForcedRemeasures == \A m \in Models : record[m] # None => ~record[m].reused

\* What a stopped runner writes as it leaves its model, if anything.
CountsNothing(r) ==
    LET m == runner[r].model IN
    (/\ runner[r].stopping /\ runner[r].at \in {"loading", "measuring"}
     /\ runner'[r] # runner[r])
    => /\ progress'[m].crashes <= progress[m].crashes
       /\ record'[m] = record[m] \/ record'[m].status = "ok"

\* "a user stop must never move a model toward calibration-failed"
StopCountsNothing == [][\A r \in Runners : CountsNothing(r)]_vars

\* A memory-limited record, and the engine was upgraded since.
LimitedOnOldBuild(m) == HasStatus(m, "memory-limited") /\ Stale(m, build)

\* A queued model gets its record, whatever crashes or waits: stops and kills
\* end some time, and the phases' own failures are bounded by the counters.
\* Not so where LimitedOnOldBuild (see EveryModelSettles).
ModelsSettle == \A m \in Models : (queue[m] # None)
                    ~> (queue[m] = None \/ LimitedOnOldBuild(m))

\* "at MAX_CRASHES the model gets a record with the error, so held jobs fail
\* with it instead of waiting while the runner reloads the model every minute"
EveryModelSettles == \A m \in Models : (queue[m] # None) ~> (queue[m] = None)
=============================================================================
