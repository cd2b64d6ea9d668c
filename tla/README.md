# TLA+ models of llm-externalizer

llm-externalizer sends code-scanning work to cheap language models. For models
on the user's own machine it runs a **broker**: one detached process that every
command of one configuration directory shares, which queues their requests by
model, keeps one local server loaded at a time, swaps models by rule, and shares
a registry of server processes with calibration runners and other brokers. That
is the concurrent core of the program and what these modules model.

Paths below are relative to `src/scripts/llm-ext/src/`.

## 1. The system

| Part | Keeps | Operations | Talks to |
|---|---|---|---|
| `broker/scheduler.ts` | per key a Map from command to FIFO, the last command, the current model and its run counters, load times | enqueue, remove, take, dropAbandoned, wantRotation, startRun | called by the broker's handlers |
| `broker/server.ts` | jobs, held jobs, requests in flight, the server, a stop or a load in progress, draining, exiting, stale marks | POST, GET and DELETE of a job, shutdown, tick, pump, swapTo, stopServer, releaseHeld, shutdown() | clients (HTTP), servers (HTTP, processes), the registry, calibration records |
| `broker/registry.ts` | one file of entries per engine, and the process table | claimAndSpawn, sweepEngine, releaseEntry, stopOwnServer | brokers and calibration runners, under `withAsyncLock` |
| `local-llama-server.ts` | a lock directory and its mtime | withAsyncLock; stopProcessGroup | the registry, the broker spawn |
| `broker/client.ts` | the jobs of one command: `pendingByScope`, `active`, the memo of an endpoint | ensureBroker, brokerExchange, cancelAllBrokerJobs | the broker, the spawn lock |
| `calibration/` | a queue, model locks, progress, one record per model | withStateLock, acquireModelLock, runCalibrator, the phases | the registry (role "cal"), the broker's counts |
| `bench-lock.ts`, `mkdir-lock.ts` | lock files of detached benchmarks, of settings | claim, commit, release | the file system |
| `provider/completion.ts`, `provider/http.ts` | the circuit breaker, the retry clocks, the budget for billed empty replies | chatCompletionWithRetry | remote and local servers |
| `free-rotation.ts`, `index.ts` | the cooldowns of a free pool, the slots of an ensemble, a profile's chain | callWithFreeRotation, the walk over a chain, failDynamicProfile | requests, the profile update |
| `profile-detector.ts`, `foreground-repair.ts` | a profile's update lock, its marker and its last outcomes | requestProfileUpdate, waitForProfileUpdate, the detached updater | commands, benchmarks |
| `rate-limiter.ts` | tokens, the current rate | acquire, onSuccess, onRateLimit, rateLimitedParallel | remote requests |
| the rest | profiles, catalogs, reports, benchmarks, prompts | sequential programs over files and HTTP | |

`PROJECT.json` lists every part with its status; what is left out is in
section 7.

**What is hard here.**

- The broker is one JavaScript thread, but `swapTo`, `stopServer`, `shutdown`,
  `dispatch` and the reading of a body are suspended at each `await`, and any
  handler runs there. The code's comments name a dozen review findings of that
  kind (M4, M5, C1, C2, F6b, ...), each fixed by one guard.
- Rotation must not starve a model, must not unload one before it served
  anything, and must not leave a free slot beside queued work.
- Several processes of one directory (an old broker that drains, its successor,
  a calibration runner) start and stop servers that outlive them. Each may be
  killed at any step; only files and the process table remain.
- Everything between processes rests on one `mkdir` lock with a takeover.

- A command's concurrent calls share what the command knows of brokers and jobs,
  while brokers drain, exit and die, replies are lost, and `--command_timeout`
  fires in the middle of any of it.
- Locks are directories or linked files, judged stale by age or by a pid and then
  removed or renamed away by whoever judged so, while their holder may only be slow.
- Runners, updaters and benchmarks are detached processes that resume each
  other's work from files: progress, markers, records, throttles.

**What makes each part correct.** Scheduler: a bounded bypass between commands,
progress for every model, no unload without service, no idle slot. Broker: one
server process, requests only on it, no server left behind by an exit, jobs that
end once and get on. Registry: one server per engine and role, no sweep of an
owned server, no lost entry, one main across engines. Client: no accepted job
forgotten, no twin of a job it knows, nothing left after a stop. Locks: exclusion
among the prompt, and release from the dead. Calibration: one runner, and an
answer for every queued model that measures what it claims to. Requests: a
verdict that is earned, a window that stays closed, a budget that holds, a pool
and a chain walked to their end. Update: an outcome for whoever waits.

## 2. Modules

A component has a module of its own, with its variables, its actions and its
properties. Four modules put together components that share no state, so that one
run checks them and one module proves about them: each instantiates its
components with variables of their own and names what is promised of each.

| Module | Of | Puts together |
|---|---|---|
| CommandQueue, CommandRing | `broker/scheduler.ts` | |
| BrokerScheduler | `broker/scheduler.ts`, the handlers of `broker/server.ts` | CommandQueue |
| Broker | `broker/server.ts` | JobService, which it implements |
| JobService | what `broker/server.ts` promises of a job | |
| BrokerSpawn | `ensureBroker`, the broker's start and exit, its state file | |
| BrokerClient | `broker/client.ts`, `command-stop.ts` | |
| ServerRegistry | `broker/registry.ts` | |
| RetryLoop | `provider/completion.ts`, `provider/http.ts` | |
| FreeRotation | `free-rotation.ts`, ensembles in `index.ts` | |
| AsyncLock | `withAsyncLock` of `local-llama-server.ts` | |
| StateLock, ModelLock | `calibration/state.ts` | |
| MkdirLock | `mkdir-lock.ts` | |
| BenchLock | `bench-lock.ts`, `bench-spawn.ts` | |
| CalibrationRunner | `calibration/runner.ts` and what it calls | |
| ProfileUpdate | `profile-detector.ts`, `foreground-repair.ts` | |
| FallbackWalk | `profile-fallback.ts`, the walk and its verdict in `index.ts` | |
| Brokers | | Broker, BrokerSpawn |
| RequestPath | | ServerRegistry, CommandRing, RetryLoop, FreeRotation |
| FileLocks | | AsyncLock, StateLock, ModelLock, MkdirLock, BenchLock |
| Maintenance | | CalibrationRunner, ProfileUpdate, FallbackWalk |

MCBroker, MCBrokerClient, MCBrokerScheduler, MCRequestPath, MCServerRegistry,
MCFileLocks and MCMaintenance give them small constants. Where several components
are in one module, a variable (`part`, or `lock` in MCFileLocks) is chosen in the
initial state and never changes: the behaviour is one of that component, and the
others stay where they began. The state space is the sum of the components', not
their product. The proof modules are in section 5.

A definition under a comment "Mutation of X" is a plausible bug in X; no
specification uses it. Replacing X by it violates the property it is listed with
in `PROJECT.json`, which shows that the property depends on that piece of code.

**CommandQueue** is one key's queue as a value: a record of the order of the
commands (`ring`: the insertion order of the Map), their FIFOs, and the command
served last; `Enqueue`, `RemoveJob` and `TakeNext` are `enqueue`, `remove` and
`take`. A command leaves the ring when its FIFO empties, as it leaves the Map.

**CommandRing** is that queue under any sequence of submissions, removals and
takes; a job that left may enter again, as the stream of work never ends. Two
history variables count, for each command that waits in the Map, the takes of
others since its last turn (`passed`) and the others that left the Map because
their last job was removed (`gone`).

**BrokerScheduler** is the scheduler driven by the handlers of `server.ts`, with
time. `pc` is the broker's thread: a handler runs to its end, and nearly all end
in `pump`, which is `drop`, `rotate` and `fill`. Time stamps become ages counted
in ticks of the 1 s timer, as the rules only use distances to now, and an age
stops where no rule tells it apart any more. Swaps take several ticks and
handlers run during them.

**Broker** is the life of a job and of a server in one broker: `state` and the
four collections of `server.ts` (`jobs`, the Scheduler's, `held`, `running`),
`server`, `current`, the processes that run (`procs`), the stop in progress, the
place of `swapTo` (`swap.at`) and of `shutdown`, and the calibration records with
their stale marks. One action is the code from one `await` to the next. Time is
left out: a limit may pass whenever its guard lets it matter. Which model comes
next is any that `wantRotation` could answer, as the rule itself is the subject
of BrokerScheduler. Other processes appear as the outcome of a sweep or a claim
(`SlotBusy`, `StartFails`). A POST is two actions, split at the await of its body.

| `swap.at` | `swapTo` is at |
|---|---|
| `unload` | the await of `stopServer` (491) |
| `sweep` | `checkLegacy` and `sweepEngine` of the other engine (503-518) |
| `claim` | `claimAndSpawn` (537-560) |
| `load` | `waitReady` (567-574) |
| `check` | the comparison with the record (582-601) |
| `stale`, `unreadable` | `stopServer` after it (604, 611) |
| `abort` | `stopOwnServer` of the catch clause (649) |

**ServerRegistry** is the registry files, their locks and the servers that run,
under any number of brokers and runners. An owner's place in `claimAndSpawn`,
`sweepEngine` and `stopOwnServer` is `at`; each step between two file operations
or signals is an action, and `Crash` may come between any two. A server is known
by owner, engine and number: the pid, argv and marker by which the code tells a
reused pid from its own server. The lock is its intended mutual exclusion with
the takeover of a dead holder's lock; what `withAsyncLock` really gives is
AsyncLock's subject.

**AsyncLock** is `withAsyncLock`: `mkdir`, `stat`, `rm` and `rmdir` as one file
system call each, the refresh timer as the fact that a directory does not age
while a live process is inside, and processes that are killed.

**JobService** is what the client of a broker may rely on: a job waits, is sent to
the model at most once, then has one outcome that stays until it is forgotten;
the requests in flight are for one model and fit its slots. `KeepsJobService` is
`Service!Spec` under a refinement mapping of Broker: what a client may be told of
each job, the requests that occupy a slot, and whether the broker is not exiting.

**BrokerSpawn** is `ensureBroker` call by call: the memo and the state file, the
health check, the second look under the spawn lock, the request to drain to a
broker of another version, the start and the wait for it, and the broker's own
start and exit with what they write and erase. Mishaps (a lost request, a start
given up, a command killed, a broker that exits late and erases its successor's
file) are bounded and counted.

**BrokerClient** is the other side: `at` is where a call of the command is in
`brokerExchange`, `id` and `cur` are functions of that place, `pending` is
`pendingByScope`, `active`, `memo` and the stop are the command's. `job` is the
sequence of jobs ever accepted and `broker` what each broker is; here a broker is
only what its client meets: it accepts, finishes, gives back, drains, exits, dies.

**AsyncLock, StateLock, ModelLock, MkdirLock, BenchLock**: every file system call
is a step. A process may be killed anywhere, and suspended (`late`) for longer
than the limit by which the others judge it gone; both are faults, and bounded.
BenchLock judges a file as `benchLockIsHeld` does, by its age, its pid and the
signal, in three steps. A claimer's process ends after the spawn, its child when it
likes; `expired` has the stamps past `BENCH_LOCK_TTL_MS`, and `lapses` counts the
live runs whose lock no longer speaks for them.

**CalibrationRunner** is `runCalibrator` under `ensureCalibrator`: the claim of
`calibrator.lock`, the choice of a model, its lock, the wait for its turn and for
memory, the phases with the progress kept after each, the record, and the end of
the item, with crashes counted, stops, hand-overs between versions, `--force`,
removals from the queue, and a new engine build at any time.

**ProfileUpdate** is the update of a generated profile: `at` for the commands that
ask and wait, `child` for the detached process and the command that started it, the
marker, the last outcomes and their throttles. A pass may end without its stamp and a
benchmark without a record; `unbooked` has the commands whose own update did the
former, or was killed before the stamp. Its clock is needed, as the code compares stamps.

**FallbackWalk** chooses a world in its initial state (the chain, the state of each URL
and key, what the broker can load, and what each group answers of its model, which
another group of the model need not share) and then walks it deterministically;
`failed` is the list of failures, `dead` what they rule out, `Verdict` what is said.

**RetryLoop** counts minutes that are left; **FreeRotation** lets the cooldowns
change in any step, as other processes write them.

## 3. Runs

| Run | Bounds | Shows |
|---|---|---|
| MCBrokerScheduler | 2 models, 2 commands, 3 jobs that return, 1 slot, B = 2, D = 2, T = 2, requests up to 2 ticks, loads up to 1 | `ServedBeforeUnload`, `PumpLeavesNoWorkIdle`, `AbandonedNeverRun`, `WorstCaseWait` |
| MCBrokerSchedulerLive | the same jobs, every timing 1 | `QueuedJobsLeave` |
| MCBroker | broker: 2 jobs of one model and 1 of another, 2 slots, MaxStale = 0; spawn: 2 commands and a broker of another version, 4 brokers, 1 mishap | `OneServer`, `CurrentIsServer`, `InFlightOnServer`, `NoServerLeftBehind`, `HeldGoFirst`, the refinement `KeepsJobService`; `OneOpenBroker` |
| MCBrokerLive | 1 job, 1 model, MaxStale = 2 | `JobsGetOn` |
| MCBrokerLateBody | 1 job, 1 model | **violated**: a drained broker finished its queue (finding 2) |
| MCBrokerClient | 1 call, 2 brokers, 3 jobs, 1 lost message, 1 retry, 1 requeue | `NoJobForgotten`, `StopLeavesNothing`, `TwinOnlyAfterMove`, `StopEndsCalls` |
| MCBrokerClientGivenBack | 1 call, 2 brokers, nothing lost | **violated**: a job given back never fails (finding 3) |
| MCRequestPath | registry: 2 brokers up at once and 1 runner, 2 engines; ring: 3 commands with 2 jobs each that return, a waiting one sees at most 1 other leave unserved; retries: 2 and 3 calls; rotation: 2 slots, 2 fallbacks | `OnePerSlot`, `OnlyOrphansSwept`, `LiveServersRecorded`; `BoundedBypass`; `SleepersAbort`, `VerdictIsEarned`, `WindowStaysClosed`, `OneBilledBeyond`; `RotationCovers` |
| MCServerRegistryHandover | 2 brokers, 2 engines | **violated**: one local model across engines (finding 1) |
| MCFileLocks | withAsyncLock: 4 processes, 2 killed; state lock: 3 users, 2 faults; a model's lock: 2 runners, 1 fault; sidecars' lock: 3 writers, 1 fault; benchmark lock: 3 claimers, 1 fault (a kill, or a file past the TTL) | `ExclusiveWithoutCrash`, `ExclusiveWhenPrompt`, `OneCalibration`, `NoUpdateLost`, `WinnersBounded`, `LeftoversGo` |
| MCMaintenance | calibration: 2 runners of 2 versions, 1 model, 2 phases, 2 crashes, 1 fault, 4 requests, 2 builds; update: 2 commands, throttles of 1 tick, 3 ticks, 1 crash; walk: 3 models in 5 groups, chains of 2, 2 URLs, 3 keys, 4 refusals | `OneRunner`, `RecordEndsWait`, `ForcedRemeasures`, `ModelsSettle`; `StarterHearsOutcome`, `RequestHonoured`; `WalkIsThorough`, `VerdictFits` |
| MCMaintenanceLimited | calibration alone matters: no fault, 2 requests | **violated**: a queued model settles (finding 4) |

A run checks no type invariant: the types are theorems (section 5).

*The scheduler.* A finished job's name stands for a fresh job, so the work never
ends and the state space is finite. Two models with a queue of two commands and
one of a single, mortal client reach all rules: linger, minimum slice by count
and by time, deadlines near and passed, an emptied queue during a load, abandoned
jobs, failed starts. `WaitCap` (8) lies above the bound that `WorstCaseWait`
compares with (7), so an exceeded bound is seen. Counters are told apart up to
`Batch`, `MinRun` and `Linger`, where the code's comparisons stop to distinguish.

*The broker.* Two jobs of one model reach a queue behind a running request,
dispatch to the last slot, and a release of an older held job before a newer one;
the third, of another model, reaches every swap. With MaxStale = 0 the first
mismatch already gives up; holding again is reached in MCBrokerLive. The process
ends (`gone`), so deadlock is not an error. For the spawn, two commands and a
broker of another version suffice for both to find it, both ask it to drain and
both reach the spawn lock; a mishap is one of what opens a second broker.

*The client.* One call meets everything but the other calls of its command; what
calls share is the memo, `active` and the stop, and the proofs are for any number
of them. Two brokers and three jobs: a move to another broker, a twin after a lost
reply, and one more. `losses`, retries and requeues are bounded.

*The request path.* Three commands are the fewest for which one can be passed by
one that re-entered the Map while a third one waits; `BoundedBypass` counts takes,
so it does not depend on the lengths of queues, and two jobs that return let a
command stay in the Map, leave it served or unserved, and enter it again. For
three commands TLC finds the bound reached. `FewGone` bounds `gone` alone. Two brokers at once are a
handover; a runner adds the second role and the sweeps of `tick`. One server name
per owner and engine suffices, as an owner starts its next server on an engine
only after the slot was found free. Of three calls, one sleeps in the breaker, one
resets it, and one heals and trips it again; two calls get attempts to spare. Two
slots and two fallbacks: each slot may take either, or both.

*The locks.* Four processes: two dead holders in a row and two waiters beside;
the state lock needs a suspended holder, a waiter that judged, and one that takes
the lock between; the bound on winners is reached by three claimers, without a fault
as with one. `LeftoversGo` is a single leads-to over the locks, of which a behaviour
has one: one tableau in place of four.

*Maintenance.* One model: the queue is walked model by model, and models meet only
in the engine build and in the order. Two versions are a hand-over; two phases are
a resumption between them. The update's clock ends at 3 ticks, past both
throttles. The walk is checked in every world over its three models, two of them
with two groups. The four refusals are one of each class the verdict tells apart: a
403 stands for 404 and 410 (`SERVICE_LEVEL_STATUS_RE`), a 413 for the 400 of a content
filter, then 429 and 5xx; `TheWalkIsThorough` and `TheVerdictFits` are for all seven.

### Fairness

- BrokerScheduler: `pump` runs on (weak); the timer ticks even while clients keep
  the broker busy, and what the clock waits for happens: a pending `setImmediate`,
  the end of a request at its timeout, the end of a swap at its limit (strong, as
  handlers keep disabling them). These are the event loop, `AbortSignal.timeout`
  and the limits of `waitReady` and `stopProcessGroup`. Clients are not fair.
- Broker: the thread, the steps of `swapTo`, the timer, the end of each request;
  a missing record is written in the end and a stale mark expires
  (`STALE_MARK_MS`). Two assumptions bound the environment: the slot another
  broker holds is freed in the end, and servers do not die, nor records vanish,
  for ever; a model whose server dies before every dispatch has no progress in
  the code either. A record that keeps disagreeing with the server is *not*
  excluded: that is what the property is about.
- BrokerClient: each call's code and the stop's go on: a request is answered or
  fails (`AbortSignal.timeout`). That a job ever ends is not assumed; `StopEndsCalls`
  holds because the stop cancels it.
- AsyncLock, StateLock: a live process goes on, its critical section ends, and an
  untouched directory grows old. ModelLock: the same, with ageing strong, as other
  runners keep interrupting the age of a directory. MkdirLock: the deadline of a
  waiter comes though others go in and out (strong).
- CalibrationRunner: the runner's own steps, and that somebody asks for a runner
  while a model is queued, which the broker does with every held job. Who queues,
  removes, stops or kills is not fair.

## 4. Findings

1. `server.ts:505`: the sweep of the other engine and the claim are under two
   locks. Two brokers of a handover, on different engines, can both pass and run
   two main servers, against `server.ts:93`. With one broker at a time it cannot
   happen (proved, section 5).
2. `server.ts:875`: `draining` is checked before the body is awaited and not
   after; a job may be accepted by a broker that has begun to exit, and is never
   finished. For the same reason `FinalIsFinal` is stated for a broker that is
   not exiting.
3. `client.ts:185`: a broker told to exit by a signal gives its held jobs back
   while it still answers, and its health does not say that it exits. The client
   finds the same broker usable, is refused there until its retries are used up,
   and fails, against `server.ts:739`: "Never a failure".
4. `runner.ts:477`: a memory-limited record made on an older engine build gets
   Phase A alone, whose result cannot be written over a record without a body. Each
   attempt counts as a crash, the failed record cannot be written either, and the
   model stays queued without an answer, against `runner.ts:626`. `ModelsSettle`
   excludes that case by name and holds otherwise.

Other limits of the code, found while modelling and checked by no run:

- `scheduler.ts:125` promises that the next take starts after the command served
  last. When that command has left the Map, its position is lost (`:284`) and the
  take starts at the first command. The bypass stays bounded.
- `scheduler.ts:256` states a worst-case wait, "about T + D (+ draining in-flight
  and one load)". Two models keep it while a load and the linger take no longer than
  T (proved); with longer loads TLC exceeds it, as the minimum run of the other model
  may then end long after T. Three models do not keep it, and their wait is not bounded by the number of models either. `dueKey` takes the earliest deadline, so
  while two models hold jobs whose deadlines are no later than a third one's, the
  server may alternate between the two, and the third waits for a slice, a drain
  and a load each time. With every timing 1 and B = 1 the comment's
  bound is 4 ticks; TLC finds a wait of 7 with one job for each of three models,
  and of 11 with two jobs for each of the other two. That every
  wait ends, as late arrivals have late deadlines, is checked for two models
  (`QueuedJobsLeave`).
- `local-llama-server.ts:241`: of two waiters that judged one directory stale, the
  second removes the first one's fresh lock; `calibration/state.ts:60-64` renames,
  and a suspended waiter carries the fresh lock away in the same way. Without a
  killed or suspended process both exclude (proved).
- `bench-lock.ts:193`: "with n concurrent claimers winners <= (n+1)/2" holds while the
  lock of a live run speaks for it. A benchmark that outlives `BENCH_LOCK_TTL_MS` is
  no longer counted as held (`:100`; `:49-51` says as much), and one whose claimer
  is killed between the spawn and the commit runs under the pid of a dead process:
  each lets one more benchmark start. `WinnersBounded` counts them in `lapses`.
- `client.ts:322`: after a requeue within one attempt the key in `pendingByScope`
  is that of the first broker, so a retry does not find the job at the second.
  This is the move that `TwinOnlyAfterMove` excuses.
- `runner.ts:408-413`, `state.ts:136`: a `--force` that comes while its model is
  being recorded is removed with the item. A build that changes during Phase A is
  vouched for by the record (`runner.ts:479`, `609`). A forced item whose removal
  found the state lock busy is measured again. A hand-over file that was left over
  makes the next runner exit once.
- `protocol.ts:118-120`: a broker that exits late may erase its successor's state
  file between the read and the unlink. It is one of BrokerSpawn's mishaps.
- `foreground-repair.ts:18`: "a free lock with no new record means the updater died
  without booking anything". It may also have ended in good order: there is no
  readable settings file (`profile-detector.ts:367`), the section has a malformed list
  or keys that the user must mend, or was fixed meanwhile
  (`dynamic-maintainer.ts:401-437`), or the pass threw (929-943). The command is
  told that the update failed, and the requests left during such a pass are consumed
  with it (`profile-detector.ts:393`), except in the first case. `StarterHearsOutcome`
  excuses exactly these updates, and those killed before the stamp, each for the one
  command that started it.
- A refused connection rules the URL out for the rest of a walk, so
  `detectProviderOutage`, which asks for failures of two models, sees no network
  outage there (`index.ts:3414`). A 402 of a group is reported in words without a
  status (`index.ts:3351-3355`).
- Whatever else one group answers (400, 401, 403, 404, 410, 413, 429, 5xx) is taken for
  a failure of the model, and skips the model's other groups (`profile-fallback.ts:241`,
  274), those of another provider too: the comment says the failure "would repeat on
  every other group", and `profile-fallback.test.ts:214-251` pins it with two URLs. So
  a model that one provider refuses and a second one serves is passed by although it
  would have answered: the exception in `WalkIsThorough`, and worlds of the run.
- A 403 is no key error (`index.ts:2251` asks for a 401): keys that are all refused
  with a 403 start an update. `KeysRefused` in `VerdictFits` speaks of 401 alone.

## 5. Proofs

TLAPS checks every theorem to the last leaf, for all values of the constants
under the named assumptions of the modules. They are what the code has by its
constants: non-empty counts, functions with the right domains, `None`, `Nobody`
and `NoModel` outside the sets they extend, pids that differ, a pool without
repetitions (`Rotation!Distinct`), chains that have a head. TLC evaluates each on
a run. `PROJECT.json` lists the theorems with what each establishes.

**ServerRegistryProofs.** `OnePerSlot` is not inductive. The invariant adds what
an owner in the middle of `claimAndSpawn` relies on: the server in its hand is its
own (`MineIsMine`), the slot is empty between the sweep and the spawn
(`FreeIsFree`: nobody else can fill it, as the lock is held), the list about to be
written loses no live server (`KeptIsEnough`, `KeptOfEngine`), a server whose
entry is dropped is dead (`ReleasedIsDead`), and the only unrecorded server of a
live owner is the one just spawned (`UnrecordedIsMine`). `OneModelWithoutHandover`
adds `MaxBrokers = 1` and a finite set of owners, and two facts: another broker is
never up (`Alone`), and the engines a start has swept stay clean until it claims
(`SweptClean`).

**BrokersProofs.** Of Broker, the invariant `Control` says which server process can
run at each place of `swapTo` and of `shutdown`: none between the sweep and the claim,
only the one being loaded from `load` to `abort`, otherwise `server` or the one
being stopped (`ServerKnown`); no request is in flight during a swap
(`SwapAlone`); `pump` is not inside a swap or a stop (`PumpAlone`); and a shutdown
that no longer waits has every process in hand (`ShutdownSees`). That is what
the guards added by the reviews amount to together, and nothing in the code says
it in one place. The refinement `BrokerServes` maps every step of Broker to one of
JobService or to a step that changes nothing a client sees; it needs in addition
that the jobs in `running` were sent (`SlotsOfSent`).

Of BrokerSpawn: of the brokers that take jobs, all but one are due to a
mishap: all but the one in the state file (`FileKnown`), or, while somebody holds
the spawn lock, all but the one it asks to drain, or has started (`AskedKnown`,
`StartedKnown`), and before it starts one, all (`StartKnown`). The count is
carried as a bound on a cardinality (`Few`).

**BrokerClientProofs.** Why does `pendingByScope`, whose entries outlive attempts
and brokers, never give an attempt a job of another broker, and why is the
entry of a new attempt empty while the command still knows of a job? Because
`memo` only grows: brokers are met in the order they start (`InOrder`), so a call
never returns to a broker whose key it left behind (`Newest`, `Vacant`), and what
is in `active` is under its key (`ActiveKept`, `Keyed`). `ClientInv` holds these
for each call (`CallInv`) with the types; `StopInv` adds for a stop that its
snapshot and the calls' own cancels cover what is in `active` (`Quiet`,
`Cleared`). TLC had checked both on one call with three jobs and two calls with
two before they were proved.

**RequestPathProofs.** Of RetryLoop: the breaker's epochs tell a sleeper whether it
was reset (`Epochs`), its two counters are those of one streak without a success
(`Streak`, which relates them to history variables), a clock that refused a wait
had been started, and one dispatch has one (`Clocks`); who was billed past the
budget has returned (`Paid`).

Of FreeRotation: the fallbacks asked so far are exactly the first
`nextFallback` of the order (`ClaimedWasAsked`, `AskedWasClaimed`), each by one
slot (`AskedOnce`), although the cooldowns that made the order go on changing.

Of CommandRing, for any finite number n of two or more commands: one that
waits is passed at most n(n+1)/2 - 2 times, and once more for each other command
that leaves the Map unserved meanwhile (`BypassIsBounded`). That a round serves
everybody once is not enough: a command that leaves the Map served loses the
position of the round (`scheduler.ts:284`), the next take starts at the first
command, and it may enter again at the end. The invariant `Promised` adds to what
a command was passed the turns it may still wait for (`Turns`): they depend on the
length of the ring, its own place in it and the place of the command served last,
and each take lowers them by one at least, unless it serves the command itself. Whoever
leaves unserved may raise them by one; whoever enters, at the end, does not.

**BrokerSchedulerProofs.** The invariant `IInv` has the types; `QueuesRight`, that
each key's queue is well formed (CommandQueueProofs: what `enqueue`, `remove` and
`take` keep) and holds the jobs in state `queued` of its key; `Control`, what a
handler finds of the server, the swap and the run counters; and `Polled`, that
past `dropAbandoned` no queued job is abandoned, so that whatever a pump dispatches
is wanted (`AbandonedStayOut`). `PumpsLeaveNoWorkIdle` follows from it through
the rotation rules: a pump ends between `rotate` and `fill` only where the loaded
model has nothing to do, has no slot, or is asked to leave. `LoadedOnesServe`
needs one invariant more (`Served`): a model that was loaded for waiting work and
served none was loaded just now, its pump pending, or cancels emptied its queue; and
in that case, once its minimum run is over, no other model waits (`Unchallenged`), as
the linger has let it in before. Work that a submit brings then is served at once.
Hence the hypothesis `Linger <= MinRun`, which `DEFAULT_TIMINGS` keeps by far (1 s and
180 s) and the environment can override: with a longer linger another model may be due
when that submit comes, and the pump swaps before it serves it.

`WorstCaseWait` needs to know at every moment how long the other model may have
waited, and `TimeInv` says it as a bound (`Bounds`) for each stage of the loaded
one. A swap begins with the other model just unloaded, so that model's absence is
the swap's own time (`Swapping`), and the run's after it (`InItsRun`). Past the
minimum run pump dispatches only while nobody else is due (`Filling`), so the other
model was in time when the last request was sent, and has waited as much longer as
that request runs (`InFlight`). Then nothing is dispatched until the server is idle,
which is followed by a swap at once or, when the queue has emptied, after the linger
(`Draining`, `Lingering`). `WaitsAreBounded` is the sum: the longest timeout (or a
load and the minimum run, if these are longer), the longest request, the linger and
a load. TLC finds that sum reached less one, so no smaller bound holds; it checked
`TimeInv` on three configurations before the proof. `TwoModels` is what `Swapping`
rests on: the absence of a third model does not begin with the swap (section 4).
`WaitsAsDocumented` derives the words of `scheduler.ts:256` from it, on condition
that a load and the linger take no longer than the longest timeout, and the linger
no longer than the minimum run. With
`DEFAULT_TIMINGS` (T = 300 s, linger 1 s) that is a load of at most 299 s.

**FileLocksProofs.** While no process was killed, no directory of `withAsyncLock`
is stale and nobody is about to remove one (`NoTakeover`). For the state lock and
a model's lock the invariant says what is on disk at each place of the holder
(`HolderHasIt`; `OwnerHasIt`, with `JudgedRightly`, that nobody judges the lock of
a live runner to be a wreck). For the sidecars' lock,
`MakerHasIt` and `NothingLost` (the value read under the lock is still the file's).
The benchmark lock needs counting: each winner beyond the first has a loser or a
lapse, and one more when nothing is lost with the file that is there
(`EnoughLosers`). A thief removes only such a file (`StaleIsLoose`): what it judged
stale is past the TTL, or the pid of a process that is over, and a claimer's process
is over only once its child has its stamp or no run depends on it (`ExitedAfter`),
or its run is counted as lapsed; and a pid that it can know is of a process that has
made its claim (`KnownWasBorn`).

**MaintenanceProofs.** `CalInv`: who works has the claim (`Claimed`); what a runner
at each place assumes of its model's progress and record (`Prepared`); every phase
kept under a forced stamp was measured under one (`Stamped`, `Earned`); and a model
that is owed a record is in the queue (`WaitsQueued`). `UpdateInv`: the stamp is no later
than the clock, nor than the start of the child that writes it next (`StampsGrow`), and
what the command that started an update may count on (`Served`): its own child is
before the stamp, or the stamp is not older than its baseline, or that update booked
nothing. `WalkInv`:
the answers are among those a group may give, what is remembered as dead is what failed (`Remembered`) and what was passed over
was ruled out (`PassedIsSkipped`). The entries of a walk are a chain flattened by a
fold; the facts about them rest on a least counterexample (`Least`), as the
library's induction theorems cannot be instantiated.

## 6. Only model-checked

- Liveness (`QueuedJobsLeave`, `JobsGetOn`, `StopEndsCalls`, `LeftoversGo`,
  `ModelsSettle`): fairness is out of the prover's reach.
- The violated properties have their counterexamples.

## 7. Abstractions and what is not modelled

- A claim that fails after its spawn (the registry file cannot be written) is not
  an outcome of `claim` in Broker; in ServerRegistry it is a crash between
  `Spawn` and `Record` when the owner dies, and left out when it lives on.
- In Broker a stop always succeeds; ServerRegistry has the stops that fail. Broker
  has no gate for a broker of the old state format (`server.ts` 182-197, 796-799),
  and no Locals memory floor (207-262, 808-820). Both only delay a start or a
  dispatch.
- In AsyncLock a holder that is suspended for `STALE_MS` counts as killed.
- BrokerSpawn takes the spawn lock for exclusive, and ProfileUpdate the profile's
  lock; what those locks really give is AsyncLock's and BenchLock's subject. A
  command of ProfileUpdate that joins a running update is told "running" and hears
  the outcome of that update, which may answer another request than its own.
- BrokerClient leaves out the streams of progress and the usage history.
- BenchLock leaves out pids that are used again (a lock is then held until the TTL),
  lock files that cannot be written (a claim that is refused; a commit that fails
  leaves the claimer's stamp, as a killed claimer's), and the claim of a caller that
  has the lock already (`alreadyHeld`: the updater that hands it to its benchmark).
- In ProfileUpdate the files of records can be written (`writeDynamicProfilesState`
  and `writeDefaultProfilesState` swallow the error), and automatic maintenance is
  not disabled. The profile is `free` or `paid`: `local` has no maintainer pass.
- RetryLoop leaves out `brokerQueuedMs` (the time a request waited in the broker's
  queue stops the retry clock), bodies, and the classes of an error. The waits for a
  429 inside one request (`http.ts:486`) are part of the request.
- CalibrationRunner leaves out a model's weights and method, which make a record
  stale as the engine build does; its phases pass or throw. A crash that is
  counted before the model's progress file names its harness may be forgotten by the
  next pass (`state.ts:302`), which gives the model one attempt more.
- FallbackWalk leaves out the 402s that may be temporary or come from an entry without
  a group, the refusals to run a paid model from a free profile, and aborts by the
  breaker (RetryLoop). A 408 is a 5xx to the verdict, and is not apart. What a
  group answers does not change during a walk.
- The rate limiter (`rate-limiter.ts`) is not modelled: token bucket, AIMD, pool.
- Request bodies, models' answers, argv and headers, logs, and everything that is
  sequential file or HTTP processing (scanning tools, benchmarks, profiles,
  clustering, reports, set-up scripts) are not modelled: most of the repository's
  lines are of that kind.

## 8. Plan

Done: the models and runs of section 3, the proofs of section 5: every safety
invariant and action property of the passing runs is a theorem. Left:

1. What bounds the wait of one of three or more models: the jobs of the others with
   deadlines no later, times a slice, a drain and a load, once for each alternation;
   checked for three, then proved.
2. The refinement of JobService by BrokerScheduler, whose states of a job are
   coarser than Broker's.
3. RateLimiter: the token bucket with concurrent waiters, AIMD, the worker pool.
