-------------------------- MODULE BrokerScheduler --------------------------
(***************************************************************************)
(* The broker's queueing and rotation rules (broker/scheduler.ts) driven   *)
(* by the handlers of broker/server.ts.  The broker is one JavaScript      *)
(* thread: a handler runs to its end, and nearly every one ends by calling *)
(* pump.  pc says where that thread is: "wait" between handlers, and       *)
(* "drop", "rotate", "fill" for the three parts of pump.                   *)
(*                                                                         *)
(* The code keeps time stamps and only ever uses their distance to now.    *)
(* The model keeps those distances, as ages counted in ticks of the        *)
(* broker's 1 s timer; an age stops growing at the value from which no     *)
(* rule tells it apart any more (WaitCap for a job's wait).  A request     *)
(* runs for at most MaxExec ticks and a swap for at most MaxSwap: the      *)
(* execution timeouts and start-up limits of the code.                     *)
(*                                                                         *)
(* A finished job's identifier may be submitted again: it stands for a     *)
(* fresh job, so the stream of work never ends.  Server processes,         *)
(* calibration holds, drains and exits are the subject of module Broker.   *)
(***************************************************************************)
EXTENDS CommandQueue

CONSTANTS Keys,          \* queue keys: a model, its context and its engine
          NoKey,         \* null
          KeyOf,         \* the key of each job
          QueueTimeout,  \* each job's queue timeout
          Mortal,        \* the jobs whose client may stop polling
          Slots,         \* requests the loaded server takes at once
          Batch, MinRun, Linger, AbandonAfter, DefaultLoad,   \* BrokerTimings
          MaxExec, MaxSwap,   \* how long a request and a swap may take
          WaitCap        \* bound: waits are told apart up to here

ASSUME SchedulerAssumption ==
    /\ NoKey \notin Keys
    /\ KeyOf \in [Jobs -> Keys]
    /\ QueueTimeout \in [Jobs -> Nat]
    /\ Mortal \subseteq Jobs
    /\ {Slots, Batch, MinRun, Linger, AbandonAfter, DefaultLoad, MaxExec,
        MaxSwap, WaitCap} \subseteq Nat \ {0}

VARIABLES
    pc,              \* where the broker's thread is
    repump,          \* a setImmediate(pump) is pending
    state,           \* each job's state
    waited,          \* now - submittedAt of a queued job
    polling,         \* pollers > 0
    unpolled,        \* now - lastPolledAt of a queued job without a poll
    ran,             \* now - dispatchedAt of a running job
    queues,          \* Scheduler.queues and lastCommand, per key
    current,         \* Scheduler.current
    servedInRun, queuedAtLoad,   \* both told apart up to Batch
    runFor,          \* now - runStartedAt, up to MinRun
    idleFor,         \* now - lastActivityAt, up to Linger
    loadMs,          \* the load estimate per key
    server,          \* the key of the server that answers, or NoKey
    swap,            \* the swap in progress: its phase, key and age
    away             \* history: how long ago a key's model was last loaded

jobVars == <<state, waited, polling, unpolled, ran>>
runVars == <<current, servedInRun, queuedAtLoad, runFor, idleFor>>
vars == <<pc, repump, jobVars, queues, runVars, loadMs, server, swap, away>>

NoSwap == [phase |-> "none", key |-> NoKey, for |-> 0]

UpTo(bound, n) == Min({bound, n})

-----------------------------------------------------------------------------
(* What the rules look at. *)

Running == {j \in Jobs : state[j] = "running"}
Waiting(k) == queues[k].ring # <<>>
AllQueued == UNION {Queued(queues[k]) : k \in Keys}

\* The wait of a key's oldest job (oldestSubmittedAt).
OldestWait(k) == Max({waited[j] : j \in Queued(queues[k])})

\* longestWaiting(current): a tie is broken by the order of the Map, any order
\* here.
LongestWaiting ==
    LET others == {k \in Keys \ {current} : Waiting(k)}
    IN  {k \in others : \A o \in others : OldestWait(k) >= OldestWait(o)}

\* The time left to a job's deadline, submittedAt + queueTimeoutMs.
TimeLeft(j) == QueueTimeout[j] - waited[j]

\* dueKey: the other keys with the earliest deadline among those that passed
\* or fall within the key's own load time.
DueKeys ==
    LET near == {j \in AllQueued : /\ KeyOf[j] # current
                                   /\ TimeLeft(j) <= loadMs[KeyOf[j]]}
    IN  {KeyOf[j] : j \in {i \in near : \A o \in near :
                              TimeLeft(i) <= TimeLeft(o)}}

\* Mutation of MinimumServed: B and D no longer a minimum.
NoMinimum == TRUE

MinimumServed == \/ servedInRun >= UpTo(Batch, queuedAtLoad)
                 \/ runFor >= MinRun

\* Mutation of WantRotation: only an empty queue rotates (no rule 3).
RotateWhenEmpty ==
    IF LongestWaiting = {} THEN {}
    ELSE IF current = NoKey THEN LongestWaiting
    ELSE IF ~Waiting(current) /\ Running = {} /\ idleFor >= Linger
         THEN LongestWaiting ELSE {}

\* The keys wantRotation may answer; none stands for null, keep the model.
WantRotation ==
    IF LongestWaiting = {} THEN {}
    ELSE IF current = NoKey THEN LongestWaiting
    ELSE IF ~Waiting(current) /\ Running = {}
         THEN IF idleFor >= Linger THEN LongestWaiting ELSE {}
    ELSE IF MinimumServed THEN DueKeys ELSE {}

\* touch, done by the handlers of a job of the current model.
IdleAfter(j) == IF KeyOf[j] = current THEN 0 ELSE idleFor

-----------------------------------------------------------------------------

Init ==
    /\ pc = "wait" /\ repump = FALSE
    /\ state = [j \in Jobs |-> "new"]
    /\ waited = [j \in Jobs |-> 0]
    /\ polling = [j \in Jobs |-> FALSE]
    /\ unpolled = [j \in Jobs |-> 0]
    /\ ran = [j \in Jobs |-> 0]
    /\ queues = [k \in Keys |-> EmptyQueue]
    /\ current = NoKey
    /\ servedInRun = 0 /\ queuedAtLoad = 0 /\ runFor = 0 /\ idleFor = 0
    /\ loadMs = [k \in Keys |-> DefaultLoad]
    /\ server = NoKey
    /\ swap = NoSwap
    /\ away = [k \in Keys |-> WaitCap]

\* POST /v1/jobs and the first poll that follows it.
Submit(j) ==
    /\ pc = "wait" /\ state[j] = "new"
    /\ state' = [state EXCEPT ![j] = "queued"]
    /\ polling' = [polling EXCEPT ![j] = TRUE]
    /\ queues' = [queues EXCEPT ![KeyOf[j]] = Enqueue(@, j)]
    /\ idleFor' = IdleAfter(j)
    /\ pc' = "drop"
    /\ UNCHANGED <<repump, waited, unpolled, ran, current, servedInRun,
                   queuedAtLoad, runFor, loadMs, server, swap, away>>

\* The jobs of a set are queued no more, for good.
Leave(S) ==
    /\ state' = [j \in Jobs |-> IF j \in S THEN "new" ELSE state[j]]
    /\ waited' = [j \in Jobs |-> IF j \in S THEN 0 ELSE waited[j]]
    /\ polling' = [j \in Jobs |-> polling[j] /\ j \notin S]
    /\ unpolled' = [j \in Jobs |-> IF j \in S THEN 0 ELSE unpolled[j]]

\* One queued job leaves, by remove.
LeaveQueue(j) ==
    /\ Leave({j})
    /\ queues' = [queues EXCEPT ![KeyOf[j]] = RemoveJob(@, j)]

\* DELETE of a queued job: its handler calls no pump.
Cancel(j) ==
    /\ pc = "wait" /\ state[j] = "queued"
    /\ LeaveQueue(j)
    /\ UNCHANGED <<pc, repump, ran, runVars, loadMs, server, swap, away>>

\* The client of a queued job dies: its poll ends and none follows.
ClientDies(j) ==
    /\ pc = "wait" /\ state[j] = "queued" /\ polling[j] /\ j \in Mortal
    /\ polling' = [polling EXCEPT ![j] = FALSE]
    /\ UNCHANGED <<pc, repump, state, waited, unpolled, ran, queues, runVars,
                   loadMs, server, swap, away>>

\* The server's answer, or the execution timeout: dispatch's then and finally.
Answer(j) ==
    /\ pc = "wait" /\ state[j] = "running"
    /\ state' = [state EXCEPT ![j] = "new"]
    /\ ran' = [ran EXCEPT ![j] = 0]
    /\ idleFor' = IdleAfter(j)
    /\ pc' = "drop"
    /\ UNCHANGED <<repump, waited, polling, unpolled, queues, current,
                   servedInRun, queuedAtLoad, runFor, loadMs, server, swap,
                   away>>

\* The tick.  No request and no swap outlives its bound, and a pending
\* setImmediate runs before the clock moves.
Tick ==
    /\ pc = "wait" /\ ~repump
    /\ \A j \in Running : ran[j] < MaxExec
    /\ swap # NoSwap => swap.for < MaxSwap
    /\ waited' = [j \in Jobs |-> IF state[j] = "queued"
                                 THEN UpTo(WaitCap, waited[j] + 1) ELSE 0]
    /\ unpolled' = [j \in Jobs |-> IF state[j] = "queued" /\ ~polling[j]
                                   THEN UpTo(AbandonAfter + 1, unpolled[j] + 1)
                                   ELSE 0]
    /\ ran' = [j \in Jobs |-> IF state[j] = "running" THEN ran[j] + 1 ELSE 0]
    /\ runFor' = IF server = NoKey THEN 0 ELSE UpTo(MinRun, runFor + 1)
    /\ idleFor' = IF server = NoKey THEN 0 ELSE UpTo(Linger, idleFor + 1)
    /\ swap' = IF swap = NoSwap THEN swap ELSE [swap EXCEPT !.for = @ + 1]
    /\ away' = [k \in Keys |-> IF k = server THEN 0
                               ELSE UpTo(WaitCap, away[k] + 1)]
    /\ pc' = "drop"
    /\ UNCHANGED <<repump, state, polling, queues, current, servedInRun,
                   queuedAtLoad, loadMs, server>>

Immediate ==
    /\ pc = "wait" /\ repump
    /\ repump' = FALSE
    /\ pc' = "drop"
    /\ UNCHANGED <<jobVars, queues, runVars, loadMs, server, swap, away>>

-----------------------------------------------------------------------------
(* pump, in three parts *)

\* While a swap runs, pump returns at once.
PumpSkipped ==
    /\ pc = "drop" /\ swap # NoSwap
    /\ pc' = "wait"
    /\ UNCHANGED <<repump, jobVars, queues, runVars, loadMs, server, swap,
                   away>>

\* Mutation of Abandoned: a job is kept however long it is not polled.
NeverAbandoned == {}

Abandoned == {j \in AllQueued : ~polling[j] /\ unpolled[j] > AbandonAfter}

\* dropAbandoned, one job at a time.
DropAbandoned ==
    /\ pc = "drop" /\ swap = NoSwap
    /\ \E j \in Abandoned : LeaveQueue(j)
    /\ UNCHANGED <<pc, repump, ran, runVars, loadMs, server, swap, away>>

\* Then current follows the server.
PumpDrop ==
    /\ pc = "drop" /\ swap = NoSwap /\ Abandoned = {}
    /\ current' = IF server # NoKey THEN server ELSE current
    /\ pc' = "rotate"
    /\ UNCHANGED <<repump, jobVars, queues, servedInRun, queuedAtLoad, runFor,
                   idleFor, loadMs, server, swap, away>>

\* swapTo(next) starts once nothing is in flight; its stopServer clears server
\* and current at once, the rest takes time.
StartSwap ==
    /\ pc = "rotate"
    /\ Running = {}
    /\ \E next \in WantRotation \ {server} :
         swap' = [phase |-> IF server = NoKey THEN "starting" ELSE "stopping",
                  key |-> next, for |-> 0]
    /\ server' = NoKey
    /\ current' = IF server = NoKey THEN current ELSE NoKey
    /\ servedInRun' = 0 /\ queuedAtLoad' = 0 /\ runFor' = 0 /\ idleFor' = 0
    /\ pc' = "wait"
    /\ UNCHANGED <<repump, jobVars, queues, loadMs, away>>

KeepServing == WantRotation = {} /\ server # NoKey /\ current = server

\* No swap now: dispatch on the current model, or only wait.
NoSwapNow ==
    /\ pc = "rotate"
    /\ ~(Running = {} /\ WantRotation \ {server} # {})
    /\ pc' = IF KeepServing THEN "fill" ELSE "wait"
    /\ UNCHANGED <<repump, jobVars, queues, runVars, loadMs, server, swap,
                   away>>

\* Mutation of CanDispatch: the last slot stays free.
CanDispatchOneLess == Cardinality(Running) + 1 < Slots /\ Waiting(server)

CanDispatch == Cardinality(Running) < Slots /\ Waiting(server)

\* take and dispatch, once per free slot.
Dispatch ==
    /\ pc = "fill" /\ CanDispatch
    /\ LET j == NextJob(queues[server]) IN
       /\ state' = [state EXCEPT ![j] = "running"]
       /\ waited' = [waited EXCEPT ![j] = 0]
       /\ polling' = [polling EXCEPT ![j] = FALSE]
       /\ unpolled' = [unpolled EXCEPT ![j] = 0]
    /\ queues' = [queues EXCEPT ![server] = TakeNext(@)]
    /\ servedInRun' = UpTo(Batch, servedInRun + 1)
    /\ idleFor' = 0
    /\ UNCHANGED <<pc, repump, ran, current, queuedAtLoad, runFor, loadMs,
                   server, swap, away>>

PumpEnds ==
    /\ pc = "fill" /\ ~CanDispatch
    /\ pc' = "wait"
    /\ UNCHANGED <<repump, jobVars, queues, runVars, loadMs, server, swap,
                   away>>

-----------------------------------------------------------------------------
(* the rest of swapTo *)

\* The old server is gone.  Its successor is started only if its queue still
\* has a job; otherwise swapTo returns and asks for another pump.
OldStopped ==
    /\ pc = "wait" /\ swap.phase = "stopping"
    /\ IF Waiting(swap.key)
       THEN swap' = [swap EXCEPT !.phase = "starting"] /\ UNCHANGED repump
       ELSE swap' = NoSwap /\ repump' = TRUE
    /\ UNCHANGED <<pc, jobVars, queues, runVars, loadMs, server, away>>

StartRun(k) ==
    /\ current' = k
    /\ servedInRun' = 0
    /\ queuedAtLoad' = UpTo(Batch, Cardinality(Queued(queues[k])))
    /\ runFor' = 0
    /\ idleFor' = 0

\* The new server is ready and its record valid: startRun.
Ready ==
    /\ pc = "wait" /\ swap.phase = "starting"
    /\ server' = swap.key
    /\ loadMs' = [loadMs EXCEPT ![swap.key] = swap.for]
    /\ StartRun(swap.key)
    /\ swap' = NoSwap
    /\ repump' = TRUE
    /\ away' = [away EXCEPT ![swap.key] = 0]
    /\ UNCHANGED <<pc, jobVars, queues>>

\* The start failed: the queued jobs of that key fail with it.
StartFails ==
    /\ pc = "wait" /\ swap.phase = "starting"
    /\ Leave(Queued(queues[swap.key]))
    /\ queues' = [queues EXCEPT ![swap.key] = Emptied(@)]
    /\ current' = IF current = swap.key THEN NoKey ELSE current
    /\ swap' = NoSwap
    /\ repump' = TRUE
    /\ UNCHANGED <<pc, ran, servedInRun, queuedAtLoad, runFor, idleFor, loadMs,
                   server, away>>

Pump == \/ PumpSkipped \/ DropAbandoned \/ PumpDrop \/ StartSwap \/ NoSwapNow
        \/ Dispatch \/ PumpEnds

Next ==
    \/ \E j \in Jobs : Submit(j) \/ Cancel(j) \/ ClientDies(j) \/ Answer(j)
    \/ Tick \/ Immediate
    \/ PumpSkipped \/ DropAbandoned \/ PumpDrop \/ StartSwap \/ NoSwapNow
    \/ Dispatch \/ PumpEnds
    \/ OldStopped \/ Ready \/ StartFails

Spec == Init /\ [][Next]_vars

\* What the clock waits for: a pending setImmediate, a request at its execution
\* timeout, a swap at its limit.
ClockWaitsFor ==
    \/ Immediate
    \/ \E j \in Jobs : ran[j] = MaxExec /\ Answer(j)
    \/ swap.for = MaxSwap /\ (OldStopped \/ Ready \/ StartFails)

\* A handler that began runs on, time passes and what it waits for happens,
\* however busy the clients keep the broker.
Fairness == WF_vars(Pump) /\ SF_vars(Tick) /\ SF_vars(ClockWaitsFor)

FairSpec == Spec /\ Fairness

-----------------------------------------------------------------------------

\* Besides the types: the jobs in the queues are the jobs in state "queued".
TypeOK ==
    /\ pc \in {"wait", "drop", "rotate", "fill"} /\ repump \in BOOLEAN
    /\ state \in [Jobs -> {"new", "queued", "running"}]
    /\ waited \in [Jobs -> 0..WaitCap]
    /\ polling \in [Jobs -> BOOLEAN]
    /\ unpolled \in [Jobs -> 0..AbandonAfter + 1]
    /\ ran \in [Jobs -> 0..MaxExec]
    /\ queues \in [Keys -> Queue]
    /\ AllQueued = {j \in Jobs : state[j] = "queued"}
    /\ current \in Keys \cup {NoKey} /\ server \in Keys \cup {NoKey}
    /\ servedInRun \in 0..Batch /\ queuedAtLoad \in 0..Batch
    /\ runFor \in 0..MinRun /\ idleFor \in 0..Linger
    /\ loadMs \in [Keys -> Nat]
    /\ swap \in [phase : {"none", "stopping", "starting"},
                 key : Keys \cup {NoKey}, for : 0..MaxSwap]
    /\ away \in [Keys -> 0..WaitCap]

\* The end of the C1 livelock: a model that was loaded for waiting work is not
\* unloaded before it served some of it, however overdue the other models are.
\* (Excused: a queue that cancels emptied, during the load or after it; a model
\* loaded with an empty queue has a minimum slice of none.)
ServedBeforeUnload ==
    [][server # NoKey /\ server' = NoKey /\ queuedAtLoad > 0
       => servedInRun > 0 \/ ~Waiting(server)]_vars

\* Each pump leaves no work idle: with a free slot the loaded model has nothing
\* queued, unless a rotation is due, and then another model's work is what it
\* waits for; with no model loaded nothing is queued, or a swap is on its way
\* or requests of the last model are still in flight.
PumpLeavesNoWorkIdle ==
    [][pc # "wait" /\ pc' = "wait" =>
         IF server' # NoKey
         THEN \/ Cardinality(Running') = Slots
              \/ ~Waiting(server)'
              \/ DueKeys' # {}
         ELSE swap' # NoSwap \/ Running' # {} \/ AllQueued' = {}]_vars

\* Spec 4: a job nobody polled for the abandon time never runs.
AbandonedNeverRun ==
    [][\A j \in Jobs : state[j] = "queued" /\ state'[j] = "running"
                       => unpolled[j] <= AbandonAfter]_vars

LargestTimeout == Max({QueueTimeout[j] : j \in Jobs})

\* How long a model has waited to be loaded: its oldest queued job's wait, or
\* the time since its last turn when that one is shorter.
Absence(k) == IF k # server /\ Waiting(k) THEN UpTo(away[k], OldestWait(k))
              ELSE 0

\* By then a model that waits is due and the loaded one had its minimum run.
Late == Max({LargestTimeout, MaxSwap + MinRun})

\* "Worst-case queue wait: about T + D (+ draining in-flight and one load)":
\* the time within which a model with queued work is loaded, when it shares the
\* server with one other.  The minimum run of the other is part of T unless a
\* load and D are longer, and the linger is part of the draining: a queue that
\* has just emptied keeps the server for it, however late the others are.
WorstCaseWait ==
    \A k \in Keys : Absence(k) < Late + MaxExec + Linger + MaxSwap

\* Waiting is never for ever: a queued job runs, fails with its model, or is
\* given up by its own client.
QueuedJobsLeave == \A j \in Jobs : state[j] = "queued" ~> state[j] # "queued"
=============================================================================
