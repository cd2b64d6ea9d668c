------------------------------- MODULE Broker -------------------------------
(***************************************************************************)
(* One broker process (broker/server.ts): its jobs from the POST to their  *)
(* end, the one server it runs, the swap from a model to the next, the     *)
(* holds for calibration, and its exit.  The broker is one JavaScript      *)
(* thread, but swapTo, stopServer, shutdown and the reading of a request   *)
(* body are suspended at each await, and any handler may run there.        *)
(*                                                                         *)
(* Time is left out: a limit may pass whenever its guard lets it matter.   *)
(* Which of the waiting models comes next, and when, is left open too: the *)
(* rules are the subject of BrokerScheduler.  What other processes do to   *)
(* the registry (ServerRegistry) is the outcome of a sweep or a claim.     *)
(* Once shutdown closed its HTTP server the process ends at once.          *)
(***************************************************************************)
EXTENDS FiniteSets, Integers

CONSTANTS Jobs,      \* the jobs clients may submit
          Models,    \* the models: one queue key each
          ModelOf,   \* the model of each job
          NoModel,   \* null
          Slots,     \* requests a server takes at once
          MaxStale   \* MAX_STALE_LOADS

ASSUME BrokerAssumption ==
    /\ ModelOf \in [Jobs -> Models]
    /\ NoModel \notin Models
    /\ Slots \in Nat \ {0}
    /\ MaxStale \in Nat

VARIABLES
    state,      \* each job's state; "new" when no client knows it
    queued,     \* the jobs the Scheduler holds
    held,       \* the jobs held for calibration
    running,    \* the jobs with an AbortController
    server,     \* the model of the server that answers, or NoModel
    current,    \* Scheduler.current
    procs,      \* the models whose server processes run
    stopping,   \* the server stopServer is stopping, or NoModel
    swap,       \* where swapTo is, the key it loads, and whether it awaits the
                \* end of a stop it started
    turn,       \* "pump" and its parts while pump runs, else "idle"
    draining,
    shutdown,   \* where shutdown is, and the server it stops besides server
    record,     \* each model's calibration record, on disk
    mark,       \* staleRecords
    staleLoads  \* consecutive loads that did not match the record, told apart
                \* up to MaxStale + 1

jobVars == <<state, queued, held, running>>
serverVars == <<server, current, procs, stopping, swap>>
exitVars == <<draining, shutdown>>
recordVars == <<record, mark, staleLoads>>
vars == <<jobVars, serverVars, turn, exitVars, recordVars>>

Final == {"done", "failed", "cancelled", "requeued"}
exiting == shutdown.at # "no"
gone == shutdown.at = "gone"
Of(m) == {j \in Jobs : ModelOf[j] = m}
NoSwap == [at |-> "off", key |-> NoModel, waits |-> FALSE]

\* calibrationVerdict: a record marked stale counts as missing.
Verdict(m) == IF m \in mark /\ record[m] = "ok" THEN "missing" ELSE record[m]

\* finish, for a set of jobs.
Finish(S, end) == [j \in Jobs |-> IF j \in S THEN end ELSE state[j]]

Init ==
    /\ state = [j \in Jobs |-> "new"]
    /\ queued = {} /\ held = {} /\ running = {}
    /\ server = NoModel /\ current = NoModel /\ procs = {}
    /\ stopping = NoModel /\ swap = NoSwap
    /\ turn = "idle" /\ draining = FALSE
    /\ shutdown = [at |-> "no", key |-> NoModel]
    /\ record \in [Models -> {"missing", "ok"}]
    /\ mark = {} /\ staleLoads = [m \in Models |-> 0]

\* What shutdown awaited is over: it goes on before the next event is looked at.
ShutdownGoesOn == shutdown.at = "stop" /\ stopping = NoModel

\* The thread is free to run a handler.
Free == turn = "idle" /\ ~gone /\ ~ShutdownGoesOn

-----------------------------------------------------------------------------
(* clients *)

\* POST /v1/jobs up to the await of its body.
Post(j) ==
    /\ Free /\ ~draining /\ ~exiting
    /\ state[j] = "new" /\ j \notin queued \cup running
    /\ state' = [state EXCEPT ![j] = "posting"]
    /\ UNCHANGED <<queued, held, running, serverVars, turn, exitVars,
                   recordVars>>

\* releaseHeld: what each held job's record says now.
Released == {j \in held : Verdict(ModelOf[j]) = "ok"}
GivenUp == {j \in held : Verdict(ModelOf[j]) = "failed"}

\* Mutation of Overtaken: the new job is queued before the older held ones.
NoneOvertaken(j) == {}

\* The held jobs a POST releases: all that may go, if one is of its model.
Overtaken(j) == IF held \cap Of(ModelOf[j]) = {} THEN {} ELSE Released

\* The rest of the POST: the job is held, failed, or queued behind the older
\* held jobs.
Body(j) ==
    /\ Free /\ state[j] = "posting"
    /\ LET v == Verdict(ModelOf[j]) IN
       \/ /\ v = "missing"
          /\ state' = [state EXCEPT ![j] = "held"]
          /\ held' = held \cup {j}
          /\ UNCHANGED <<queued, turn>>
       \/ /\ v = "failed"
          /\ state' = [state EXCEPT ![j] = "failed"]
          /\ UNCHANGED <<queued, held, turn>>
       \/ /\ v = "ok"
          /\ LET lost == IF Overtaken(j) = {} THEN {} ELSE GivenUp IN
             /\ state' = [i \in Jobs |->
                            IF i \in Overtaken(j) \cup {j} THEN "queued"
                            ELSE IF i \in lost THEN "failed" ELSE state[i]]
             /\ queued' = queued \cup Overtaken(j) \cup {j}
             /\ held' = held \ (Overtaken(j) \cup lost)
          /\ turn' = "pump"
    /\ UNCHANGED <<running, serverVars, exitVars, recordVars>>

\* DELETE.  A running job's request ends with the abort, later.
Cancel(j) ==
    /\ Free /\ state[j] \in {"queued", "held", "running"}
    /\ state' = [state EXCEPT ![j] = "cancelled"]
    /\ queued' = queued \ {j}
    /\ held' = held \ {j}
    /\ UNCHANGED <<running, serverVars, turn, exitVars, recordVars>>

\* The final state reached its client, or was kept long enough: the job is
\* forgotten, and its name stands for another one.
Forget(j) ==
    /\ Free /\ state[j] \in Final /\ j \notin queued \cup running
    /\ state' = [state EXCEPT ![j] = "new"]
    /\ UNCHANGED <<queued, held, running, serverVars, turn, exitVars,
                   recordVars>>

\* POST /v1/shutdown: a client of another version.  It changes nothing in a
\* broker that exits already.
Drain ==
    /\ Free /\ ~exiting
    /\ draining' = TRUE
    /\ turn' = "pump"
    /\ UNCHANGED <<jobVars, serverVars, shutdown, recordVars>>

-----------------------------------------------------------------------------
(* the server and the records *)

\* Mutation of CurrentAfterDeath: current keeps the dead server's model.
CurrentKept == current

CurrentAfterDeath == NoModel

\* Mutation of Awaited: a job the client cancelled fails with its request.
AnyState(j) == TRUE

\* The end of the request still matters to the job.
Awaited(j) == state[j] = "running"

\* A request ends: an answer, an error, a timeout, the abort of a cancel.  An
\* error of a dead server makes the broker forget the server.
Answer(j) ==
    /\ Free /\ j \in running
    /\ running' = running \ {j}
    /\ \/ /\ ModelOf[j] \in procs
          /\ \E end \in {"done", "failed"} :
               state' = IF Awaited(j) THEN Finish({j}, end) ELSE state
          /\ UNCHANGED <<server, current>>
       \/ /\ ModelOf[j] \notin procs
          /\ state' = IF Awaited(j) THEN Finish({j}, "failed") ELSE state
          /\ IF Awaited(j) /\ server = ModelOf[j]
             THEN server' = NoModel /\ current' = CurrentAfterDeath
             ELSE UNCHANGED <<server, current>>
    /\ turn' = "pump"
    /\ UNCHANGED <<queued, held, procs, stopping, swap, exitVars, recordVars>>

ServerDies(m) ==
    /\ m \in procs /\ ~gone
    /\ procs' = procs \ {m}
    /\ UNCHANGED <<jobVars, server, current, stopping, swap, turn, exitVars,
                   recordVars>>

\* The runner, or a user, writes the model's record; a new stamp ends the mark.
Calibrated(m) ==
    /\ ~gone
    /\ \E v \in {"ok", "failed"} : record' = [record EXCEPT ![m] = v]
    /\ mark' = mark \ {m}
    /\ UNCHANGED <<jobVars, serverVars, turn, exitVars, staleLoads>>

\* STALE_MARK_MS passed.
MarkExpires(m) ==
    /\ m \in mark /\ ~gone
    /\ mark' = mark \ {m}
    /\ UNCHANGED <<jobVars, serverVars, turn, exitVars, record, staleLoads>>

RecordRemoved(m) ==
    /\ record[m] # "missing" /\ ~gone
    /\ record' = [record EXCEPT ![m] = "missing"]
    /\ UNCHANGED <<jobVars, serverVars, turn, exitVars, mark, staleLoads>>

-----------------------------------------------------------------------------
(* the tick and pump *)

\* The 1 s tick.
Tick ==
    /\ Free /\ ~exiting
    /\ turn' = "pump"
    /\ UNCHANGED <<jobVars, serverVars, exitVars, recordVars>>

\* The tick that looks at the held jobs' records too (every HELD_CHECK_MS).
HeldTick ==
    /\ Free /\ ~exiting /\ Released \cup GivenUp # {}
    /\ state' = [j \in Jobs |-> IF j \in Released THEN "queued"
                                ELSE IF j \in GivenUp THEN "failed"
                                ELSE state[j]]
    /\ queued' = queued \cup Released
    /\ held' = held \ (Released \cup GivenUp)
    /\ turn' = "pump"
    /\ UNCHANGED <<running, serverVars, exitVars, recordVars>>

\* Mutation of PumpBlocked: pump does not wait for a stop (review M4).
SwapOnly == exiting \/ swap # NoSwap

PumpBlocked == exiting \/ swap # NoSwap \/ stopping # NoModel

PumpReturns ==
    /\ turn = "pump" /\ PumpBlocked
    /\ turn' = "idle"
    /\ UNCHANGED <<jobVars, serverVars, exitVars, recordVars>>

\* dropAbandoned, the held jobs nobody polls, and a server that died idle.
PumpDrops ==
    /\ turn = "pump" /\ ~PumpBlocked
    /\ \E lost \in SUBSET queued, back \in SUBSET held :
         /\ state' = [j \in Jobs |-> IF j \in lost THEN "cancelled"
                                     ELSE IF j \in back THEN "requeued"
                                     ELSE state[j]]
         /\ queued' = queued \ lost
         /\ held' = held \ back
    /\ LET dead == server # NoModel /\ server \notin procs IN
       /\ server' = IF dead THEN NoModel ELSE server
       /\ current' = IF dead THEN CurrentAfterDeath
                     ELSE IF server # NoModel THEN server ELSE current
    /\ turn' = "rotate"
    /\ UNCHANGED <<running, procs, stopping, swap, exitVars, recordVars>>

\* The models wantRotation may answer, NoModel for null.
Choices ==
    LET others == {ModelOf[j] : j \in queued} \ {current} IN
    IF others # {} /\ current = NoModel THEN others ELSE others \cup {NoModel}

\* Mutation of MaySwap: the requests in flight are not waited for.
SwapAnyTime == TRUE

MaySwap == running = {}

\* swapTo(next) up to its first await: the stop of the old server, or the
\* sweep of the other engine's registry.
PumpSwaps ==
    /\ turn = "rotate" /\ MaySwap
    /\ \E next \in Choices \ {NoModel, server} :
         swap' = [at |-> IF server = NoModel THEN "sweep" ELSE "unload",
                  key |-> next, waits |-> server # NoModel]
    /\ stopping' = server
    /\ server' = NoModel
    /\ current' = IF server = NoModel THEN current ELSE NoModel
    /\ turn' = "idle"
    /\ UNCHANGED <<jobVars, procs, exitVars, recordVars>>

PumpKeeps ==
    /\ turn = "rotate"
    /\ \E next \in Choices :
         /\ ~(next # NoModel /\ MaySwap /\ next # server)
         /\ turn' = IF next = NoModel /\ server # NoModel /\ current = server
                    THEN "fill" ELSE "rest"
    /\ UNCHANGED <<jobVars, serverVars, exitVars, recordVars>>

\* take and dispatch.
Dispatch(j) ==
    /\ turn = "fill"
    /\ j \in queued \cap Of(server) /\ Cardinality(running) < Slots
    /\ state' = [state EXCEPT ![j] = "running"]
    /\ queued' = queued \ {j}
    /\ running' = running \cup {j}
    /\ UNCHANGED <<held, serverVars, turn, exitVars, recordVars>>

PumpFilled ==
    /\ turn = "fill"
    /\ queued \cap Of(server) = {} \/ Cardinality(running) >= Slots
    /\ turn' = "rest"
    /\ UNCHANGED <<jobVars, serverVars, exitVars, recordVars>>

Idle == queued = {} /\ running = {}

\* Nothing to stop or to exit for, or not yet.
PumpRests ==
    /\ turn = "rest"
    /\ ~(Idle /\ draining)
    /\ turn' = "idle"
    /\ UNCHANGED <<jobVars, serverVars, exitVars, recordVars>>

IdleStop ==
    /\ turn = "rest" /\ Idle /\ ~draining /\ server # NoModel
    /\ stopping' = server
    /\ server' = NoModel /\ current' = NoModel
    /\ turn' = "idle"
    /\ UNCHANGED <<jobVars, procs, swap, exitVars, recordVars>>

-----------------------------------------------------------------------------
(* stopServer and swapTo *)

\* The process group is gone and its entry released.
StopDone ==
    /\ turn = "idle" /\ ~gone /\ stopping # NoModel
    /\ procs' = procs \ {stopping}
    /\ stopping' = NoModel
    /\ UNCHANGED <<jobVars, server, current, swap, turn, exitVars, recordVars>>

\* swapTo goes on: it is at this place, and the stop it awaits is over.
At(where) == /\ turn = "idle" /\ ~gone
             /\ swap.at = where
             /\ IF swap.waits THEN stopping = NoModel ELSE ~ShutdownGoesOn

\* The end of swapTo: the finally clause, with or without its setImmediate.
SwapEnds == swap' = NoSwap /\ turn' = "pump"

\* failQueued, and failModel for the held jobs too.
FailJobs(S) ==
    /\ state' = Finish(S, "failed")
    /\ queued' = queued \ S
    /\ held' = held \ S
    /\ UNCHANGED running

Wanted == queued \cap Of(swap.key)

\* The old server is stopped.
Unloaded ==
    /\ At("unload")
    /\ IF Wanted = {}
       THEN SwapEnds
       ELSE /\ swap' = [swap EXCEPT !.at = "sweep", !.waits = FALSE]
            /\ UNCHANGED turn
    /\ UNCHANGED <<jobVars, server, current, procs, stopping, exitVars,
                   recordVars>>

\* The other engine is swept, a port is found, the claim starts.
Swept ==
    /\ At("sweep")
    /\ swap' = [swap EXCEPT !.at = "claim"]
    /\ UNCHANGED <<jobVars, server, current, procs, stopping, turn, exitVars,
                   recordVars>>

\* Another broker's main is in the way: the jobs wait for the next tick.
SlotBusy ==
    /\ At("sweep") \/ At("claim")
    /\ swap' = NoSwap
    /\ UNCHANGED <<jobVars, server, current, procs, stopping, turn, exitVars,
                   recordVars>>

\* The catch clause for a start that spawned nothing.
StartFails ==
    /\ At("sweep") \/ At("claim")
    /\ FailJobs(Wanted)
    /\ current' = IF current = swap.key THEN NoModel ELSE current
    /\ SwapEnds
    /\ UNCHANGED <<server, procs, stopping, exitVars, recordVars>>

\* claimAndSpawn resolved; an exiting broker stops the new server at once.
Claimed ==
    /\ At("claim")
    /\ procs' = procs \cup {swap.key}
    /\ swap' = [swap EXCEPT !.at = IF exiting THEN "abort" ELSE "load"]
    /\ UNCHANGED <<jobVars, server, current, stopping, turn, exitVars,
                   recordVars>>

Ready ==
    /\ At("load") /\ swap.key \in procs
    /\ server' = swap.key
    /\ swap' = [swap EXCEPT !.at = "check"]
    /\ UNCHANGED <<jobVars, current, procs, stopping, turn, exitVars,
                   recordVars>>

\* It died or did not become ready in time.
NotReady ==
    /\ At("load")
    /\ swap' = [swap EXCEPT !.at = "abort"]
    /\ UNCHANGED <<jobVars, server, current, procs, stopping, turn, exitVars,
                   recordVars>>

\* The catch clause after stopOwnServer of what was spawned.
Aborted ==
    /\ At("abort")
    /\ procs' = procs \ {swap.key}
    /\ FailJobs(Wanted)
    /\ current' = IF current = swap.key THEN NoModel ELSE current
    /\ SwapEnds
    /\ UNCHANGED <<server, stopping, exitVars, recordVars>>

\* The record describes what was loaded: startRun.  A shutdown may have taken
\* the server away meanwhile; the log line then throws.
Matches ==
    /\ At("check") /\ record[swap.key] = "ok" /\ swap.key \in procs
    /\ staleLoads' = [staleLoads EXCEPT ![swap.key] = 0]
    /\ current' = swap.key
    /\ IF server = NoModel
       THEN swap' = [swap EXCEPT !.at = "abort"] /\ UNCHANGED turn
       ELSE SwapEnds
    /\ UNCHANGED <<jobVars, server, procs, stopping, exitVars, record, mark>>

\* stopServer inside swapTo; it returns at once when there is no server.
StopInSwap(where) ==
    /\ swap' = [swap EXCEPT !.at = where, !.waits = server # NoModel]
    /\ stopping' = IF server # NoModel THEN server ELSE stopping
    /\ server' = NoModel
    /\ current' = IF server # NoModel THEN NoModel ELSE current

\* The record went, or describes something else.
Mismatch ==
    /\ At("check")
    /\ record[swap.key] = "ok" => swap.key \in procs
    /\ staleLoads' = [staleLoads EXCEPT ![swap.key] =
                                  IF @ > MaxStale THEN @ ELSE @ + 1]
    /\ StopInSwap("stale")
    /\ UNCHANGED <<jobVars, procs, turn, exitVars, record, mark>>

\* What it loaded could not be read.
Unreadable ==
    /\ At("check")
    /\ StopInSwap("unreadable")
    /\ UNCHANGED <<jobVars, procs, turn, exitVars, recordVars>>

\* Mutation of TooManyStale: the mismatches are not counted (review C1).
NeverTooMany(m) == FALSE

TooManyStale(m) == staleLoads[m] > MaxStale

\* The model's jobs are held again, until it is calibrated.
HeldAgain ==
    /\ At("stale") /\ ~TooManyStale(swap.key)
    /\ state' = Finish(Wanted, "held")
    /\ queued' = queued \ Wanted
    /\ held' = held \cup Wanted
    /\ mark' = mark \cup {swap.key}
    /\ SwapEnds
    /\ UNCHANGED <<running, server, current, procs, stopping, exitVars, record,
                   staleLoads>>

StaleGivenUp ==
    /\ At("stale") /\ TooManyStale(swap.key)
    /\ FailJobs((queued \cup held) \cap Of(swap.key))
    /\ mark' = mark \ {swap.key}
    /\ staleLoads' = [staleLoads EXCEPT ![swap.key] = 0]
    /\ SwapEnds
    /\ UNCHANGED <<server, current, procs, stopping, exitVars, record>>

UnreadableGivenUp ==
    /\ At("unreadable")
    /\ FailJobs((queued \cup held) \cap Of(swap.key))
    /\ SwapEnds
    /\ UNCHANGED <<server, current, procs, stopping, exitVars, recordVars>>

-----------------------------------------------------------------------------
(* shutdown *)

\* shutdown up to its first await.  The aborted requests fail at once; the
\* queued jobs fail but stay in the Scheduler.
ShutdownBegins(heldEnd) ==
    /\ state' = [j \in Jobs |->
                    IF j \in held THEN heldEnd
                    ELSE IF state[j] \in {"queued", "running"} THEN "failed"
                    ELSE state[j]]
    /\ held' = {}
    /\ running' = {}
    /\ shutdown' = [at |-> "stop", key |-> NoModel]
    /\ stopping' = IF stopping # NoModel THEN stopping ELSE server
    /\ server' = IF stopping # NoModel THEN server ELSE NoModel
    /\ current' = IF stopping = NoModel /\ server # NoModel THEN NoModel
                  ELSE current
    /\ turn' = "idle"
    /\ UNCHANGED <<queued, procs, swap, draining, recordVars>>

\* The queue is drained after a handover; nothing was asked for a long time.
PumpExits ==
    /\ turn = "rest" /\ Idle
    /\ draining \/ (server = NoModel /\ held = {})
    /\ ShutdownBegins("requeued")

\* A signal or a crash of the broker; the config directory that vanished.
Exit ==
    /\ Free /\ ~exiting
    /\ \E end \in {"requeued", "failed"} : ShutdownBegins(end)

\* Mutation of Loading: shutdown looks at the ready server only (review M5).
NothingLoading == NoModel

\* The model whose start is under way, from its claim to swapTo's finally.
Loading == IF swap.at \in {"claim", "load", "check", "stale", "unreadable",
                            "abort"}
           THEN swap.key ELSE NoModel

\* The stops are over.  A start under way is awaited and stopped.
ShutdownStopped ==
    /\ turn = "idle" /\ ShutdownGoesOn
    /\ shutdown' = [at |-> IF Loading = NoModel THEN "gone"
                           ELSE IF swap.at = "claim" THEN "claim" ELSE "kill",
                    key |-> Loading]
    /\ UNCHANGED <<jobVars, serverVars, turn, draining, recordVars>>

\* The claim shutdown awaited settled: what it spawned is stopped.
ShutdownClaimed ==
    /\ turn = "idle" /\ shutdown.at = "claim" /\ swap.at # "claim"
    /\ shutdown' = [shutdown EXCEPT !.at = IF swap.at = "off" THEN "gone"
                                           ELSE "kill"]
    /\ UNCHANGED <<jobVars, serverVars, turn, draining, recordVars>>

ShutdownKilled ==
    /\ turn = "idle" /\ shutdown.at = "kill"
    /\ procs' = procs \ {shutdown.key}
    /\ shutdown' = [shutdown EXCEPT !.at = "gone"]
    /\ UNCHANGED <<jobVars, server, current, stopping, swap, turn, draining,
                   recordVars>>

-----------------------------------------------------------------------------

SwapStep == \/ StopDone \/ Unloaded \/ Swept \/ SlotBusy \/ StartFails
            \/ Claimed \/ Ready \/ NotReady \/ Aborted \/ Matches
            \/ Mismatch \/ Unreadable \/ HeldAgain \/ StaleGivenUp
            \/ UnreadableGivenUp

PumpStep == \/ PumpReturns \/ PumpDrops \/ PumpSwaps \/ PumpKeeps \/ PumpFilled
            \/ PumpRests \/ IdleStop \/ PumpExits \/ \E j \in Jobs : Dispatch(j)

ShutdownStep == ShutdownStopped \/ ShutdownClaimed \/ ShutdownKilled

Next ==
    \/ \E j \in Jobs : Post(j) \/ Body(j) \/ Cancel(j) \/ Forget(j) \/ Answer(j)
    \/ \E m \in Models : \/ ServerDies(m) \/ Calibrated(m) \/ MarkExpires(m)
                          \/ RecordRemoved(m)
    \/ Drain \/ Tick \/ HeldTick \/ Exit
    \/ PumpStep \/ SwapStep \/ ShutdownStep

Spec == Init /\ [][Next]_vars

\* The event loop runs what is ready, the timer ticks, a server answers or times
\* out, the slot another broker holds is freed in the end, and the calibrator
\* writes the records that are missing.  Servers stop dying and records stop
\* being removed at some point: no queue can be served by a server that dies
\* before each dispatch.
Fairness ==
    /\ WF_vars(PumpStep)
    /\ SF_vars(SwapStep) /\ SF_vars(Swept) /\ SF_vars(Claimed)
    /\ SF_vars(Tick) /\ SF_vars(HeldTick)
    /\ \A j \in Jobs : SF_vars(Answer(j))
    /\ \A m \in Models : WF_vars(record[m] = "missing" /\ Calibrated(m))
                        /\ WF_vars(MarkExpires(m))
    /\ <>[][\A m \in Models : ~ServerDies(m) /\ ~RecordRemoved(m)]_vars

FairSpec == Spec /\ Fairness

-----------------------------------------------------------------------------

\* The types, and that a job is where its state says.
TypeOK ==
    /\ state \in [Jobs -> {"new", "posting", "queued", "held", "running"}
                           \cup Final]
    /\ held = {j \in Jobs : state[j] = "held"}
    /\ {j \in Jobs : state[j] = "running"} \subseteq running
    /\ queued \subseteq Jobs /\ running \subseteq Jobs
    /\ {j \in Jobs : state[j] = "queued"} \subseteq queued
    /\ ~exiting => \A j \in queued : state[j] = "queued"
    /\ {server, current, stopping} \subseteq Models \cup {NoModel}
    /\ procs \subseteq Models
    /\ swap \in [at : {"off", "unload", "sweep", "claim", "load", "check",
                       "stale", "unreadable", "abort"},
                 key : Models \cup {NoModel}, waits : BOOLEAN]
    /\ turn \in {"idle", "pump", "rotate", "fill", "rest"}
    /\ draining \in BOOLEAN
    /\ shutdown \in [at : {"no", "stop", "claim", "kill", "gone"},
                     key : Models \cup {NoModel}]
    /\ record \in [Models -> {"missing", "ok", "failed"}]
    /\ mark \subseteq Models
    /\ staleLoads \in [Models -> 0..MaxStale + 1]

\* Review M4: a server is never started beside one that is being stopped.
OneServer == \A m, n \in procs : m = n

\* Review C2: current never outlives the server it names, or the queued jobs of
\* its model would be skipped by every rotation rule.
CurrentIsServer == ~exiting => current \in {NoModel, server}

\* The requests in flight are all on the server that answers, or on one that
\* just died; no swap runs meanwhile.
InFlightOnServer ==
    \A j \in Jobs : state[j] = "running" =>
        swap = NoSwap /\ server \in {NoModel, ModelOf[j]}

\* A server that works is not unloaded under a request.
NoUnloadUnderRequest ==
    [][stopping # stopping' /\ stopping' # NoModel /\ ~exiting'
         => \A j \in Jobs : state[j] # "running"]_vars

\* Reviews M4, M5: no server outlives the broker that started it, however far
\* its start was when the broker was told to exit.
NoServerLeftBehind == gone => procs = {}

\* Review F6b: newer work never overtakes the held jobs of its model.
HeldGoFirst ==
    [][\A j \in Jobs : state[j] = "posting" /\ state'[j] = "queued"
         => held' \cap Of(ModelOf[j]) = {}]_vars

\* What a client was told of a finished job stays true, while the broker is not
\* exiting: no swap, release or late answer brings the job back.
FinalIsFinal ==
    [][~exiting => \A j \in Jobs :
         state[j] \in Final => state'[j] \in {state[j], "new"}]_vars

\* The broker "finishes its queue and exits": no job it accepted is still
\* unfinished when it is gone.
QueueFinished ==
    gone => \A j \in Jobs : state[j] \notin {"queued", "held", "running"}

\* A job is never held and loaded for ever: it runs, or it ends, even if no
\* calibration ever matches what the server loads (review C1).
JobsGetOn ==
    \A j \in Jobs : state[j] \in {"queued", "held"}
                    ~> state[j] \notin {"queued", "held"} \/ exiting

\* The job as its client sees it: held or queued, it waits.
JobSeen(j) == IF state[j] \in {"queued", "held"} THEN "waiting" ELSE state[j]

Service == INSTANCE JobService
    WITH job <- [j \in Jobs |-> JobSeen(j)],
         executing <- running,
         open <- ~exiting

\* The broker keeps the promise of JobService until it exits: a job is sent at
\* most once and never taken back into a queue afterwards, its outcome stays,
\* and the requests in flight are for one model and fit its slots, whatever
\* swaps, deaths and records happen meanwhile.
KeepsJobService == Service!Spec
=============================================================================
