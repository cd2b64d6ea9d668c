------------------------ MODULE BrokerSchedulerProofs ------------------------
(***************************************************************************)
(* Proofs about BrokerScheduler, for any models, commands, jobs, slots and *)
(* timings: its types, that a pump leaves no work idle, that a job nobody  *)
(* polls never runs, that a model loaded for waiting work serves some of   *)
(* it before it is unloaded, and how long each of two models waits.        *)
(***************************************************************************)
EXTENDS BrokerScheduler, CommandQueueProofs

\* The queued jobs of a key.
QueuedOf(k) == {j \in Jobs : state[j] = "queued" /\ KeyOf[j] = k}

\* Each key's queue is well formed, and holds its queued jobs.
QueuesRight ==
    /\ queues \in [Keys -> Queue]
    /\ \A k \in Keys : WellFormed(queues[k]) /\ Queued(queues[k]) = QueuedOf(k)

\* The scheduler's current model is the server's; during a swap there is none,
\* and nothing runs; pump goes on only between swaps.
Control ==
    /\ current = server
    /\ swap # NoSwap => /\ server = NoKey /\ Running = {}
                        /\ swap.key \in Keys /\ swap.phase # "none"
    /\ pc \in {"rotate", "fill"} => swap = NoSwap
    /\ pc = "fill" => server # NoKey
    /\ IsFiniteSet(Running) /\ Cardinality(Running) <= Slots
    /\ server # NoKey /\ servedInRun = 0 => Running = {}

\* The age without a poll is that of a queued job that is not polled, and past
\* dropAbandoned it is small.
Polled ==
    /\ \A j \in Jobs : polling[j] \/ state[j] # "queued" => unpolled[j] = 0
    /\ pc \in {"rotate", "fill"} =>
         \A j \in Jobs : state[j] = "queued" => unpolled[j] <= AbandonAfter

IInv == TypeOK /\ QueuesRight /\ Control /\ Polled

-----------------------------------------------------------------------------
(* What the rules answer. *)

\* A counter that stops at its bound.
LEMMA UpToWorks ==
    ASSUME NEW b \in Nat, NEW n \in Nat
    PROVE  UpTo(b, n) = IF n <= b THEN n ELSE b
<1>1. ASSUME NEW m \in {b, n}, m <= b, m <= n
      PROVE  Min({b, n}) = m
    BY <1>1 DEF Min
<1>. QED BY <1>1 DEF UpTo

\* A queue has a ring exactly when a job of its key is queued.
LEMMA WaitingIs ==
    ASSUME QueuesRight, NEW k \in Keys
    PROVE  Waiting(k) <=> QueuedOf(k) # {}
BY RingIsEmpty DEF QueuesRight, Waiting

\* All queued jobs together.
LEMMA AllQueuedIs ==
    ASSUME QueuesRight
    PROVE  AllQueued = {j \in Jobs : state[j] = "queued"}
<1>1. \A j \in Jobs : KeyOf[j] \in Keys
    BY SchedulerAssumption
<1>. QED BY <1>1 DEF QueuesRight, AllQueued, QueuedOf

\* When no other model waits longest, none waits.
LEMMA NoneWaits ==
    ASSUME QueuesRight, waited \in [Jobs -> 0..WaitCap], LongestWaiting = {}
    PROVE  \A k \in Keys \ {current} : ~Waiting(k)
<1>. DEFINE others == {k \in Keys \ {current} : Waiting(k)}
            T == {OldestWait(k) : k \in others}
<1>0. WaitCap \in Nat
    BY SchedulerAssumption
<1>1. ASSUME NEW k \in others PROVE OldestWait(k) \in 0..WaitCap
    <2>. DEFINE W == {waited[j] : j \in Queued(queues[k])}
    <2>1. Queued(queues[k]) # {} /\ Queued(queues[k]) \subseteq Jobs
        BY WaitingIs DEF QueuesRight, QueuedOf
    <2>2. W \in SUBSET (0..WaitCap) /\ W # {}
        BY <2>1
    <2>3. OldestWait(k) = Max(W)
        BY DEF OldestWait
    <2>. HIDE DEF W
    <2>4. \E n \in W : \A m \in W : n >= m
        BY <1>0, <2>2, GreatestOf
    <2>. QED BY <2>2, <2>3, <2>4 DEF Max
<1>2. ASSUME others # {} PROVE FALSE
    <2>1. T \in SUBSET (0..WaitCap) /\ T # {}
        BY <1>1, <1>2
    <2>2. PICK n \in T : \A m \in T : n >= m
        <3>. HIDE DEF T
        <3>. QED BY <1>0, <2>1, GreatestOf
    <2>3. PICK k \in others : n = OldestWait(k)
        BY <2>2
    <2>4. \A o \in others : OldestWait(k) >= OldestWait(o)
        BY <2>2, <2>3
    <2>5. k \in LongestWaiting
        BY <2>4 DEF LongestWaiting
    <2>. QED BY <2>5
<1>. QED BY <1>2

\* wantRotation answers another model, one with queued jobs, or none.
LEMMA RotationIsElsewhere ==
    ASSUME QueuesRight
    PROVE  WantRotation \subseteq {k \in Keys \ {current} : Waiting(k)}
<1>1. LongestWaiting \subseteq {k \in Keys \ {current} : Waiting(k)}
    BY DEF LongestWaiting
<1>2. ASSUME NEW j \in AllQueued, KeyOf[j] # current
      PROVE  KeyOf[j] \in Keys \ {current} /\ Waiting(KeyOf[j])
    <2>1. j \in Jobs /\ state[j] = "queued" /\ KeyOf[j] \in Keys
        BY AllQueuedIs, SchedulerAssumption
    <2>2. j \in QueuedOf(KeyOf[j])
        BY <2>1 DEF QueuedOf
    <2>. QED BY <1>2, <2>1, <2>2, WaitingIs
<1>3. DueKeys \subseteq {k \in Keys \ {current} : Waiting(k)}
    BY <1>2 DEF DueKeys
<1>. QED BY <1>1, <1>3 DEF WantRotation

-----------------------------------------------------------------------------
(* The invariant. *)

\* The keys of the jobs, and the actions that leave jobs and queues alone.
LEMMA QueuesKept ==
    ASSUME QueuesRight, UNCHANGED queues,
           \A j \in Jobs : state'[j] = "queued" <=> state[j] = "queued"
    PROVE  QueuesRight'
BY DEF QueuesRight, QueuedOf

\* One queue changes: its jobs are those queued in the new state.
LEMMA QueueChanges ==
    ASSUME QueuesRight, NEW k \in Keys, NEW q, WellFormed(q),
           queues' = [queues EXCEPT ![k] = q],
           Queued(q) = QueuedOf(k)',
           \A j \in Jobs : KeyOf[j] # k => state'[j] = state[j]
    PROVE  QueuesRight'
<1>1. queues' \in [Keys -> Queue]
    BY DEF QueuesRight, WellFormed
<1>2. \A o \in Keys : queues'[o] = IF o = k THEN q ELSE queues[o]
    BY DEF QueuesRight
<1>3. \A o \in Keys : o # k => QueuedOf(o)' = QueuedOf(o)
    BY DEF QueuedOf
<1>. QED BY <1>1, <1>2, <1>3 DEF QueuesRight

\* A queued job leaves its queue.
LEMMA LeaveQueueWorks ==
    ASSUME QueuesRight, state \in [Jobs -> {"new", "queued", "running"}],
           NEW j \in Jobs, state[j] = "queued", LeaveQueue(j)
    PROVE  QueuesRight'
<1>. DEFINE k == KeyOf[j]
            q == RemoveJob(queues[k], j)
<1>1. k \in Keys
    BY SchedulerAssumption
<1>2. WellFormed(queues[k]) /\ Queued(queues[k]) = QueuedOf(k) /\ j \in Queued(queues[k])
    BY <1>1 DEF QueuesRight, QueuedOf
<1>3. WellFormed(q) /\ Queued(q) = Queued(queues[k]) \ {j}
    BY <1>2, RemoveWorks
<1>4. queues' = [queues EXCEPT ![k] = q]
    BY DEF LeaveQueue
<1>5. \A i \in Jobs : state'[i] = IF i = j THEN "new" ELSE state[i]
    BY DEF LeaveQueue, Leave
<1>6. QueuedOf(k)' = QueuedOf(k) \ {j}
    BY <1>5 DEF QueuedOf
<1>7. \A i \in Jobs : KeyOf[i] # k => state'[i] = state[i]
    BY <1>5
<1>8. Queued(q) = QueuedOf(k)'
    BY <1>2, <1>3, <1>6
<1>. HIDE DEF q, k
<1>. QED BY <1>1, <1>3, <1>4, <1>7, <1>8, QueueChanges

\* The queues hold the queued jobs, whatever step is made.
LEMMA QueuesStep ==
    ASSUME TypeOK, QueuesRight, Control, [Next]_vars
    PROVE  QueuesRight'
<1>. USE DEF TypeOK
<1>0. /\ KeyOf \in [Jobs -> Keys] /\ NoKey \notin Keys
      /\ state \in [Jobs -> {"new", "queued", "running"}]
    BY SchedulerAssumption
<1>1. ASSUME NEW j \in Jobs, Submit(j) PROVE QueuesRight'
    <2>. DEFINE k == KeyOf[j]
                q == Enqueue(queues[k], j)
    <2>1. k \in Keys /\ state[j] = "new" /\ j \notin QueuedOf(k)
        BY <1>0, <1>1 DEF Submit, QueuedOf
    <2>2. WellFormed(queues[k]) /\ Queued(queues[k]) = QueuedOf(k)
        BY <2>1 DEF QueuesRight
    <2>3. WellFormed(q) /\ Queued(q) = QueuedOf(k) \cup {j}
        BY <2>1, <2>2, EnqueueWorks
    <2>4. queues' = [queues EXCEPT ![k] = q]
        BY <1>1 DEF Submit
    <2>5. \A i \in Jobs : state'[i] = IF i = j THEN "queued" ELSE state[i]
        BY <1>0, <1>1 DEF Submit
    <2>6. QueuedOf(k)' = QueuedOf(k) \cup {j}
        BY <2>5 DEF QueuedOf
    <2>. HIDE DEF q
    <2>. QED BY <2>1, <2>3, <2>4, <2>5, <2>6, QueueChanges
<1>2. ASSUME NEW j \in Jobs, Cancel(j) PROVE QueuesRight'
    BY <1>0, <1>2, LeaveQueueWorks DEF Cancel
<1>3. CASE DropAbandoned
    <2>1. PICK j \in Abandoned : LeaveQueue(j)
        BY <1>3 DEF DropAbandoned
    <2>2. j \in Jobs /\ state[j] = "queued"
        BY AllQueuedIs DEF Abandoned
    <2>. QED BY <1>0, <2>1, <2>2, LeaveQueueWorks
<1>4. ASSUME NEW j \in Jobs, Answer(j) PROVE QueuesRight'
    BY <1>0, <1>4, QueuesKept DEF Answer
<1>5. CASE Dispatch
    <2>0. PICK k \in Keys : k = server
        BY <1>5 DEF Dispatch, Control
    <2>. DEFINE q == TakeNext(queues[k])
                j == NextJob(queues[k])
    <2>1. queues[k].ring # <<>>
        BY <1>5, <2>0 DEF Dispatch, CanDispatch, Waiting
    <2>2. WellFormed(queues[k]) /\ Queued(queues[k]) = QueuedOf(k)
        BY <2>1 DEF QueuesRight
    <2>3. WellFormed(q) /\ Queued(q) = QueuedOf(k) \ {j} /\ j \in QueuedOf(k)
        BY <2>1, <2>2, TakeWorks
    <2>4. queues' = [queues EXCEPT ![k] = q] /\ state' = [state EXCEPT ![j] = "running"]
        BY <1>5, <2>0 DEF Dispatch
    <2>. HIDE DEF q, j
    <2>5. \A i \in Jobs : state'[i] = IF i = j THEN "running" ELSE state[i]
        BY <1>0, <2>4
    <2>6. QueuedOf(k)' = QueuedOf(k) \ {j} /\ KeyOf[j] = k
        BY <2>3, <2>5 DEF QueuedOf
    <2>7. \A i \in Jobs : KeyOf[i] # k => state'[i] = state[i]
        BY <2>5, <2>6
    <2>8. WellFormed(q) /\ Queued(q) = QueuedOf(k)' /\ queues' = [queues EXCEPT ![k] = q]
        BY <2>3, <2>4, <2>6
    <2>. QED BY <2>7, <2>8, QueueChanges
<1>6. CASE StartFails
    <2>1. PICK k \in Keys : k = swap.key
        BY <1>6 DEF StartFails, Control, NoSwap
    <2>. DEFINE q == Emptied(queues[k])
    <2>2. WellFormed(queues[k]) /\ Queued(queues[k]) = QueuedOf(k)
        BY <2>1 DEF QueuesRight
    <2>3. WellFormed(q) /\ Queued(q) = {}
        BY <2>2, EmptyWorks
    <2>4. queues' = [queues EXCEPT ![k] = q] /\ Leave(QueuedOf(k))
        BY <1>6, <2>1, <2>2 DEF StartFails
    <2>5. \A i \in Jobs : state'[i] = IF i \in QueuedOf(k) THEN "new" ELSE state[i]
        BY <2>4 DEF Leave
    <2>. HIDE DEF q
    <2>6. QueuedOf(k)' = {}
        BY <2>5 DEF QueuedOf
    <2>7. \A i \in Jobs : KeyOf[i] # k => state'[i] = state[i]
        BY <2>5 DEF QueuedOf
    <2>. QED BY <2>3, <2>4, <2>6, <2>7, QueueChanges
<1>7. CASE UNCHANGED <<queues, state>>
    BY <1>7, QueuesKept
<1>. QED BY <1>1, <1>2, <1>3, <1>4, <1>5, <1>6, <1>7
         DEF Next, ClientDies, Tick, Immediate, PumpSkipped, PumpDrop, StartSwap,
             NoSwapNow, PumpEnds, OldStopped, Ready, vars, jobVars

\* What the types say of each job.
JobTypes ==
    /\ state \in [Jobs -> {"new", "queued", "running"}]
    /\ waited \in [Jobs -> 0..WaitCap]
    /\ polling \in [Jobs -> BOOLEAN]
    /\ unpolled \in [Jobs -> 0..AbandonAfter + 1]
    /\ ran \in [Jobs -> 0..MaxExec]

\* And of the run, the swap and the places.
RunTypes ==
    /\ pc \in {"wait", "drop", "rotate", "fill"} /\ repump \in BOOLEAN
    /\ current \in Keys \cup {NoKey} /\ server \in Keys \cup {NoKey}
    /\ servedInRun \in 0..Batch /\ queuedAtLoad \in 0..Batch
    /\ runFor \in 0..MinRun /\ idleFor \in 0..Linger
    /\ loadMs \in [Keys -> Nat]
    /\ swap \in [phase : {"none", "stopping", "starting"},
                 key : Keys \cup {NoKey}, for : 0..MaxSwap]
    /\ away \in [Keys -> 0..WaitCap]

\* A set of jobs leaves with types intact.
LEMMA LeaveTypes ==
    ASSUME JobTypes, NEW S, Leave(S), UNCHANGED ran
    PROVE  JobTypes'
<1>1. state' \in [Jobs -> {"new", "queued", "running"}]
    BY DEF Leave, JobTypes
<1>2. waited' \in [Jobs -> 0..WaitCap] /\ unpolled' \in [Jobs -> 0..AbandonAfter + 1]
    BY SchedulerAssumption DEF Leave, JobTypes
<1>3. polling' \in [Jobs -> BOOLEAN]
    BY DEF Leave, JobTypes
<1>. QED BY <1>1, <1>2, <1>3 DEF JobTypes

\* The jobs keep their types.
LEMMA JobTypesStep ==
    ASSUME JobTypes, [Next]_vars
    PROVE  JobTypes'
<1>0. /\ AbandonAfter \in Nat \ {0} /\ WaitCap \in Nat \ {0} /\ MaxExec \in Nat \ {0}
    BY SchedulerAssumption
<1>1. ASSUME NEW j \in Jobs, Submit(j) PROVE JobTypes'
    BY <1>1 DEF Submit, JobTypes
<1>2. ASSUME NEW j \in Jobs, Cancel(j) PROVE JobTypes'
    BY <1>2, LeaveTypes DEF Cancel, LeaveQueue
<1>3. ASSUME NEW j \in Jobs, ClientDies(j) PROVE JobTypes'
    BY <1>3 DEF ClientDies, JobTypes
<1>4. ASSUME NEW j \in Jobs, Answer(j) PROVE JobTypes'
    BY <1>0, <1>4 DEF Answer, JobTypes
<1>5. CASE Tick
    <2>1. ASSUME NEW j \in Jobs
          PROVE  /\ UpTo(WaitCap, waited[j] + 1) \in 0..WaitCap
                 /\ UpTo(AbandonAfter + 1, unpolled[j] + 1) \in 0..AbandonAfter + 1
        BY <1>0, UpToWorks DEF JobTypes
    <2>2. waited' \in [Jobs -> 0..WaitCap] /\ unpolled' \in [Jobs -> 0..AbandonAfter + 1]
        BY <1>0, <1>5, <2>1 DEF Tick
    <2>3. ran' \in [Jobs -> 0..MaxExec]
        BY <1>0, <1>5 DEF Tick, JobTypes, Running
    <2>. QED BY <1>5, <2>2, <2>3 DEF Tick, JobTypes
<1>6. CASE DropAbandoned
    <2>1. PICK j \in Abandoned : LeaveQueue(j)
        BY <1>6 DEF DropAbandoned
    <2>2. Leave({j}) /\ UNCHANGED ran
        BY <1>6, <2>1 DEF DropAbandoned, LeaveQueue
    <2>. QED BY <2>2, LeaveTypes
<1>7. CASE Dispatch
    <2>1. PICK j : /\ state' = [state EXCEPT ![j] = "running"]
                   /\ waited' = [waited EXCEPT ![j] = 0]
                   /\ polling' = [polling EXCEPT ![j] = FALSE]
                   /\ unpolled' = [unpolled EXCEPT ![j] = 0]
        BY <1>7 DEF Dispatch
    <2>2. UNCHANGED ran
        BY <1>7 DEF Dispatch
    <2>3. /\ state' \in [Jobs -> {"new", "queued", "running"}]
          /\ polling' \in [Jobs -> BOOLEAN]
        BY <2>1 DEF JobTypes
    <2>4. /\ waited' \in [Jobs -> 0..WaitCap]
          /\ unpolled' \in [Jobs -> 0..AbandonAfter + 1]
        <3>1. 0 \in 0..WaitCap /\ 0 \in 0..AbandonAfter + 1
            BY <1>0
        <3>2. waited' \in [Jobs -> 0..WaitCap]
            BY <2>1, <3>1 DEF JobTypes
        <3>3. unpolled' \in [Jobs -> 0..AbandonAfter + 1]
            BY <2>1, <3>1 DEF JobTypes
        <3>. QED BY <3>2, <3>3
    <2>. QED BY <2>2, <2>3, <2>4 DEF JobTypes
<1>8. CASE StartFails
    BY <1>8, LeaveTypes DEF StartFails
<1>9. CASE UNCHANGED jobVars
    BY <1>9 DEF jobVars, JobTypes
<1>. QED BY <1>1, <1>2, <1>3, <1>4, <1>5, <1>6, <1>7, <1>8, <1>9
         DEF Next, Immediate, PumpSkipped, PumpDrop, StartSwap, NoSwapNow, PumpEnds,
             OldStopped, Ready, vars

\* The run, the swap and the places keep theirs.
LEMMA RunTypesStep ==
    ASSUME RunTypes, QueuesRight, Control, [Next]_vars
    PROVE  RunTypes'
<1>0. /\ {Batch, MinRun, Linger, MaxSwap, WaitCap} \subseteq Nat \ {0}
      /\ NoKey \notin Keys
    BY SchedulerAssumption
<1>. USE DEF RunTypes
<1>1. ASSUME NEW j \in Jobs, Submit(j) PROVE RunTypes'
    BY <1>0, <1>1 DEF Submit, IdleAfter
<1>2. ASSUME NEW j \in Jobs, Answer(j) PROVE RunTypes'
    BY <1>0, <1>2 DEF Answer, IdleAfter
<1>3. CASE Tick
    <2>1. /\ UpTo(MinRun, runFor + 1) \in 0..MinRun
          /\ UpTo(Linger, idleFor + 1) \in 0..Linger
          /\ \A k \in Keys : UpTo(WaitCap, away[k] + 1) \in 0..WaitCap
        BY <1>0, UpToWorks
    <2>2. away' \in [Keys -> 0..WaitCap]
        BY <1>0, <1>3, <2>1 DEF Tick
    <2>3. swap' \in [phase : {"none", "stopping", "starting"},
                    key : Keys \cup {NoKey}, for : 0..MaxSwap]
        BY <1>0, <1>3 DEF Tick
    <2>. QED BY <1>0, <1>3, <2>1, <2>2, <2>3 DEF Tick
<1>4. CASE PumpDrop
    BY <1>4 DEF PumpDrop, jobVars
<1>5. CASE StartSwap
    <2>1. PICK k \in WantRotation :
            swap' = [phase |-> IF server = NoKey THEN "starting" ELSE "stopping",
                     key |-> k, for |-> 0]
        BY <1>5 DEF StartSwap
    <2>2. k \in Keys
        BY <2>1, RotationIsElsewhere
    <2>3. swap' \in [phase : {"none", "stopping", "starting"},
                    key : Keys \cup {NoKey}, for : 0..MaxSwap]
        BY <1>0, <2>1, <2>2
    <2>. QED BY <1>0, <1>5, <2>3 DEF StartSwap
<1>6. CASE Dispatch
    <2>1. UpTo(Batch, servedInRun + 1) \in 0..Batch
        BY <1>0, UpToWorks
    <2>. QED BY <1>0, <1>6, <2>1 DEF Dispatch
<1>7. CASE OldStopped
    <2>1. swap' \in [phase : {"none", "stopping", "starting"},
                    key : Keys \cup {NoKey}, for : 0..MaxSwap]
        BY <1>0, <1>7 DEF OldStopped, NoSwap
    <2>. QED BY <1>7, <2>1 DEF OldStopped, runVars
<1>8. CASE Ready
    <2>1. swap.key \in Keys /\ swap.for \in Nat
        BY <1>8 DEF Ready, Control, NoSwap
    <2>2. Cardinality(Queued(queues[swap.key])) \in Nat
        BY <2>1, QueuedIsFinite, FS_CardinalityType DEF QueuesRight
    <2>3. UpTo(Batch, Cardinality(Queued(queues[swap.key]))) \in 0..Batch
        BY <1>0, <2>2, UpToWorks
    <2>4. swap' \in [phase : {"none", "stopping", "starting"},
                    key : Keys \cup {NoKey}, for : 0..MaxSwap]
        BY <1>0, <1>8 DEF Ready, NoSwap
    <2>. QED BY <1>0, <1>8, <2>1, <2>3, <2>4 DEF Ready, StartRun
<1>9. CASE StartFails
    <2>1. swap' \in [phase : {"none", "stopping", "starting"},
                    key : Keys \cup {NoKey}, for : 0..MaxSwap]
        BY <1>0, <1>9 DEF StartFails, NoSwap
    <2>. QED BY <1>9, <2>1 DEF StartFails
<1>10. CASE UNCHANGED <<repump, runVars, loadMs, server, swap, away>>
            /\ pc' \in {"wait", "drop", "rotate", "fill"}
    BY <1>10 DEF runVars
<1>11. CASE Immediate
    BY <1>11 DEF Immediate, runVars
<1>. QED BY <1>1, <1>2, <1>3, <1>4, <1>5, <1>6, <1>7, <1>8, <1>9, <1>10, <1>11
         DEF Next, Cancel, ClientDies, DropAbandoned, PumpSkipped, NoSwapNow, PumpEnds, vars

\* A request is in flight only from a dispatch on.
LEMMA RunningStep ==
    ASSUME TypeOK, QueuesRight, Control, [Next]_vars
    PROVE  Running' \subseteq Running \/ Dispatch
<1>1. state \in [Jobs -> {"new", "queued", "running"}]
    BY DEF TypeOK
<1>2. ASSUME NEW S, Leave(S) PROVE Running' \subseteq Running
    BY <1>1, <1>2 DEF Leave, Running
<1>3. ASSUME NEW j \in Jobs, Submit(j) \/ Cancel(j) \/ ClientDies(j) \/ Answer(j)
      PROVE  Running' \subseteq Running
    <2>1. CASE Submit(j)
        BY <1>1, <2>1 DEF Submit, Running
    <2>2. CASE Cancel(j)
        BY <1>2, <2>2 DEF Cancel, LeaveQueue
    <2>3. CASE ClientDies(j)
        BY <2>3 DEF ClientDies, Running
    <2>4. CASE Answer(j)
        BY <1>1, <2>4 DEF Answer, Running
    <2>. QED BY <1>3, <2>1, <2>2, <2>3, <2>4
<1>4. CASE DropAbandoned
    BY <1>2, <1>4 DEF DropAbandoned, LeaveQueue
<1>5. CASE StartFails
    BY <1>2, <1>5 DEF StartFails
<1>6. CASE UNCHANGED state
    BY <1>6 DEF Running
<1>. QED BY <1>3, <1>4, <1>5, <1>6
         DEF Next, Tick, Immediate, PumpSkipped, PumpDrop, StartSwap, NoSwapNow,
             PumpEnds, OldStopped, Ready, vars, jobVars

\* Where the thread, the swap and the server stand.
LEMMA ControlStep ==
    ASSUME TypeOK, QueuesRight, Control, [Next]_vars
    PROVE  Control'
<1>0. /\ {Batch, Slots} \subseteq Nat \ {0} /\ NoKey \notin Keys
      /\ pc \in {"wait", "drop", "rotate", "fill"} /\ servedInRun \in 0..Batch
      /\ state \in [Jobs -> {"new", "queued", "running"}]
    BY SchedulerAssumption DEF TypeOK
<1>. USE DEF Control
<1>1. IsFiniteSet(Running') /\ Cardinality(Running') <= Slots
    <2>1. CASE Running' \subseteq Running
        <3>1. /\ IsFiniteSet(Running') /\ Cardinality(Running') <= Cardinality(Running)
              /\ Cardinality(Running) \in Nat /\ Cardinality(Running') \in Nat
            BY <2>1, FS_Subset, FS_CardinalityType
        <3>. QED BY <1>0, <3>1
    <2>2. CASE Dispatch
        <3>1. PICK j : state' = [state EXCEPT ![j] = "running"]
            BY <2>2 DEF Dispatch
        <3>2. Running' \subseteq Running \cup {j}
            BY <1>0, <3>1 DEF Running
        <3>3. /\ IsFiniteSet(Running \cup {j}) /\ Cardinality(Running) \in Nat
              /\ Cardinality(Running \cup {j}) <= Cardinality(Running) + 1
            BY FS_AddElement, FS_CardinalityType
        <3>4. /\ IsFiniteSet(Running') /\ Cardinality(Running') \in Nat
              /\ Cardinality(Running') <= Cardinality(Running \cup {j})
            BY <3>2, <3>3, FS_Subset, FS_CardinalityType
        <3>5. Cardinality(Running \cup {j}) \in Nat
            BY <3>3, FS_CardinalityType
        <3>6. Cardinality(Running) < Slots
            BY <2>2 DEF Dispatch, CanDispatch
        <3>. QED BY <1>0, <3>3, <3>4, <3>5, <3>6
    <2>. QED BY <2>1, <2>2, RunningStep
<1>. DEFINE Rest ==
               /\ current = server
               /\ swap # NoSwap => /\ server = NoKey /\ Running = {}
                                   /\ swap.key \in Keys /\ swap.phase # "none"
               /\ pc \in {"rotate", "fill"} => swap = NoSwap
               /\ pc = "fill" => server # NoKey
               /\ server # NoKey /\ servedInRun = 0 => Running = {}
<1>2. CASE Dispatch
    <2>1. UpTo(Batch, servedInRun + 1) # 0
        BY <1>0, UpToWorks
    <2>2. Rest'
        BY <1>2, <2>1 DEF Dispatch
    <2>. QED BY <1>1, <2>2
<1>3. ASSUME Running' \subseteq Running,
             UNCHANGED <<current, server, servedInRun, swap>>,
             pc' # pc => pc' \in {"wait", "drop"}
      PROVE  Rest'
    BY <1>0, <1>3
<1>4. ASSUME Running' \subseteq Running PROVE Rest'
    <2>1. CASE Tick
        <3>1. swap' # NoSwap => swap # NoSwap
            BY <2>1 DEF Tick
        <3>2. swap # NoSwap => swap'.key = swap.key /\ swap'.phase = swap.phase
            BY <2>1 DEF Tick, TypeOK
        <3>. QED BY <1>4, <2>1, <3>1, <3>2 DEF Tick
    <2>2. CASE PumpDrop
        BY <1>4, <2>2 DEF PumpDrop
    <2>3. CASE StartSwap
        <3>1. PICK k \in WantRotation :
                swap' = [phase |-> IF server = NoKey THEN "starting" ELSE "stopping",
                         key |-> k, for |-> 0]
            BY <2>3 DEF StartSwap
        <3>2. k \in Keys
            BY <3>1, RotationIsElsewhere
        <3>3. swap'.key = k /\ swap'.phase # "none"
            BY <3>1
        <3>4. server' = NoKey /\ current' = NoKey /\ Running' = {} /\ pc' = "wait"
            BY <1>4, <2>3 DEF StartSwap
        <3>. QED BY <3>2, <3>3, <3>4
    <2>4. CASE NoSwapNow
        BY <1>0, <1>4, <2>4 DEF NoSwapNow, KeepServing, runVars
    <2>5. CASE OldStopped
        <3>1. swap # NoSwap
            BY <2>5 DEF OldStopped, NoSwap
        <3>2. swap' # NoSwap => swap'.key = swap.key /\ swap'.phase # "none"
            BY <2>5 DEF OldStopped, TypeOK
        <3>. QED BY <1>4, <2>5, <3>1, <3>2 DEF OldStopped, runVars
    <2>6. CASE Ready
        <3>1. swap # NoSwap
            BY <2>6 DEF Ready, NoSwap
        <3>. QED BY <1>0, <1>4, <2>6, <3>1 DEF Ready, StartRun
    <2>7. CASE StartFails
        <3>1. swap # NoSwap
            BY <2>7 DEF StartFails, NoSwap
        <3>. QED BY <1>0, <1>4, <2>7, <3>1 DEF StartFails
    <2>8. CASE Dispatch
        BY <1>2, <2>8
    <2>. QED BY <1>3, <1>4, <2>1, <2>2, <2>3, <2>4, <2>5, <2>6, <2>7, <2>8
             DEF Next, Submit, Cancel, LeaveQueue, ClientDies, Answer, Immediate,
                 PumpSkipped, DropAbandoned, PumpEnds, vars, runVars
<1>. QED BY <1>1, <1>2, <1>4, RunningStep

\* The ages without a poll.
LEMMA PolledStep ==
    ASSUME TypeOK, QueuesRight, Polled, [Next]_vars
    PROVE  Polled'
<1>0. /\ AbandonAfter \in Nat \ {0} /\ JobTypes /\ pc \in {"wait", "drop", "rotate", "fill"}
    BY SchedulerAssumption DEF TypeOK, JobTypes
<1>. USE DEF Polled, JobTypes
<1>1. ASSUME NEW S, Leave(S), pc' = pc PROVE Polled'
    <2>1. \A j \in Jobs : IF j \in S
            THEN state'[j] = "new" /\ unpolled'[j] = 0
            ELSE state'[j] = state[j] /\ unpolled'[j] = unpolled[j] /\ polling'[j] = polling[j]
        BY <1>0, <1>1 DEF Leave
    <2>. QED BY <1>0, <1>1, <2>1
<1>2. ASSUME NEW j \in Jobs, Submit(j) PROVE Polled'
    BY <1>0, <1>2 DEF Submit
<1>3. ASSUME NEW j \in Jobs, Cancel(j) PROVE Polled'
    BY <1>1, <1>3 DEF Cancel, LeaveQueue
<1>4. ASSUME NEW j \in Jobs, ClientDies(j) PROVE Polled'
    BY <1>0, <1>4 DEF ClientDies
<1>5. ASSUME NEW j \in Jobs, Answer(j) PROVE Polled'
    BY <1>0, <1>5 DEF Answer
<1>6. CASE Tick
    BY <1>0, <1>6 DEF Tick
<1>7. CASE DropAbandoned
    BY <1>1, <1>7 DEF DropAbandoned, LeaveQueue
<1>8. CASE PumpDrop
    <2>1. ASSUME NEW j \in Jobs, state[j] = "queued" PROVE unpolled[j] <= AbandonAfter
        <3>1. j \notin Abandoned /\ j \in AllQueued
            BY <1>8, <2>1, AllQueuedIs DEF PumpDrop
        <3>. QED BY <1>0, <3>1 DEF Abandoned
    <2>. QED BY <1>8, <2>1 DEF PumpDrop, jobVars
<1>9. CASE Dispatch
    <2>1. PICK j : /\ state' = [state EXCEPT ![j] = "running"]
                   /\ polling' = [polling EXCEPT ![j] = FALSE]
                   /\ unpolled' = [unpolled EXCEPT ![j] = 0]
        BY <1>9 DEF Dispatch
    <2>. QED BY <1>0, <1>9, <2>1 DEF Dispatch
<1>10. CASE StartFails
    BY <1>1, <1>10 DEF StartFails
<1>11. CASE UNCHANGED <<state, polling, unpolled>> /\ (pc = "rotate" \/ pc' \in {"wait", "drop"})
    BY <1>0, <1>11
<1>12. CASE PumpEnds \/ OldStopped \/ Ready \/ UNCHANGED vars
    BY <1>0, <1>12 DEF PumpEnds, OldStopped, Ready, vars, jobVars
<1>. QED BY <1>2, <1>3, <1>4, <1>5, <1>6, <1>7, <1>8, <1>9, <1>10, <1>11, <1>12
         DEF Next, Immediate, PumpSkipped, StartSwap, NoSwapNow, jobVars

-----------------------------------------------------------------------------

\* The invariant holds at the start.
LEMMA InvInit == Init => IInv
<1>. SUFFICES ASSUME Init PROVE IInv
    OBVIOUS
<1>0. /\ {Slots, Batch, MinRun, Linger, AbandonAfter, DefaultLoad, MaxExec,
         MaxSwap, WaitCap} \subseteq Nat \ {0}
      /\ KeyOf \in [Jobs -> Keys]
    BY SchedulerAssumption
<1>1. \A j \in Jobs : state[j] = "new"
    BY DEF Init
<1>2. QueuesRight
    BY <1>1, EmptyWorks DEF Init, QueuesRight, QueuedOf, WellFormed
<1>3. AllQueued = {j \in Jobs : state[j] = "queued"}
    BY <1>2, AllQueuedIs
<1>4. TypeOK
    <2>1. JobTypes
        <3>1. 0 \in 0..WaitCap /\ 0 \in 0..AbandonAfter + 1 /\ 0 \in 0..MaxExec
            BY <1>0
        <3>. QED BY <3>1 DEF JobTypes, Init
    <2>2. RunTypes
        <3>1. /\ 0 \in 0..Batch /\ 0 \in 0..MinRun /\ 0 \in 0..Linger /\ 0 \in 0..MaxSwap
              /\ WaitCap \in 0..WaitCap /\ DefaultLoad \in Nat
            BY <1>0
        <3>. QED BY <3>1 DEF RunTypes, Init, NoSwap
    <2>. QED BY <1>2, <1>3, <2>1, <2>2 DEF TypeOK, JobTypes, RunTypes, QueuesRight
<1>5. Control
    <2>1. Running = {}
        BY <1>1 DEF Running
    <2>. QED BY <1>0, <2>1, FS_EmptySet DEF Control, Init
<1>6. Polled
    BY DEF Polled, Init
<1>. QED BY <1>2, <1>4, <1>5, <1>6 DEF IInv

\* And after every step.
LEMMA InvStep == IInv /\ [Next]_vars => IInv'
<1>. SUFFICES ASSUME IInv, [Next]_vars PROVE IInv'
    OBVIOUS
<1>1. TypeOK /\ QueuesRight /\ Control /\ Polled /\ JobTypes /\ RunTypes
    BY DEF IInv, TypeOK, JobTypes, RunTypes
<1>2. QueuesRight'
    BY <1>1, QueuesStep
<1>3. JobTypes' /\ RunTypes'
    BY <1>1, JobTypesStep, RunTypesStep
<1>4. AllQueued' = {j \in Jobs : state'[j] = "queued"}
    <2>1. \A j \in Jobs : KeyOf[j] \in Keys
        BY SchedulerAssumption
    <2>. QED BY <1>2, <2>1 DEF QueuesRight, AllQueued, QueuedOf
<1>5. TypeOK'
    BY <1>2, <1>3, <1>4 DEF TypeOK, JobTypes, RunTypes, QueuesRight
<1>6. Control' /\ Polled'
    BY <1>1, ControlStep, PolledStep
<1>. QED BY <1>2, <1>5, <1>6 DEF IInv

\* The invariant holds throughout.
LEMMA Invariance == Spec => []IInv
BY InvInit, InvStep, PTL DEF Spec

\* The types hold, and the jobs in the queues are the jobs in state "queued".
THEOREM TypeCorrect == Spec => []TypeOK
<1>1. IInv => TypeOK
    BY DEF IInv
<1>. QED BY <1>1, Invariance, PTL

\* Spec 4: a job nobody polled for the abandon time never runs, because every
\* pump drops such jobs before it dispatches.
THEOREM AbandonedStayOut == Spec => AbandonedNeverRun
<1>1. ASSUME IInv, [Next]_vars
      PROVE  [\A j \in Jobs : state[j] = "queued" /\ state'[j] = "running"
                              => unpolled[j] <= AbandonAfter]_vars
    <2>. SUFFICES ASSUME NEW j \in Jobs, state[j] = "queued", state'[j] = "running"
                  PROVE  unpolled[j] <= AbandonAfter
        OBVIOUS
    <2>1. Dispatch
        BY <1>1, RunningStep DEF IInv, Running
    <2>. QED BY <1>1, <2>1 DEF Dispatch, IInv, Polled
<1>. QED BY <1>1, Invariance, PTL DEF Spec, AbandonedNeverRun

\* Each pump leaves no work idle: it ends because a swap runs or starts, with
\* every slot taken, with nothing queued for the loaded model, or while another
\* model's deadline asks for the server.
THEOREM PumpsLeaveNoWorkIdle == Spec => PumpLeavesNoWorkIdle
<1>. DEFINE Idles == IF server' # NoKey
                     THEN \/ Cardinality(Running') = Slots
                          \/ ~Waiting(server)'
                          \/ DueKeys' # {}
                     ELSE swap' # NoSwap \/ Running' # {} \/ AllQueued' = {}
<1>1. ASSUME IInv, [Next]_vars, pc # "wait", pc' = "wait"
      PROVE  Idles
    <2>0. /\ TypeOK /\ QueuesRight /\ Control
          /\ waited \in [Jobs -> 0..WaitCap] /\ server \in Keys \cup {NoKey} /\ NoKey \notin Keys
          /\ Slots \in Nat \ {0}
        BY <1>1, SchedulerAssumption DEF IInv, TypeOK
    <2>1. PumpSkipped \/ StartSwap \/ NoSwapNow \/ PumpEnds
        BY <1>1 DEF Next, Submit, Cancel, LeaveQueue, ClientDies, Answer, Tick, Immediate,
            DropAbandoned, PumpDrop, Dispatch, OldStopped, Ready, StartFails, vars
    <2>2. CASE PumpSkipped
        BY <2>0, <2>2 DEF PumpSkipped, Control
    <2>3. CASE StartSwap
        <3>1. PICK k \in WantRotation :
                swap' = [phase |-> IF server = NoKey THEN "starting" ELSE "stopping",
                         key |-> k, for |-> 0]
            BY <2>3 DEF StartSwap
        <3>2. swap' # NoSwap
            BY <3>1 DEF NoSwap
        <3>. QED BY <2>3, <3>2 DEF StartSwap
    <2>4. CASE PumpEnds
        <3>1. ~CanDispatch /\ server # NoKey /\ UNCHANGED <<state, server, queues>>
            BY <2>0, <2>4 DEF PumpEnds, jobVars, Control
        <3>2. Cardinality(Running) < Slots \/ Cardinality(Running) = Slots
            BY <2>0, FS_CardinalityType DEF Control
        <3>3. Running' = Running /\ Waiting(server)' = Waiting(server)
            BY <3>1 DEF Running, Waiting
        <3>. QED BY <3>1, <3>2, <3>3 DEF CanDispatch
    <2>5. CASE NoSwapNow
        <3>0. /\ UNCHANGED <<state, waited, server, queues, current, loadMs>>
              /\ ~KeepServing /\ ~(Running = {} /\ WantRotation \ {server} # {})
            BY <1>1, <2>5 DEF NoSwapNow, jobVars, runVars
        <3>1. /\ Running' = Running /\ Waiting(server)' = Waiting(server)
              /\ DueKeys' = DueKeys /\ AllQueued' = AllQueued
            BY <3>0 DEF Running, Waiting, DueKeys, AllQueued, TimeLeft
        <3>2. CASE server = NoKey
            <4>1. CASE LongestWaiting = {}
                <5>1. \A k \in Keys : ~Waiting(k)
                    BY <2>0, <3>2, <4>1, NoneWaits DEF Control
                <5>2. \A k \in Keys : QueuedOf(k) = {}
                    BY <2>0, <5>1, WaitingIs
                <5>3. AllQueued = {}
                    BY <2>0, <5>2 DEF AllQueued, QueuesRight
                <5>. QED BY <3>0, <3>1, <3>2, <5>3
            <4>2. CASE LongestWaiting # {}
                <5>1. WantRotation = LongestWaiting
                    BY <2>0, <3>2, <4>2 DEF WantRotation, Control
                <5>2. WantRotation \ {server} # {}
                    BY <2>0, <3>2, <4>2, <5>1 DEF LongestWaiting
                <5>. QED BY <3>0, <3>1, <3>2, <5>2
            <4>. QED BY <4>1, <4>2
        <3>3. CASE server # NoKey
            <4>1. WantRotation # {} /\ current = server
                BY <2>0, <3>0, <3>3 DEF KeepServing, Control
            <4>2. WantRotation \ {server} # {}
                BY <2>0, <4>1, RotationIsElsewhere
            <4>3. Running # {}
                BY <3>0, <4>2
            <4>4. WantRotation = DueKeys
                BY <2>0, <3>3, <4>1, <4>3 DEF WantRotation
            <4>. QED BY <3>0, <3>1, <3>3, <4>1, <4>4
        <3>. QED BY <3>2, <3>3
    <2>. QED BY <2>1, <2>2, <2>3, <2>4, <2>5
<1>2. ASSUME IInv, [Next]_vars PROVE [pc # "wait" /\ pc' = "wait" => Idles]_vars
    BY <1>1, <1>2
<1>. QED BY <1>2, Invariance, PTL DEF Spec, PumpLeavesNoWorkIdle

-----------------------------------------------------------------------------
(* A model that was loaded for waiting work. *)

Others == {k \in Keys \ {server} : Waiting(k)}

\* The loaded model was loaded for queued jobs, and served none of them yet.
Unserved == server # NoKey /\ servedInRun = 0 /\ queuedAtLoad > 0

\* It was idle for the linger, or ever since it was loaded.
Idle == idleFor >= Linger \/ idleFor >= runFor

\* No other model waits once the minimum run is over.
Unchallenged == runFor >= MinRun => Others = {}

HasPoll == \E j \in QueuedOf(server) : polling[j]

\* What holds of such a model: between handlers its queue is empty, or it was
\* loaded just now and the pump that serves it is pending.
Served ==
    Unserved =>
        /\ pc = "wait" => /\ Waiting(server) => repump /\ runFor = 0
                          /\ Idle /\ Unchallenged
        /\ pc = "drop" => Idle \/ HasPoll
        /\ pc \in {"rotate", "fill"} => Idle \/ Waiting(server)
        /\ pc \in {"drop", "rotate"} /\ Waiting(server) => Unchallenged
        /\ pc = "fill" => Waiting(server) \/ Unchallenged

\* When jobs only leave the queues, no other model's work appears.
LEMMA LeavingOnly ==
    ASSUME IInv, IInv', UNCHANGED server,
           \A j \in Jobs : state'[j] = "queued" => state[j] = "queued"
    PROVE  /\ Others' \subseteq Others
           /\ server # NoKey /\ Waiting(server)' => Waiting(server)
<1>1. \A k \in Keys : QueuedOf(k)' \subseteq QueuedOf(k)
    BY DEF QueuedOf
<1>2. QueuesRight /\ QueuesRight' /\ server \in Keys \cup {NoKey}
    BY DEF IInv, TypeOK
<1>3. ASSUME NEW k \in Keys PROVE Waiting(k)' => Waiting(k)
    <2>1. Waiting(k) <=> QueuedOf(k) # {}
        BY <1>2, WaitingIs
    <2>2. Waiting(k)' <=> QueuedOf(k)' # {}
        BY <1>2, RingIsEmpty DEF QueuesRight, Waiting
    <2>. QED BY <1>1, <2>1, <2>2
<1>4. Others' \subseteq Others
    BY <1>2, <1>3 DEF Others
<1>5. ASSUME server # NoKey, Waiting(server)' PROVE Waiting(server)
    <2>1. PICK k \in Keys : k = server
        BY <1>2, <1>5
    <2>2. Waiting(k)'
        BY <1>5, <2>1 DEF Waiting
    <2>. QED BY <1>3, <2>1, <2>2
<1>. QED BY <1>4, <1>5

\* Those facts hold after every step.
LEMMA ServedStep ==
    ASSUME Linger <= MinRun, IInv, IInv', Served, [Next]_vars
    PROVE  Served'
<1>0. /\ Linger \in Nat \ {0} /\ MinRun \in Nat \ {0} /\ Batch \in Nat \ {0} /\ Slots \in Nat \ {0}
      /\ NoKey \notin Keys /\ KeyOf \in [Jobs -> Keys]
      /\ server \in Keys \cup {NoKey} /\ runFor \in 0..MinRun /\ idleFor \in 0..Linger
      /\ servedInRun \in 0..Batch /\ queuedAtLoad \in 0..Batch
      /\ pc \in {"wait", "drop", "rotate", "fill"}
      /\ state \in [Jobs -> {"new", "queued", "running"}] /\ polling \in [Jobs -> BOOLEAN]
      /\ waited \in [Jobs -> 0..WaitCap]
      /\ QueuesRight /\ QueuesRight' /\ Control
    BY SchedulerAssumption DEF IInv, TypeOK
<1>. SUFFICES ASSUME Unserved' PROVE Served'
    BY DEF Served
<1>1. ASSUME NEW j \in Jobs, Submit(j) PROVE Served'
    <2>1. Unserved /\ pc = "wait" /\ pc' = "drop"
        BY <1>1 DEF Submit, Unserved
    <2>2. state[j] = "new" /\ state' = [state EXCEPT ![j] = "queued"]
          /\ polling' = [polling EXCEPT ![j] = TRUE] /\ UNCHANGED <<server, runFor>>
        BY <1>1 DEF Submit
    <2>3. \A i \in Jobs : state'[i] = "queued" /\ i # j => state[i] = "queued"
        BY <1>0, <2>2
    <2>4. ASSUME NEW k \in Keys, k # KeyOf[j] PROVE Waiting(k)' <=> Waiting(k)
        <3>1. queues'[k] = queues[k]
            BY <1>0, <1>1, <2>4 DEF Submit, QueuesRight
        <3>. QED BY <3>1 DEF Waiting
    <2>5. CASE KeyOf[j] = server
        <3>1. j \in QueuedOf(server)' /\ polling'[j]
            BY <1>0, <2>2, <2>5 DEF QueuedOf
        <3>2. HasPoll'
            BY <3>1 DEF HasPoll
        <3>3. Others' = Others
            BY <2>2, <2>4, <2>5 DEF Others
        <3>4. Unchallenged'
            BY <2>1, <2>2, <3>3 DEF Served, Unchallenged
        <3>. QED BY <2>1, <3>2, <3>4 DEF Served
    <2>6. CASE KeyOf[j] # server
        <3>1. Idle' /\ (Waiting(server)' <=> Waiting(server))
            <4>1. PICK k \in Keys : k = server
                BY <1>0, <2>1 DEF Unserved
            <4>2. Waiting(k)' <=> Waiting(k)
                BY <2>4, <2>6, <4>1
            <4>3. UNCHANGED idleFor
                BY <1>0, <1>1, <2>6 DEF Submit, IdleAfter, Control
            <4>. QED BY <2>1, <2>2, <4>1, <4>2, <4>3 DEF Served, Idle, Waiting
        <3>2. Waiting(server) => Unchallenged'
            BY <1>0, <2>1, <2>2 DEF Served, Unchallenged
        <3>. QED BY <2>1, <3>1, <3>2 DEF Served
    <2>. QED BY <2>5, <2>6
<1>2. ASSUME NEW j \in Jobs, LeaveQueue(j), state[j] = "queued", ~polling[j] \/ pc = "wait",
             pc \in {"wait", "drop"},
             UNCHANGED <<pc, repump, runVars, server>>
      PROVE  Served'
    <2>1. \A i \in Jobs : /\ state'[i] = (IF i = j THEN "new" ELSE state[i])
                          /\ polling'[i] = (polling[i] /\ i # j)
        BY <1>0, <1>2 DEF LeaveQueue, Leave
    <2>2. Others' \subseteq Others /\ (Waiting(server)' => Waiting(server)) /\ Unserved
        <3>1. Unserved
            BY <1>2 DEF Unserved, runVars
        <3>. QED BY <1>2, <2>1, <3>1, LeavingOnly DEF Unserved
    <2>3. Unchallenged => Unchallenged'
        BY <1>2, <2>2 DEF Unchallenged, runVars
    <2>4. Idle' <=> Idle
        BY <1>2 DEF Idle, runVars
    <2>5. pc = "drop" /\ HasPoll => HasPoll'
        BY <1>2, <2>1 DEF HasPoll, QueuedOf
    <2>. QED BY <1>2, <2>2, <2>3, <2>4, <2>5 DEF Served, runVars
<1>3. ASSUME NEW j \in Jobs, Cancel(j) PROVE Served'
    BY <1>2, <1>3 DEF Cancel
<1>4. CASE DropAbandoned
    <2>1. PICK j \in Abandoned : LeaveQueue(j)
        BY <1>4 DEF DropAbandoned
    <2>2. j \in Jobs /\ state[j] = "queued" /\ ~polling[j]
        BY <1>0, AllQueuedIs DEF Abandoned
    <2>. QED BY <1>2, <1>4, <2>1, <2>2 DEF DropAbandoned
<1>5. ASSUME NEW j \in Jobs, Answer(j) PROVE FALSE
    <2>1. j \in Running /\ UNCHANGED <<server, servedInRun>>
        BY <1>5 DEF Answer, Running
    <2>. QED BY <1>0, <2>1 DEF Control, Unserved
<1>6. CASE Tick
    <2>1. Unserved /\ pc = "wait" /\ pc' = "drop" /\ ~repump /\ UNCHANGED <<server, queues>>
        BY <1>6 DEF Tick, Unserved
    <2>2. ~Waiting(server)'
        BY <2>1 DEF Served, Waiting
    <2>3. /\ runFor' = UpTo(MinRun, runFor + 1) /\ idleFor' = UpTo(Linger, idleFor + 1)
          /\ UpTo(MinRun, runFor + 1) <= runFor + 1
          /\ UpTo(Linger, idleFor + 1) = IF idleFor + 1 <= Linger THEN idleFor + 1 ELSE Linger
          /\ UpTo(MinRun, runFor + 1) \in Nat
        BY <1>0, <1>6, <2>1, UpToWorks DEF Tick, Unserved
    <2>4. Idle'
        BY <1>0, <2>1, <2>3 DEF Served, Idle
    <2>. QED BY <2>1, <2>2, <2>4 DEF Served
<1>7. CASE Immediate
    <2>1. Unserved /\ pc = "wait" /\ pc' = "drop" /\ UNCHANGED <<server, queues, runFor, idleFor>>
        BY <1>7 DEF Immediate, Unserved, runVars
    <2>2. Idle' /\ (Waiting(server)' => Unchallenged')
        BY <1>0, <2>1 DEF Served, Idle, Waiting, Unchallenged
    <2>. QED BY <2>1, <2>2 DEF Served
<1>8. CASE PumpDrop
    <2>1. Unserved /\ pc = "drop" /\ pc' = "rotate" /\ UNCHANGED <<server, queues, runFor, idleFor>>
        BY <1>8 DEF PumpDrop, Unserved
    <2>2. Idle' \/ Waiting(server)'
        <3>1. Idle => Idle'
            BY <2>1 DEF Idle
        <3>2. HasPoll => Waiting(server)
            BY <1>0, <2>1, WaitingIs DEF HasPoll, Unserved
        <3>. QED BY <2>1, <3>1, <3>2 DEF Served, Waiting
    <2>3. Waiting(server)' => Unchallenged'
        BY <2>1 DEF Served, Waiting, Unchallenged, Others
    <2>. QED BY <2>1, <2>2, <2>3 DEF Served
<1>9. CASE NoSwapNow
    <2>1. /\ Unserved /\ pc = "rotate" /\ UNCHANGED <<server, queues, runFor, idleFor>>
          /\ ~(Running = {} /\ WantRotation \ {server} # {})
          /\ pc' = IF KeepServing THEN "fill" ELSE "wait"
        BY <1>9 DEF NoSwapNow, Unserved, runVars
    <2>2. Running = {} /\ current = server /\ server # NoKey
        BY <1>0, <2>1 DEF Control, Unserved
    <2>3. WantRotation = {} /\ pc' = "fill"
        BY <1>0, <2>1, <2>2, RotationIsElsewhere DEF KeepServing
    <2>4. Idle' \/ Waiting(server)'
        BY <2>1 DEF Served, Idle, Waiting
    <2>5. ASSUME ~Waiting(server), runFor >= MinRun PROVE Others = {}
        <3>1. idleFor >= Linger
            BY <1>0, <2>1, <2>5 DEF Served, Idle
        <3>2. LongestWaiting = {}
            BY <2>2, <2>3, <2>5, <3>1 DEF WantRotation
        <3>. QED BY <1>0, <2>2, <3>2, NoneWaits DEF Others
    <2>6. Waiting(server)' \/ Unchallenged'
        BY <2>1, <2>5 DEF Waiting, Unchallenged, Others
    <2>. QED BY <2>3, <2>4, <2>6 DEF Served
<1>10. CASE Dispatch
    <2>1. servedInRun' # 0
        BY <1>0, <1>10, UpToWorks DEF Dispatch
    <2>. QED BY <2>1 DEF Unserved
<1>11. CASE PumpEnds
    <2>1. /\ Unserved /\ pc = "fill" /\ pc' = "wait" /\ ~CanDispatch
          /\ UNCHANGED <<server, queues, runFor, idleFor>>
        BY <1>11 DEF PumpEnds, Unserved, runVars
    <2>2. Running = {}
        BY <1>0, <2>1 DEF Control, Unserved
    <2>3. ~Waiting(server)
        BY <1>0, <2>1, <2>2, FS_EmptySet DEF CanDispatch
    <2>4. Idle' /\ Unchallenged' /\ ~Waiting(server)'
        BY <2>1, <2>3 DEF Served, Idle, Waiting, Unchallenged, Others
    <2>. QED BY <2>1, <2>4 DEF Served
<1>12. CASE Ready
    <2>1. pc' = "wait" /\ repump' /\ runFor' = 0 /\ idleFor' = 0
        BY <1>12 DEF Ready, StartRun
    <2>. QED BY <1>0, <2>1 DEF Served, Idle, Unchallenged
<1>13. CASE PumpSkipped \/ StartSwap \/ OldStopped \/ StartFails
    <2>1. server' = NoKey
        BY <1>0, <1>13 DEF PumpSkipped, StartSwap, OldStopped, StartFails, Control, NoSwap
    <2>. QED BY <2>1 DEF Unserved
<1>14. ASSUME NEW j \in Jobs, ClientDies(j) PROVE Served'
    <2>1. /\ Unserved /\ pc = "wait" /\ pc' = "wait"
          /\ UNCHANGED <<server, queues, runFor, idleFor, repump>>
        BY <1>14 DEF ClientDies, Unserved, runVars
    <2>. QED BY <2>1 DEF Served, Idle, Waiting, Unchallenged, Others
<1>15. CASE UNCHANGED vars
    BY <1>15 DEF vars, jobVars, runVars, Served, Unserved, Idle, Waiting, Unchallenged, Others,
        HasPoll, QueuedOf
<1>. QED BY <1>1, <1>3, <1>4, <1>5, <1>6, <1>7, <1>8, <1>9, <1>10, <1>11, <1>12, <1>13, <1>14,
            <1>15 DEF Next

\* The end of the C1 livelock: with a linger no longer than the minimum run, as
\* in DEFAULT_TIMINGS, a model that was loaded for waiting work is not unloaded
\* while it has work and served none, whatever deadlines the others have.
THEOREM LoadedOnesServe == Linger <= MinRun => (Spec => ServedBeforeUnload)
<1>. SUFFICES ASSUME Linger <= MinRun PROVE Spec => ServedBeforeUnload
    OBVIOUS
<1>1. Init => Served
    BY DEF Init, Served, Unserved
<1>2. IInv /\ IInv' /\ Served /\ [Next]_vars => Served'
    BY ServedStep
<1>3. ASSUME IInv, Served, [Next]_vars
      PROVE  [server # NoKey /\ server' = NoKey /\ queuedAtLoad > 0
                => servedInRun > 0 \/ ~Waiting(server)]_vars
    <2>. SUFFICES ASSUME server # NoKey, server' = NoKey, queuedAtLoad > 0,
                         Waiting(server), ~(servedInRun > 0)
                  PROVE  FALSE
        OBVIOUS
    <2>0. /\ Control /\ QueuesRight /\ Batch \in Nat \ {0}
          /\ servedInRun \in 0..Batch /\ queuedAtLoad \in 0..Batch
        BY <1>3, SchedulerAssumption DEF IInv, TypeOK
    <2>1. StartSwap
        BY <1>3, <2>0 DEF Next, Submit, Cancel, ClientDies, Answer, Tick, Immediate,
            PumpSkipped, DropAbandoned, PumpDrop, NoSwapNow, Dispatch, PumpEnds, OldStopped,
            Ready, StartFails, vars, Control, NoSwap
    <2>2. Unserved /\ pc = "rotate"
        BY <2>0, <2>1 DEF Unserved, StartSwap
    <2>3. Unchallenged
        BY <1>3, <2>2 DEF Served
    <2>4. PICK k : k \in WantRotation
        BY <2>1 DEF StartSwap
    <2>5. k \in Others /\ current = server
        BY <2>0, <2>4, RotationIsElsewhere DEF Others, Control
    <2>6. MinimumServed
        BY <2>4, <2>5 DEF WantRotation
    <2>7. ~(servedInRun >= UpTo(Batch, queuedAtLoad))
        BY <2>0, UpToWorks
    <2>. QED BY <2>3, <2>5, <2>6, <2>7 DEF MinimumServed, Unchallenged
<1>. QED BY <1>1, <1>2, <1>3, Invariance, PTL DEF Spec, ServedBeforeUnload

-----------------------------------------------------------------------------
(* How long a model waits to be loaded, when it shares the server with one *)
(* other.                                                                  *)

\* What it takes: two models at most, and jobs with bounded timeouts.
TwoModels == \E a, b \in Keys : Keys = {a, b}
BoundedTimeouts == Jobs # {} /\ \E t \in Nat : \A j \in Jobs : QueueTimeout[j] <= t

\* The numbers of ticks a model has not been absent for longer.
Bounds(k) == {b \in Nat : \/ k = server \/ away[k] <= b
                          \/ \A j \in QueuedOf(k) : waited[j] <= b}

\* The last tick at which no rotation need be due.
InTime == Late - 1

\* The ages of jobs that are not queued, and not running.
Ages == \A j \in Jobs : /\ state[j] # "queued" => waited[j] = 0
                        /\ state[j] # "running" => ran[j] = 0

\* In its minimum run the loaded model keeps the other waiting that long.
InItsRun == runFor < MinRun => \A k \in Keys : MaxSwap + runFor \in Bounds(k)

\* A request was dispatched while no other model was due.
InFlight == \A k \in Keys : \A j \in Running : InTime + ran[j] \in Bounds(k)

\* Nothing is in flight: the last answer, or the last arrival, is as long ago
\* as the loaded model is idle.
Draining ==
    Running = {} => \A k \in Keys :
        /\ InTime + MaxExec + Linger \in Bounds(k)
        /\ \/ InTime + MaxExec + idleFor \in Bounds(k)
           \/ pc = "drop" /\ HasPoll
           \/ pc \in {"rotate", "fill"} /\ Waiting(server)

\* Only when no other model is due, pump dispatches.
Filling == pc = "fill" /\ Waiting(server) => \A k \in Keys : InTime \in Bounds(k)

\* Once nothing is in flight another model waits for the linger, no more.
Lingering ==
    Running = {} => \A k \in Others :
        /\ pc = "wait" /\ ~repump => ~Waiting(server) /\ idleFor < Linger
        /\ pc = "fill" => Waiting(server) \/ idleFor < Linger

\* While a model is loaded.
Loaded == server # NoKey => /\ \A k \in Keys : k = server => away[k] = 0
                            /\ InItsRun /\ InFlight /\ Draining /\ Filling /\ Lingering

\* During a swap the other model's absence began with it, or not yet.
Swapping ==
    swap # NoSwap => \A k \in Keys :
        IF k = swap.key THEN InTime + MaxExec + Linger + swap.for \in Bounds(k)
                        ELSE swap.for \in Bounds(k)

Fresh(k) == \A j \in QueuedOf(k) : waited[j] = 0

\* No model and no swap: a swap that just failed, or an empty scheduler.
Nothing ==
    server = NoKey =>
        /\ Running = {}
        /\ swap = NoSwap => /\ \A k \in Keys : MaxSwap \in Bounds(k)
                            /\ \E k \in Keys : Fresh(k)
                            /\ pc = "wait" /\ ~repump => AllQueued = {}

TimeInv == Ages /\ Loaded /\ Swapping /\ Nothing

\* A larger bound is a bound.
LEMMA BoundsGrow ==
    ASSUME IInv, NEW k \in Keys, NEW b \in Bounds(k), NEW c \in Nat, b <= c
    PROVE  c \in Bounds(k)
<1>1. away[k] \in Int /\ \A j \in QueuedOf(k) : waited[j] \in Int
    BY DEF IInv, TypeOK, QueuedOf
<1>. QED BY <1>1 DEF Bounds

\* A model without queued jobs is within every bound.
LEMMA NoneIsBound ==
    ASSUME IInv, NEW k \in Keys \ Others, NEW b \in Nat
    PROVE  b \in Bounds(k)
<1>1. k = server \/ ~Waiting(k)
    BY DEF Others
<1>2. ~Waiting(k) => QueuedOf(k) = {}
    BY WaitingIs DEF IInv
<1>. QED BY <1>1, <1>2 DEF Bounds

\* The age of a model's oldest job is that of a job.
LEMMA OldestIs ==
    ASSUME QueuesRight, waited \in [Jobs -> 0..WaitCap], NEW k \in Keys, Waiting(k)
    PROVE  /\ \E j \in QueuedOf(k) : waited[j] = OldestWait(k)
           /\ \A j \in QueuedOf(k) : waited[j] <= OldestWait(k)
<1>. DEFINE W == {waited[j] : j \in QueuedOf(k)}
<1>1. QueuedOf(k) # {} /\ QueuedOf(k) \subseteq Jobs /\ WaitCap \in Nat
    BY WaitingIs, SchedulerAssumption DEF QueuedOf
<1>2. W \in SUBSET (0..WaitCap) /\ W # {}
    BY <1>1
<1>3. OldestWait(k) = Max(W)
    BY DEF OldestWait, QueuesRight
<1>4. PICK n \in W : \A m \in W : n >= m
    <2>. HIDE DEF W
    <2>. QED BY <1>1, <1>2, GreatestOf
<1>5. Max(W) \in W /\ \A m \in W : Max(W) >= m
    <2>. HIDE DEF W
    <2>. QED BY <1>4 DEF Max
<1>. QED BY <1>2, <1>3, <1>5

\* A bound on the absence.
LEMMA AbsenceIs ==
    ASSUME IInv, NEW k \in Keys, NEW b \in Bounds(k)
    PROVE  Absence(k) \in Nat /\ Absence(k) <= b
<1>0. b \in Nat /\ away[k] \in Nat /\ QueuesRight /\ waited \in [Jobs -> 0..WaitCap]
    BY DEF Bounds, IInv, TypeOK
<1>1. CASE k # server /\ Waiting(k)
    <2>1. PICK j \in QueuedOf(k) : waited[j] = OldestWait(k)
        BY <1>0, <1>1, OldestIs
    <2>2. OldestWait(k) \in Nat /\ (away[k] <= b \/ OldestWait(k) <= b)
        BY <1>0, <1>1, <2>1 DEF Bounds, QueuedOf
    <2>3. UpTo(away[k], OldestWait(k)) \in Nat /\ UpTo(away[k], OldestWait(k)) <= b
        BY <1>0, <2>2, UpToWorks
    <2>. QED BY <1>1, <2>3 DEF Absence
<1>. QED BY <1>0, <1>1 DEF Absence

\* The time by which a waiting model is due.
LEMMA LateIs ==
    ASSUME BoundedTimeouts
    PROVE  /\ Late \in Nat /\ Late >= MaxSwap + MinRun
           /\ LargestTimeout \in Nat /\ Late \in {LargestTimeout, MaxSwap + MinRun}
           /\ \A j \in Jobs : QueueTimeout[j] <= Late
           /\ InTime \in Nat /\ InTime >= MaxSwap + MinRun - 1 /\ InTime >= MaxSwap
<1>. DEFINE Q == {QueueTimeout[j] : j \in Jobs}
<1>0. MaxSwap \in Nat \ {0} /\ MinRun \in Nat \ {0} /\ QueueTimeout \in [Jobs -> Nat]
    BY SchedulerAssumption
<1>1. PICK t \in Nat : \A j \in Jobs : QueueTimeout[j] <= t
    BY DEF BoundedTimeouts
<1>2. Q \in SUBSET (0..t) /\ Q # {}
    BY <1>0, <1>1 DEF BoundedTimeouts
<1>3. LargestTimeout \in Nat /\ \A q \in Q : LargestTimeout >= q
    <2>. HIDE DEF Q
    <2>1. PICK n \in Q : \A m \in Q : n >= m
        BY <1>1, <1>2, GreatestOf
    <2>2. LargestTimeout = Max(Q)
        BY DEF LargestTimeout, Q
    <2>3. Max(Q) \in Q /\ \A q \in Q : Max(Q) >= q
        BY <2>1 DEF Max
    <2>4. Max(Q) \in 0..t
        BY <1>2, <2>3
    <2>5. Max(Q) \in Nat
        BY <1>1, <2>4
    <2>. QED BY <2>2, <2>3, <2>5
<1>4. /\ Late \in Nat /\ Late >= LargestTimeout /\ Late >= MaxSwap + MinRun
      /\ Late \in {LargestTimeout, MaxSwap + MinRun}
    <2>. DEFINE m == MaxSwap + MinRun
    <2>1. m \in Nat
        BY <1>0
    <2>2. ASSUME NEW n \in {LargestTimeout, m}, n >= LargestTimeout, n >= m
          PROVE  Max({LargestTimeout, m}) = n
        BY <1>3, <2>1, <2>2 DEF Max
    <2>. HIDE DEF m
    <2>3. LET x == Max({LargestTimeout, m}) IN
          x \in Nat /\ x >= LargestTimeout /\ x >= m /\ x \in {LargestTimeout, m}
        BY <1>3, <2>1, <2>2
    <2>. QED BY <2>3 DEF Late, m
<1>5. \A j \in Jobs : QueueTimeout[j] <= Late
    BY <1>0, <1>3, <1>4
<1>. QED BY <1>0, <1>3, <1>4, <1>5 DEF InTime

\* A model that waited longer makes a rotation due.
LEMMA DueIs ==
    ASSUME BoundedTimeouts, IInv, NEW k \in Keys, k # current, InTime \notin Bounds(k)
    PROVE  DueKeys # {}
<1>. DEFINE near == {j \in AllQueued : /\ KeyOf[j] # current
                                       /\ TimeLeft(j) <= loadMs[KeyOf[j]]}
<1>0. /\ waited \in [Jobs -> 0..WaitCap] /\ loadMs \in [Keys -> Nat] /\ WaitCap \in Nat
      /\ QueueTimeout \in [Jobs -> Nat] /\ QueuesRight
    BY SchedulerAssumption DEF IInv, TypeOK
<1>1. PICK t \in Nat : \A j \in Jobs : QueueTimeout[j] <= t
    BY DEF BoundedTimeouts
<1>. DEFINE N == {t - TimeLeft(j) : j \in near}
<1>2. near \subseteq Jobs
    BY <1>0, AllQueuedIs
<1>3. PICK j \in QueuedOf(k) : ~(waited[j] <= InTime)
    BY LateIs DEF Bounds
<1>4. j \in near
    <2>1. j \in Jobs /\ KeyOf[j] = k /\ j \in AllQueued
        BY <1>0, AllQueuedIs DEF QueuedOf
    <2>2. TimeLeft(j) <= 0
        BY <1>0, <1>3, <2>1, LateIs DEF TimeLeft, InTime
    <2>. QED BY <1>0, <2>1, <2>2 DEF TimeLeft
<1>5. N \in SUBSET (0..t + WaitCap) /\ N # {}
    <2>1. \A i \in near : t - TimeLeft(i) \in 0..t + WaitCap
        BY <1>0, <1>1, <1>2 DEF TimeLeft
    <2>. QED BY <1>4, <2>1
<1>6. PICK n \in N : \A m \in N : n >= m
    <2>1. t + WaitCap \in Nat
        BY <1>0, <1>1
    <2>. HIDE DEF N
    <2>. QED BY <1>5, <2>1, GreatestOf
<1>7. PICK i \in near : n = t - TimeLeft(i)
    BY <1>6
<1>8. \A o \in near : TimeLeft(i) <= TimeLeft(o)
    <2>1. \A o \in near : TimeLeft(o) \in Int /\ n >= t - TimeLeft(o)
        BY <1>0, <1>2, <1>6 DEF TimeLeft
    <2>. HIDE DEF near, N
    <2>. QED BY <1>1, <1>7, <2>1
<1>. QED BY <1>7, <1>8 DEF DueKeys

\* A step that lets no time pass: a job's wait stays, or starts at zero.
Steady == \A j \in Jobs : state'[j] = "queued" =>
             waited'[j] = 0 \/ (state[j] = "queued" /\ waited'[j] = waited[j])

\* Only the clock makes jobs older, and only those it should.
LEMMA AgesStep ==
    ASSUME IInv, Ages, [Next]_vars
    PROVE  Ages' /\ (Tick \/ Steady)
<1>0. JobTypes /\ QueuesRight
    BY DEF IInv, TypeOK, JobTypes
<1>. USE DEF Ages
<1>1. ASSUME NEW S, Leave(S), UNCHANGED ran,
             \A j \in S \cap Jobs : state[j] = "queued"
      PROVE  Ages' /\ Steady
    <2>1. \A j \in Jobs : IF j \in S THEN state'[j] = "new" /\ waited'[j] = 0
                          ELSE state'[j] = state[j] /\ waited'[j] = waited[j]
        BY <1>1 DEF Leave
    <2>. QED BY <1>0, <1>1, <2>1 DEF Steady
<1>2. ASSUME NEW j \in Jobs, Submit(j) PROVE Ages' /\ Steady
    BY <1>0, <1>2 DEF Submit, JobTypes, Steady
<1>3. ASSUME NEW j \in Jobs, Cancel(j) PROVE Ages' /\ Steady
    BY <1>1, <1>3 DEF Cancel, LeaveQueue
<1>4. ASSUME NEW j \in Jobs, Answer(j) PROVE Ages' /\ Steady
    BY <1>0, <1>4 DEF Answer, JobTypes, Steady
<1>5. CASE Tick
    BY <1>5 DEF Tick
<1>6. CASE DropAbandoned
    <2>1. PICK j \in Abandoned : LeaveQueue(j)
        BY <1>6 DEF DropAbandoned
    <2>2. state[j] = "queued"
        BY <1>0, AllQueuedIs DEF Abandoned
    <2>. QED BY <1>1, <1>6, <2>1, <2>2 DEF DropAbandoned, LeaveQueue
<1>7. CASE Dispatch
    <2>1. PICK j : /\ state' = [state EXCEPT ![j] = "running"]
                   /\ waited' = [waited EXCEPT ![j] = 0]
        BY <1>7 DEF Dispatch
    <2>2. UNCHANGED ran
        BY <1>7 DEF Dispatch
    <2>. QED BY <1>0, <2>1, <2>2 DEF JobTypes, Steady
<1>8. CASE StartFails
    <2>1. swap.key \in Keys
        BY <1>8 DEF StartFails, IInv, Control, NoSwap
    <2>2. \A j \in Queued(queues[swap.key]) : state[j] = "queued"
        BY <1>0, <2>1 DEF QueuesRight, QueuedOf
    <2>. QED BY <1>1, <1>8, <2>2 DEF StartFails
<1>9. CASE UNCHANGED <<state, waited, ran>>
    BY <1>9 DEF Steady
<1>. QED BY <1>2, <1>3, <1>4, <1>5, <1>6, <1>7, <1>8, <1>9
         DEF Next, ClientDies, Immediate, PumpSkipped, PumpDrop, StartSwap,
             NoSwapNow, PumpEnds, OldStopped, Ready, vars, jobVars

\* The bounds of a model that is not loaded or unloaded meanwhile.
LEMMA BoundsStay ==
    ASSUME IInv, Steady, NEW k \in Keys, away'[k] = away[k], k = server => k = server'
    PROVE  Bounds(k) \subseteq Bounds(k)'
<1>. SUFFICES ASSUME NEW b \in Bounds(k) PROVE b \in Bounds(k)'
    OBVIOUS
<1>1. \A j \in QueuedOf(k)' : waited'[j] = 0 \/ (j \in QueuedOf(k) /\ waited'[j] = waited[j])
    BY DEF Steady, QueuedOf
<1>. QED BY <1>1 DEF Bounds

\* With a tick they grow by one.
LEMMA BoundsTick ==
    ASSUME IInv, Tick, NEW k \in Keys, NEW b \in Bounds(k)
    PROVE  b + 1 \in Bounds(k)'
<1>0. /\ WaitCap \in Nat /\ away \in [Keys -> 0..WaitCap] /\ waited \in [Jobs -> 0..WaitCap]
      /\ b \in Nat
    BY SchedulerAssumption DEF IInv, TypeOK, Bounds
<1>1. server' = server /\ state' = state
    BY DEF Tick
<1>2. away[k] <= b => away'[k] <= b + 1
    <2>1. UpTo(WaitCap, away[k] + 1) <= away[k] + 1 /\ UpTo(WaitCap, away[k] + 1) \in Nat
        BY <1>0, UpToWorks
    <2>2. away'[k] = 0 \/ away'[k] = UpTo(WaitCap, away[k] + 1)
        BY DEF Tick
    <2>. QED BY <1>0, <2>1, <2>2
<1>3. ASSUME NEW j \in QueuedOf(k), waited[j] <= b PROVE waited'[j] <= b + 1
    <2>1. UpTo(WaitCap, waited[j] + 1) <= waited[j] + 1 /\ UpTo(WaitCap, waited[j] + 1) \in Nat
        BY <1>0, UpToWorks DEF QueuedOf
    <2>2. waited'[j] = 0 \/ waited'[j] = UpTo(WaitCap, waited[j] + 1)
        BY DEF Tick, QueuedOf
    <2>. QED BY <1>0, <1>3, <2>1, <2>2 DEF QueuedOf
<1>. QED BY <1>0, <1>1, <1>2, <1>3 DEF Bounds, QueuedOf

\* The types the time arguments rest on.
LEMMA TimeTypes ==
    ASSUME IInv
    PROVE  /\ {Slots, MinRun, Linger, MaxExec, MaxSwap, WaitCap} \subseteq Nat \ {0}
           /\ NoKey \notin Keys /\ server \in Keys \cup {NoKey}
           /\ runFor \in 0..MinRun /\ idleFor \in 0..Linger
           /\ ran \in [Jobs -> 0..MaxExec] /\ away \in [Keys -> 0..WaitCap]
           /\ waited \in [Jobs -> 0..WaitCap] /\ polling \in [Jobs -> BOOLEAN]
           /\ state \in [Jobs -> {"new", "queued", "running"}]
           /\ pc \in {"wait", "drop", "rotate", "fill"}
           /\ QueuesRight /\ Control
BY SchedulerAssumption DEF IInv, TypeOK

\* A tick while a model is loaded.
LEMMA LoadedTick ==
    ASSUME BoundedTimeouts, IInv, IInv', Loaded, Tick, server # NoKey
    PROVE  Loaded'
<1>0. /\ {Slots, MinRun, Linger, MaxExec, MaxSwap, WaitCap} \subseteq Nat \ {0}
      /\ runFor \in 0..MinRun /\ idleFor \in 0..Linger /\ ran \in [Jobs -> 0..MaxExec]
      /\ idleFor' \in 0..Linger /\ InTime \in Nat
    BY TimeTypes, LateIs DEF IInv, TypeOK
<1>1. /\ server' = server /\ pc = "wait" /\ ~repump /\ pc' = "drop" /\ Running' = Running
      /\ Others' = Others
    BY DEF Tick, Running, Others, Waiting
<1>2. InItsRun /\ InFlight /\ Draining /\ Lingering
    BY DEF Loaded
<1>3. InItsRun'
    <2>. SUFFICES ASSUME runFor' < MinRun, NEW k \in Keys
                  PROVE  MaxSwap + runFor' \in Bounds(k)'
        BY DEF InItsRun
    <2>1. runFor' = runFor + 1 /\ runFor < MinRun
        BY <1>0, <1>1, UpToWorks DEF Tick
    <2>2. (MaxSwap + runFor) + 1 \in Bounds(k)'
        BY <1>2, <2>1, BoundsTick DEF InItsRun
    <2>3. MaxSwap + runFor' = (MaxSwap + runFor) + 1
        BY <1>0, <2>1
    <2>. QED BY <2>2, <2>3
<1>4. InFlight'
    <2>. SUFFICES ASSUME NEW k \in Keys, NEW j \in Running
                  PROVE  InTime + ran'[j] \in Bounds(k)'
        BY <1>1 DEF InFlight
    <2>1. j \in Jobs /\ ran'[j] = ran[j] + 1
        BY DEF Running, Tick
    <2>2. (InTime + ran[j]) + 1 \in Bounds(k)'
        BY <1>2, BoundsTick DEF InFlight
    <2>3. InTime + ran'[j] = (InTime + ran[j]) + 1
        BY <1>0, <2>1
    <2>. QED BY <2>2, <2>3
<1>5. Draining'
    <2>. SUFFICES ASSUME Running = {}, NEW k \in Keys
                  PROVE  /\ InTime + MaxExec + Linger \in Bounds(k)'
                         /\ InTime + MaxExec + idleFor' \in Bounds(k)'
        BY <1>1 DEF Draining
    <2>1. idleFor' = UpTo(Linger, idleFor + 1)
        BY <1>1 DEF Tick
    <2>2. idleFor' = IF idleFor + 1 <= Linger THEN idleFor + 1 ELSE Linger
        BY <1>0, <2>1, UpToWorks
    <2>. DEFINE l == InTime + MaxExec + (Linger - 1)
                i == InTime + MaxExec + (idleFor' - 1)
    <2>3. l \in Nat /\ i \in Nat /\ l + 1 = InTime + MaxExec + Linger
          /\ i + 1 = InTime + MaxExec + idleFor'
        BY <1>0, <2>2
    <2>4. l \in Bounds(k) /\ i \in Bounds(k)
        <3>1. CASE k \in Others
            <4>1. idleFor < Linger /\ InTime + MaxExec + idleFor \in Bounds(k)
                BY <1>1, <1>2, <3>1 DEF Lingering, Draining
            <4>2. i = InTime + MaxExec + idleFor /\ InTime + MaxExec + idleFor <= l
                BY <1>0, <2>2, <4>1
            <4>. HIDE DEF l, i
            <4>. QED BY <2>3, <4>1, <4>2, BoundsGrow
        <3>2. CASE k \notin Others
            <4>. HIDE DEF l, i
            <4>. QED BY <2>3, <3>2, NoneIsBound
        <3>. QED BY <3>1, <3>2
    <2>. HIDE DEF l, i
    <2>5. l + 1 \in Bounds(k)' /\ i + 1 \in Bounds(k)'
        BY <2>4, BoundsTick
    <2>. QED BY <2>3, <2>5
<1>6. Filling' /\ Lingering'
    BY <1>1 DEF Filling, Lingering
<1>7. \A k \in Keys : k = server' => away'[k] = 0
    BY <1>1 DEF Tick
<1>. QED BY <1>3, <1>4, <1>5, <1>6, <1>7 DEF Loaded

\* Pump goes on to dispatch only when no other model is due.
LEMMA NoneDue ==
    ASSUME BoundedTimeouts, IInv, InItsRun, WantRotation = {}, server # NoKey,
           Waiting(server), NEW k \in Keys
    PROVE  InTime \in Bounds(k)
<1>0. /\ {MinRun, MaxSwap} \subseteq Nat \ {0} /\ runFor \in 0..MinRun /\ InTime \in Nat
      /\ InTime >= MaxSwap + MinRun - 1 /\ QueuesRight /\ waited \in [Jobs -> 0..WaitCap]
      /\ current = server
    BY TimeTypes, LateIs DEF Control
<1>1. CASE k \in Others
    <2>1. LongestWaiting # {}
        BY <1>0, <1>1, NoneWaits DEF Others
    <2>2. ~MinimumServed \/ DueKeys = {}
        BY <1>0, <2>1 DEF WantRotation
    <2>3. CASE ~MinimumServed
        <3>1. MaxSwap + runFor \in Bounds(k) /\ runFor < MinRun
            BY <1>0, <2>3 DEF MinimumServed, InItsRun
        <3>2. MaxSwap + runFor <= InTime
            BY <1>0, <3>1
        <3>. QED BY <1>0, <3>1, <3>2, BoundsGrow
    <2>4. CASE DueKeys = {}
        <3>1. k # current
            BY <1>0, <1>1 DEF Others
        <3>. QED BY <2>4, <3>1, DueIs
    <2>. QED BY <2>2, <2>3, <2>4
<1>2. CASE k \notin Others
    BY <1>0, <1>2, NoneIsBound
<1>. QED BY <1>1, <1>2

\* Any other step while a model is loaded.
LEMMA LoadedQuiet ==
    ASSUME BoundedTimeouts, IInv, IInv', Ages, Loaded, Steady, [Next]_vars, ~Tick,
           server # NoKey, server' = server
    PROVE  Loaded'
<1>0. /\ {Slots, MinRun, Linger, MaxExec, MaxSwap, WaitCap} \subseteq Nat \ {0}
      /\ NoKey \notin Keys /\ server \in Keys /\ KeyOf \in [Jobs -> Keys]
      /\ runFor \in 0..MinRun /\ idleFor \in 0..Linger /\ ran \in [Jobs -> 0..MaxExec]
      /\ state \in [Jobs -> {"new", "queued", "running"}] /\ polling \in [Jobs -> BOOLEAN]
      /\ waited \in [Jobs -> 0..WaitCap]
      /\ pc \in {"wait", "drop", "rotate", "fill"}
      /\ idleFor' \in 0..Linger /\ InTime \in Nat /\ InTime >= MaxSwap
      /\ QueuesRight /\ Control /\ current = server /\ swap = NoSwap
    BY TimeTypes, LateIs, SchedulerAssumption DEF Control, IInv, TypeOK
<1>1. /\ InItsRun /\ InFlight /\ Draining /\ Filling /\ Lingering
      /\ \A k \in Keys : k = server => away[k] = 0
    BY DEF Loaded
<1>2. \/ \E j \in Jobs : Submit(j) \/ Cancel(j) \/ ClientDies(j) \/ Answer(j)
      \/ Immediate \/ DropAbandoned \/ PumpDrop \/ NoSwapNow \/ Dispatch \/ PumpEnds
      \/ UNCHANGED vars
    <2>1. ~PumpSkipped /\ ~StartSwap /\ ~OldStopped /\ ~Ready /\ ~StartFails
        BY <1>0 DEF PumpSkipped, StartSwap, OldStopped, Ready, StartFails, NoSwap
    <2>. QED BY <2>1 DEF Next
<1>3. /\ UNCHANGED <<away, runFor>>
      /\ \A i \in Running' : /\ ran'[i] = ran[i]
                             /\ i \in Running \/ (Dispatch /\ ran[i] = 0)
    <2>1. UNCHANGED <<away, runFor>>
        BY <1>2 DEF Submit, Cancel, ClientDies, Answer, Immediate, DropAbandoned, PumpDrop,
            NoSwapNow, Dispatch, PumpEnds, vars, runVars
    <2>. SUFFICES ASSUME NEW i \in Running'
                  PROVE  ran'[i] = ran[i] /\ (i \in Running \/ (Dispatch /\ ran[i] = 0))
        BY <2>1
    <2>2. i \in Jobs /\ state'[i] = "running" /\ (i \notin Running => ran[i] = 0)
        BY DEF Running, Ages
    <2>3. i \in Running \/ Dispatch
        BY RunningStep DEF IInv
    <2>4. ran'[i] = ran[i]
        <3>1. ASSUME NEW j \in Jobs, Answer(j) PROVE ran'[i] = ran[i]
            BY <1>0, <2>2, <3>1 DEF Answer
        <3>2. (\E j \in Jobs : Answer(j)) \/ UNCHANGED ran
            BY <1>2 DEF Submit, Cancel, ClientDies, Immediate, DropAbandoned, PumpDrop,
                NoSwapNow, Dispatch, PumpEnds, vars, jobVars
        <3>. QED BY <3>1, <3>2
    <2>. QED BY <2>2, <2>3, <2>4
<1>4. ASSUME NEW k \in Keys PROVE Bounds(k) \subseteq Bounds(k)'
    BY <1>3, BoundsStay
<1>5. InItsRun' /\ InFlight'
    <2>1. InItsRun'
        BY <1>1, <1>3, <1>4 DEF InItsRun
    <2>2. ASSUME NEW k \in Keys, NEW i \in Running' PROVE InTime + ran'[i] \in Bounds(k)'
        <3>1. CASE i \in Running
            BY <1>1, <1>3, <1>4, <3>1 DEF InFlight
        <3>2. CASE Dispatch /\ ran[i] = 0
            <4>1. InTime \in Bounds(k)
                BY <1>1, <3>2 DEF Filling, Dispatch, CanDispatch
            <4>2. InTime + ran'[i] = InTime
                BY <1>0, <1>3, <3>2
            <4>. QED BY <1>4, <4>1, <4>2
        <3>. QED BY <1>3, <3>1, <3>2
    <2>. QED BY <2>1, <2>2 DEF InFlight
<1>6. (Draining /\ Filling /\ Lingering)'
    <2>. USE DEF Filling, Lingering
    <2>1. ASSUME NEW j \in Jobs, Submit(j) PROVE (Draining /\ Filling /\ Lingering)'
        <3>1. pc = "wait" /\ pc' = "drop" /\ Running' = Running
              /\ state' = [state EXCEPT ![j] = "queued"]
              /\ polling' = [polling EXCEPT ![j] = TRUE]
            BY <1>0, <2>1 DEF Submit, Running
        <3>2. HasPoll' \/ idleFor' = idleFor
            <4>1. CASE KeyOf[j] = server
                <5>1. j \in QueuedOf(server)' /\ polling'[j]
                    BY <1>0, <3>1, <4>1 DEF QueuedOf
                <5>. QED BY <5>1 DEF HasPoll
            <4>2. CASE KeyOf[j] # server
                BY <1>0, <2>1, <4>2 DEF Submit, IdleAfter
            <4>. QED BY <4>1, <4>2
        <3>. QED BY <1>1, <1>4, <3>1, <3>2 DEF Draining
    <2>2. ASSUME NEW j \in Jobs, LeaveQueue(j), state[j] = "queued", ~polling[j] \/ pc = "wait",
                 pc \in {"wait", "drop"}, UNCHANGED <<pc, repump, runVars>>
          PROVE  (Draining /\ Filling /\ Lingering)'
        <3>1. \A i \in Jobs : /\ state'[i] = (IF i = j THEN "new" ELSE state[i])
                              /\ polling'[i] = (polling[i] /\ i # j)
            BY <1>0, <2>2 DEF LeaveQueue, Leave
        <3>2. Others' \subseteq Others /\ (Waiting(server)' => Waiting(server))
            BY <3>1, LeavingOnly
        <3>3. Running' = Running /\ idleFor' = idleFor
            BY <2>2, <3>1 DEF Running, runVars
        <3>4. pc = "drop" /\ HasPoll => HasPoll'
            BY <2>2, <3>1 DEF HasPoll, QueuedOf
        <3>. QED BY <1>1, <1>4, <2>2, <3>2, <3>3, <3>4 DEF Draining
    <2>3. ASSUME NEW j \in Jobs, Cancel(j) PROVE (Draining /\ Filling /\ Lingering)'
        BY <2>2, <2>3 DEF Cancel
    <2>4. CASE DropAbandoned
        <3>1. PICK j \in Abandoned : LeaveQueue(j)
            BY <2>4 DEF DropAbandoned
        <3>2. j \in Jobs /\ state[j] = "queued" /\ ~polling[j]
            BY <1>0, AllQueuedIs DEF Abandoned
        <3>. QED BY <2>2, <2>4, <3>1, <3>2 DEF DropAbandoned
    <2>5. ASSUME NEW j \in Jobs, Answer(j) PROVE (Draining /\ Filling /\ Lingering)'
        <3>1. j \in Running /\ pc' = "drop"
            BY <2>5 DEF Answer, Running
        <3>2. ASSUME NEW k \in Keys
              PROVE  /\ InTime + MaxExec + Linger \in Bounds(k)
                     /\ InTime + MaxExec + idleFor' \in Bounds(k)
            <4>1. InTime + ran[j] \in Bounds(k) /\ j \in Jobs
                BY <1>1, <3>1 DEF InFlight, Running
            <4>2. InTime + ran[j] <= InTime + MaxExec + Linger
                  /\ InTime + ran[j] <= InTime + MaxExec + idleFor'
                  /\ InTime + MaxExec + Linger \in Nat /\ InTime + MaxExec + idleFor' \in Nat
                BY <1>0, <4>1
            <4>. QED BY <4>1, <4>2, BoundsGrow
        <3>. QED BY <1>4, <3>1, <3>2 DEF Draining
    <2>6. CASE Immediate
        <3>1. pc = "wait" /\ pc' = "drop" /\ Running' = Running /\ idleFor' = idleFor
            BY <2>6 DEF Immediate, Running, jobVars, runVars
        <3>. QED BY <1>1, <1>4, <3>1 DEF Draining
    <2>7. CASE PumpDrop
        <3>1. pc = "drop" /\ pc' = "rotate" /\ UNCHANGED <<state, queues, idleFor>>
            BY <2>7 DEF PumpDrop, jobVars
        <3>2. HasPoll => Waiting(server)'
            BY <1>0, <3>1, WaitingIs DEF HasPoll, Waiting
        <3>. QED BY <1>1, <1>4, <3>1, <3>2 DEF Draining, Running
    <2>8. CASE NoSwapNow
        <3>1. /\ pc = "rotate" /\ UNCHANGED <<state, queues, idleFor>>
              /\ ~(Running = {} /\ WantRotation \ {server} # {})
              /\ pc' = IF KeepServing THEN "fill" ELSE "wait"
            BY <2>8 DEF NoSwapNow, jobVars, runVars
        <3>2. /\ Running' = Running /\ Waiting(server)' = Waiting(server) /\ Others' = Others
            BY <3>1 DEF Running, Waiting, Others
        <3>3. Running = {} => pc' = "fill"
            BY <1>0, <3>1, RotationIsElsewhere DEF KeepServing
        <3>4. Draining'
            BY <1>1, <1>4, <3>1, <3>2, <3>3 DEF Draining
        <3>5. Filling'
            BY <1>0, <1>1, <1>4, <3>1, <3>2, NoneDue DEF KeepServing
        <3>6. ASSUME Running = {}, ~Waiting(server), NEW k \in Others
              PROVE  idleFor < Linger
            <4>1. WantRotation = {}
                BY <3>1, <3>3, <3>6 DEF KeepServing
            <4>2. LongestWaiting # {}
                BY <1>0, <3>6, NoneWaits DEF Others
            <4>3. ~(idleFor >= Linger)
                BY <1>0, <3>6, <4>1, <4>2 DEF WantRotation
            <4>. QED BY <1>0, <4>3
        <3>7. Lingering'
            BY <3>1, <3>2, <3>3, <3>6
        <3>. QED BY <3>4, <3>5, <3>7
    <2>9. CASE Dispatch
        <3>1. pc = "fill" /\ Waiting(server) /\ pc' = "fill"
            BY <2>9 DEF Dispatch, CanDispatch
        <3>2. Running' # {}
            <4>. DEFINE j == NextJob(queues[server])
            <4>1. j \in QueuedOf(server)
                BY <1>0, <3>1, TakeWorks DEF QueuesRight, Waiting
            <4>2. state' = [state EXCEPT ![j] = "running"]
                BY <2>9 DEF Dispatch
            <4>. HIDE DEF j
            <4>3. j \in Running'
                BY <1>0, <4>1, <4>2 DEF Running, QueuedOf
            <4>. QED BY <4>3
        <3>. QED BY <1>1, <1>4, <3>1, <3>2 DEF Draining
    <2>10. CASE PumpEnds
        <3>1. /\ pc = "fill" /\ pc' = "wait" /\ ~CanDispatch
              /\ UNCHANGED <<state, queues, idleFor>>
            BY <2>10 DEF PumpEnds, jobVars, runVars
        <3>2. /\ Running' = Running /\ Waiting(server)' = Waiting(server) /\ Others' = Others
            BY <3>1 DEF Running, Waiting, Others
        <3>3. Running = {} => ~Waiting(server)
            BY <1>0, <3>1, FS_EmptySet DEF CanDispatch
        <3>. QED BY <1>1, <1>4, <3>1, <3>2, <3>3 DEF Draining
    <2>11. ASSUME NEW j \in Jobs, ClientDies(j) PROVE (Draining /\ Filling /\ Lingering)'
        <3>1. pc = "wait" /\ pc' = "wait" /\ UNCHANGED <<repump, state, queues, idleFor>>
            BY <2>11 DEF ClientDies, runVars
        <3>2. /\ Running' = Running /\ Waiting(server)' = Waiting(server) /\ Others' = Others
            BY <3>1 DEF Running, Waiting, Others
        <3>. QED BY <1>1, <1>4, <3>1, <3>2 DEF Draining
    <2>12. CASE UNCHANGED vars
        <3>1. UNCHANGED <<pc, repump, state, queues, idleFor, polling>>
            BY <2>12 DEF vars, jobVars, runVars
        <3>2. /\ Running' = Running /\ Waiting(server)' = Waiting(server) /\ Others' = Others
              /\ HasPoll' = HasPoll
            BY <3>1 DEF Running, Waiting, Others, HasPoll, QueuedOf
        <3>. QED BY <1>1, <1>4, <3>1, <3>2 DEF Draining
    <2>. QED BY <1>2, <2>1, <2>3, <2>4, <2>5, <2>6, <2>7, <2>8, <2>9, <2>10, <2>11, <2>12
<1>. QED BY <1>1, <1>3, <1>5, <1>6 DEF Loaded

\* A model that was just loaded: the other one waited for the swap, at most.
LEMMA ReadyLoads ==
    ASSUME BoundedTimeouts, IInv, IInv', Swapping, Nothing, Steady, Ready
    PROVE  Loaded'
<1>0. /\ {MinRun, Linger, MaxExec, MaxSwap} \subseteq Nat \ {0} /\ NoKey \notin Keys
      /\ InTime \in Nat /\ InTime >= MaxSwap /\ away \in [Keys -> 0..WaitCap]
    BY TimeTypes, LateIs
<1>1. /\ swap # NoSwap /\ swap.key \in Keys /\ server = NoKey
      /\ swap.for \in Nat /\ swap.for <= MaxSwap
    BY <1>0 DEF Ready, NoSwap, IInv, Control, TypeOK
<1>2. /\ server' = swap.key /\ pc' = "wait" /\ repump' /\ runFor' = 0 /\ idleFor' = 0
      /\ away' = [away EXCEPT ![swap.key] = 0] /\ Running' = {}
    BY <1>1 DEF Ready, StartRun, Nothing, Running, jobVars
<1>3. ASSUME NEW k \in Keys, NEW c \in Nat, c >= MaxSwap PROVE c \in Bounds(k)'
    <2>1. CASE k = swap.key
        BY <1>2, <2>1 DEF Bounds
    <2>2. CASE k # swap.key
        <3>1. swap.for \in Bounds(k) /\ swap.for <= c
            BY <1>0, <1>1, <1>3, <2>2 DEF Swapping
        <3>2. away'[k] = away[k] /\ k # server
            BY <1>0, <1>1, <1>2, <2>2
        <3>. QED BY <3>1, <3>2, BoundsGrow, BoundsStay
    <2>. QED BY <2>1, <2>2
<1>4. /\ MaxSwap + 0 \in Nat /\ MaxSwap + 0 >= MaxSwap
      /\ InTime + MaxExec + Linger \in Nat /\ InTime + MaxExec + Linger >= MaxSwap
      /\ InTime + MaxExec + 0 \in Nat /\ InTime + MaxExec + 0 >= MaxSwap
    BY <1>0
<1>5. InItsRun' /\ Draining'
    BY <1>2, <1>3, <1>4 DEF InItsRun, Draining
<1>6. InFlight' /\ Filling' /\ Lingering'
    BY <1>2 DEF InFlight, Filling, Lingering
<1>7. \A k \in Keys : k = server' => away'[k] = 0
    BY <1>0, <1>2
<1>. QED BY <1>5, <1>6, <1>7 DEF Loaded

\* The facts about a loaded model hold after every step.
LEMMA LoadedStep ==
    ASSUME BoundedTimeouts, IInv, IInv', TimeInv, [Next]_vars
    PROVE  Loaded'
<1>. SUFFICES ASSUME server' # NoKey PROVE Loaded'
    BY DEF Loaded
<1>1. Ages' /\ (Tick \/ Steady)
    BY AgesStep DEF TimeInv
<1>2. Ready \/ (server # NoKey /\ server' = server)
    BY DEF Next, Submit, Cancel, LeaveQueue, ClientDies, Answer, Tick, Immediate, PumpSkipped,
        DropAbandoned, PumpDrop, StartSwap, NoSwapNow, Dispatch, PumpEnds, OldStopped,
        StartFails, vars
<1>3. CASE Ready
    <2>1. Steady
        BY <1>1, <1>3 DEF Ready, Tick
    <2>. QED BY <1>3, <2>1, ReadyLoads DEF TimeInv
<1>4. CASE server # NoKey /\ server' = server
    BY <1>1, <1>4, LoadedTick, LoadedQuiet DEF TimeInv
<1>. QED BY <1>2, <1>3, <1>4

\* A swap that starts finds the other model just unloaded, or with nothing
\* older than what the next model waits for.
LEMMA SwapStarts ==
    ASSUME TwoModels, BoundedTimeouts, IInv, IInv', TimeInv, Steady, StartSwap
    PROVE  Swapping'
<1>0. /\ {Linger, MaxExec, MaxSwap} \subseteq Nat \ {0} /\ NoKey \notin Keys
      /\ server \in Keys \cup {NoKey} /\ waited \in [Jobs -> 0..WaitCap] /\ QueuesRight
      /\ InTime \in Nat /\ InTime >= MaxSwap /\ current = server /\ swap = NoSwap
      /\ 0 \in Nat
    BY TimeTypes, LateIs DEF StartSwap, Control
<1>1. PICK next \in WantRotation \ {server} :
        swap' = [phase |-> IF server = NoKey THEN "starting" ELSE "stopping",
                 key |-> next, for |-> 0]
    BY DEF StartSwap
<1>2. next \in Keys /\ Running = {} /\ away' = away /\ swap'.key = next /\ swap'.for = 0
      /\ next # server
    BY <1>0, <1>1, RotationIsElsewhere DEF StartSwap
<1>. DEFINE most == InTime + MaxExec + Linger
<1>3. most \in Nat /\ most + 0 = most /\ MaxSwap <= most
    BY <1>0
<1>. HIDE DEF most
<1>4. most \in Bounds(next)'
    <2>1. most \in Bounds(next)
        <3>1. CASE server # NoKey
            BY <1>2, <3>1 DEF TimeInv, Loaded, Draining, most
        <3>2. CASE server = NoKey
            BY <1>0, <1>2, <1>3, <3>2, BoundsGrow DEF TimeInv, Nothing
        <3>. QED BY <3>1, <3>2
    <2>. QED BY <1>2, <2>1, BoundsStay
<1>5. ASSUME NEW k \in Keys, k # next PROVE 0 \in Bounds(k)'
    <2>1. CASE k = server
        <3>1. away'[k] = 0
            BY <1>0, <1>2, <2>1 DEF TimeInv, Loaded
        <3>. QED BY <3>1 DEF Bounds
    <2>2. CASE server # NoKey /\ k # server
        BY <1>0, <1>2, <1>5, <2>2 DEF TwoModels
    <2>3. CASE server = NoKey
        <3>1. next \in LongestWaiting
            BY <1>0, <1>1, <2>3 DEF WantRotation
        <3>2. ASSUME NEW j \in QueuedOf(k) PROVE waited[j] = 0
            <4>1. PICK f \in Keys : Fresh(f)
                BY <1>0, <2>3 DEF TimeInv, Nothing
            <4>2. CASE f = k
                BY <4>1, <4>2 DEF Fresh
            <4>3. CASE f = next
                <5>1. Waiting(k) /\ k # current /\ Waiting(next)
                    BY <1>0, <2>3, <3>1, <3>2, WaitingIs DEF LongestWaiting
                <5>2. OldestWait(next) = 0
                    BY <1>0, <1>2, <4>1, <4>3, <5>1, OldestIs DEF Fresh
                <5>3. OldestWait(next) >= OldestWait(k)
                    BY <3>1, <5>1 DEF LongestWaiting
                <5>4. waited[j] <= OldestWait(k) /\ waited[j] \in Nat
                      /\ \E i \in QueuedOf(k) : OldestWait(k) = waited[i] /\ waited[i] \in Nat
                    BY <1>0, <3>2, <5>1, OldestIs DEF QueuedOf
                <5>. QED BY <5>2, <5>3, <5>4
            <4>. QED BY <1>2, <1>5, <4>1, <4>2, <4>3 DEF TwoModels
        <3>3. 0 \in Bounds(k)
            BY <3>2 DEF Bounds
        <3>. QED BY <1>0, <1>2, <2>3, <3>3, BoundsStay
    <2>. QED BY <2>1, <2>2, <2>3
<1>. QED BY <1>2, <1>3, <1>4, <1>5 DEF Swapping, most

\* The facts about a swap hold after every step.
LEMMA SwappingStep ==
    ASSUME TwoModels, BoundedTimeouts, IInv, IInv', TimeInv, [Next]_vars
    PROVE  Swapping'
<1>1. Tick \/ Steady
    BY AgesStep DEF TimeInv
<1>2. CASE StartSwap
    <2>1. Steady
        BY <1>1, <1>2 DEF StartSwap, Tick
    <2>. QED BY <1>2, <2>1, SwapStarts
<1>3. CASE ~StartSwap
    <2>. SUFFICES ASSUME swap' # NoSwap, NEW k \in Keys
                  PROVE  IF k = swap'.key
                         THEN InTime + MaxExec + Linger + swap'.for \in Bounds(k)'
                         ELSE swap'.for \in Bounds(k)'
        BY DEF Swapping
    <2>1. swap # NoSwap
        BY <1>3 DEF Next, Submit, Cancel, ClientDies, Answer, Tick, Immediate, PumpSkipped,
            DropAbandoned, PumpDrop, NoSwapNow, Dispatch, PumpEnds, OldStopped, Ready,
            StartFails, vars, NoSwap
    <2>2. /\ server = NoKey /\ swap.for \in Nat /\ NoKey \notin Keys
          /\ swap \in [phase : {"none", "stopping", "starting"},
                       key : Keys \cup {NoKey}, for : 0..MaxSwap]
          /\ {Linger, MaxExec, MaxSwap} \subseteq Nat \ {0} /\ InTime \in Nat
        BY <2>1, TimeTypes, LateIs DEF IInv, Control, TypeOK
    <2>3. IF k = swap.key THEN InTime + MaxExec + Linger + swap.for \in Bounds(k)
                          ELSE swap.for \in Bounds(k)
        BY <2>1 DEF TimeInv, Swapping
    <2>4. CASE Tick
        <3>1. swap'.key = swap.key /\ swap'.for = swap.for + 1
            BY <2>1, <2>2, <2>4 DEF Tick
        <3>2. InTime + MaxExec + Linger + (swap.for + 1)
                = (InTime + MaxExec + Linger + swap.for) + 1
            BY <2>2
        <3>3. \A b \in Bounds(k) : b + 1 \in Bounds(k)'
            BY <2>4, BoundsTick
        <3>. QED BY <2>3, <3>1, <3>2, <3>3
    <2>5. CASE Steady /\ ~Tick
        <3>1. ~Ready /\ ~StartFails
            BY <1>3 DEF Ready, StartFails
        <3>2. CASE OldStopped
            <4>1. swap'.key = swap.key /\ swap'.for = swap.for /\ away' = away
                BY <2>2, <3>2 DEF OldStopped
            <4>. QED BY <2>2, <2>3, <2>5, <4>1, BoundsStay
        <3>3. CASE ~OldStopped
            <4>1. swap' = swap /\ away' = away
                BY <1>3, <2>5, <3>1, <3>3 DEF Next, Submit, Cancel, ClientDies, Answer,
                    Immediate, PumpSkipped, DropAbandoned, PumpDrop, NoSwapNow, Dispatch,
                    PumpEnds, vars
            <4>. QED BY <2>2, <2>3, <2>5, <4>1, BoundsStay
        <3>. QED BY <3>2, <3>3
    <2>. QED BY <1>1, <2>4, <2>5
<1>. QED BY <1>2, <1>3

\* The facts that hold without a model and a swap hold after every step.
LEMMA NothingStep ==
    ASSUME TwoModels, BoundedTimeouts, IInv, IInv', TimeInv, [Next]_vars
    PROVE  Nothing'
<1>. SUFFICES ASSUME server' = NoKey PROVE Nothing'
    BY DEF Nothing
<1>0. /\ NoKey \notin Keys /\ MaxSwap \in Nat /\ QueuesRight /\ Control /\ TypeOK
      /\ QueuesRight' /\ waited \in [Jobs -> 0..WaitCap]
      /\ state \in [Jobs -> {"new", "queued", "running"}]
    BY TimeTypes DEF IInv, TypeOK
<1>1. Tick \/ Steady
    BY AgesStep DEF TimeInv
<1>2. ~Ready
    BY <1>0 DEF Ready, Control, NoSwap
<1>3. Running' = {}
    <2>1. CASE StartSwap
        BY <2>1 DEF StartSwap, Running, jobVars
    <2>2. CASE ~StartSwap
        <3>1. server = NoKey
            BY <1>2, <2>2 DEF Next, Submit, Cancel, ClientDies, Answer, Tick, Immediate,
                PumpSkipped, DropAbandoned, PumpDrop, NoSwapNow, Dispatch, PumpEnds,
                OldStopped, StartFails, vars
        <3>. QED BY <1>0, <3>1, RunningStep DEF TimeInv, Nothing, Dispatch, Control
    <2>. QED BY <2>1, <2>2
<1>4. ASSUME swap' = NoSwap
      PROVE  /\ \A k \in Keys : MaxSwap \in Bounds(k)'
             /\ \E k \in Keys : Fresh(k)'
             /\ pc' = "wait" /\ ~repump' => AllQueued' = {}
    <2>1. ~StartSwap
        BY <1>4 DEF StartSwap, NoSwap
    <2>2. server = NoKey /\ (Tick \/ away' = away)
        BY <1>2, <2>1 DEF Next, Submit, Cancel, ClientDies, Answer, Tick, Immediate,
            PumpSkipped, DropAbandoned, PumpDrop, NoSwapNow, Dispatch, PumpEnds,
            OldStopped, StartFails, vars
    <2>3. CASE swap # NoSwap
        <3>1. PICK s \in Keys : s = swap.key
            BY <1>0, <2>3 DEF Control
        <3>2. OldStopped \/ StartFails
            <4>1. ~Tick
                <5>1. ASSUME Tick PROVE swap'.phase = swap.phase
                    BY <1>0, <2>3, <5>1 DEF Tick, TypeOK
                <5>. QED BY <1>0, <1>4, <2>3, <5>1 DEF Control, NoSwap
            <4>. QED BY <1>2, <1>4, <2>1, <2>3, <4>1 DEF Next, Submit, Cancel, ClientDies,
                     Answer, Immediate, PumpSkipped, DropAbandoned, PumpDrop, NoSwapNow,
                     Dispatch, PumpEnds, vars
        <3>3. repump' /\ QueuedOf(s)' = {} /\ ~Tick
            <4>1. CASE OldStopped
                <5>1. swap.phase = "stopping"
                    BY <4>1 DEF OldStopped
                <5>2. ~Waiting(s) /\ repump' /\ state' = state
                    BY <1>4, <3>1, <4>1, <5>1 DEF OldStopped, NoSwap, jobVars
                <5>. QED BY <1>0, <4>1, <5>2, WaitingIs DEF QueuedOf, OldStopped, Tick
            <4>2. CASE StartFails
                <5>1. repump' /\ Leave(QueuedOf(s))
                    BY <1>0, <3>1, <4>2 DEF StartFails, QueuesRight
                <5>2. \A j \in QueuedOf(s) : state'[j] = "new"
                    BY <5>1 DEF Leave, QueuedOf
                <5>3. \A j \in Jobs \ QueuedOf(s) : state'[j] = state[j]
                    BY <5>1 DEF Leave
                <5>. QED BY <4>2, <5>1, <5>2, <5>3 DEF QueuedOf, StartFails, Tick
            <4>. QED BY <3>2, <4>1, <4>2
        <3>4. ASSUME NEW k \in Keys PROVE MaxSwap \in Bounds(k)'
            <4>1. CASE k = s
                BY <1>0, <3>3, <4>1 DEF Bounds
            <4>2. CASE k # s
                <5>1. swap.for \in Bounds(k) /\ swap.for <= MaxSwap
                    BY <1>0, <2>3, <3>1, <4>2 DEF TimeInv, Swapping, TypeOK
                <5>. QED BY <1>0, <1>1, <2>2, <3>3, <5>1, BoundsGrow, BoundsStay
            <4>. QED BY <4>1, <4>2
        <3>. QED BY <3>1, <3>3, <3>4 DEF Fresh
    <2>4. CASE swap = NoSwap
        <3>0. /\ \A k \in Keys : MaxSwap \in Bounds(k)
              /\ \E k \in Keys : Fresh(k)
              /\ pc = "wait" /\ ~repump => AllQueued = {}
            BY <2>2, <2>4 DEF TimeInv, Nothing
        <3>1. CASE Tick
            <4>1. /\ \A j \in Jobs : state[j] # "queued" /\ state'[j] = state[j]
                  /\ pc' = "drop"
                BY <1>0, <3>0, <3>1, AllQueuedIs DEF Tick
            <4>2. \A k \in Keys : QueuedOf(k)' = {}
                BY <4>1 DEF QueuedOf
            <4>. QED BY <1>0, <3>0, <4>1, <4>2 DEF Bounds, Fresh
        <3>2. CASE Steady /\ ~Tick
            <4>1. \A k \in Keys : MaxSwap \in Bounds(k)'
                BY <1>0, <2>2, <3>0, <3>2, BoundsStay
            <4>2. ASSUME NEW k \in Keys, Fresh(k) PROVE Fresh(k)'
                BY <3>2, <4>2 DEF Fresh, Steady, QueuedOf
            <4>3. ASSUME pc' = "wait", ~repump' PROVE AllQueued' = {}
                <5>1. ASSUME NEW S, Leave(S) PROVE \A j \in Jobs : state'[j] = "queued" => state[j] = "queued"
                    BY <5>1 DEF Leave
                <5>2. CASE NoSwapNow
                    <6>1. LongestWaiting = {}
                        BY <1>0, <2>2, <5>2 DEF NoSwapNow, WantRotation, Control, TimeInv,
                            Nothing, LongestWaiting
                    <6>2. \A k \in Keys : ~Waiting(k)
                        BY <1>0, <2>2, <6>1, NoneWaits DEF Control
                    <6>3. AllQueued = {} /\ UNCHANGED queues
                        BY <1>0, <5>2, <6>2, WaitingIs DEF AllQueued, QueuesRight, NoSwapNow
                    <6>. QED BY <6>3 DEF AllQueued
                <5>3. CASE ~NoSwapNow
                    <6>1. pc = "wait" /\ ~repump
                          /\ \A j \in Jobs : state'[j] = "queued" => state[j] = "queued"
                        <7>1. ~PumpEnds /\ ~PumpSkipped /\ ~OldStopped /\ ~StartFails /\ ~StartSwap
                            BY <1>0, <2>1, <2>2, <2>4
                               DEF PumpEnds, PumpSkipped, OldStopped, StartFails, NoSwap, Control
                        <7>2. \/ \E j \in Jobs : Cancel(j) \/ ClientDies(j)
                              \/ UNCHANGED vars
                            BY <1>0, <1>2, <3>2, <4>3, <5>3, <7>1
                               DEF Next, Submit, Answer, Immediate, DropAbandoned, PumpDrop,
                                   Dispatch
                        <7>3. /\ UNCHANGED <<pc, repump>>
                              /\ UNCHANGED state \/ \E S : Leave(S)
                            BY <7>2 DEF Cancel, ClientDies, LeaveQueue, vars, jobVars
                        <7>4. \A j \in Jobs : state'[j] = "queued" => state[j] = "queued"
                            BY <5>1, <7>3
                        <7>. QED BY <4>3, <7>3, <7>4
                    <6>2. \A j \in Jobs : state'[j] # "queued"
                        BY <1>0, <3>0, <6>1, AllQueuedIs
                    <6>3. AllQueued' = {j \in Jobs : state'[j] = "queued"}
                        BY DEF IInv, TypeOK
                    <6>. QED BY <6>2, <6>3
                <5>. QED BY <5>2, <5>3
            <4>. QED BY <3>0, <4>1, <4>2, <4>3
        <3>. QED BY <1>1, <3>1, <3>2
    <2>. QED BY <2>3, <2>4
<1>. QED BY <1>3, <1>4 DEF Nothing

\* The facts about the time hold at the start.
LEMMA TimeInit == Init /\ IInv /\ TwoModels => TimeInv
<1>. SUFFICES ASSUME Init, IInv, TwoModels PROVE TimeInv
    OBVIOUS
<1>1. server = NoKey /\ swap = NoSwap /\ MaxSwap \in Nat /\ QueuesRight
    BY TimeTypes DEF Init
<1>2. \A j \in Jobs : state[j] = "new" /\ waited[j] = 0 /\ ran[j] = 0
    BY DEF Init
<1>3. Running = {} /\ AllQueued = {}
    BY <1>1, <1>2, AllQueuedIs DEF Running
<1>4. \A k \in Keys : MaxSwap \in Bounds(k) /\ Fresh(k)
    BY <1>1, <1>2 DEF Bounds, Fresh, QueuedOf
<1>. QED BY <1>1, <1>2, <1>3, <1>4 DEF TimeInv, Ages, Loaded, Swapping, Nothing, TwoModels

\* And after every step.
LEMMA TimeStep ==
    ASSUME TwoModels, BoundedTimeouts, IInv, IInv', TimeInv, [Next]_vars
    PROVE  TimeInv'
<1>1. Ages'
    BY AgesStep DEF TimeInv
<1>2. Loaded' /\ Swapping' /\ Nothing'
    BY LoadedStep, SwappingStep, NothingStep
<1>. QED BY <1>1, <1>2 DEF TimeInv

\* What they say of the longest absence.
LEMMA TimeBounds ==
    ASSUME BoundedTimeouts, IInv, TimeInv
    PROVE  WorstCaseWait
<1>0. /\ {Linger, MaxExec, MaxSwap} \subseteq Nat \ {0} /\ ran \in [Jobs -> 0..MaxExec]
      /\ InTime \in Nat /\ InTime >= MaxSwap /\ Late = InTime + 1 /\ Control
    BY TimeTypes, LateIs DEF InTime
<1>. DEFINE limit == Late + MaxExec + Linger + MaxSwap
<1>. SUFFICES ASSUME NEW k \in Keys PROVE Absence(k) < limit
    BY DEF WorstCaseWait
<1>5. limit \in Nat
    BY <1>0
<1>. SUFFICES \E b \in Bounds(k) : b < limit
    <2>. HIDE DEF limit
    <2>1. ASSUME NEW b \in Bounds(k), b < limit PROVE Absence(k) < limit
        <3>1. Absence(k) \in Nat /\ Absence(k) <= b /\ b \in Nat
            BY AbsenceIs DEF Bounds
        <3>. QED BY <1>5, <2>1, <3>1
    <2>. QED BY <2>1
<1>1. CASE server # NoKey /\ Running = {}
    <2>1. InTime + MaxExec + Linger \in Bounds(k)
        BY <1>1 DEF TimeInv, Loaded, Draining
    <2>. QED BY <1>0, <2>1
<1>2. CASE server # NoKey /\ Running # {}
    <2>1. PICK j \in Running : TRUE
        BY <1>2
    <2>2. InTime + ran[j] \in Bounds(k) /\ j \in Jobs
        BY <1>2 DEF TimeInv, Loaded, InFlight, Running
    <2>3. InTime + ran[j] < Late + MaxExec + Linger + MaxSwap
        BY <1>0, <2>2
    <2>. QED BY <2>2, <2>3
<1>3. CASE server = NoKey /\ swap = NoSwap
    <2>1. MaxSwap \in Bounds(k)
        BY <1>3 DEF TimeInv, Nothing
    <2>. QED BY <1>0, <2>1
<1>4. CASE swap # NoSwap
    <2>1. swap.for \in 0..MaxSwap
        BY DEF IInv, TypeOK
    <2>2. CASE k = swap.key
        <3>1. InTime + MaxExec + Linger + swap.for \in Bounds(k)
            BY <1>4, <2>2 DEF TimeInv, Swapping
        <3>. QED BY <1>0, <2>1, <3>1
    <2>3. CASE k # swap.key
        <3>1. swap.for \in Bounds(k)
            BY <1>4, <2>3 DEF TimeInv, Swapping
        <3>. QED BY <1>0, <2>1, <3>1
    <2>. QED BY <2>2, <2>3
<1>. QED BY <1>1, <1>2, <1>3, <1>4

\* "Worst-case queue wait": of two models, one with queued work is loaded
\* within the longest queue timeout (or a load and the minimum run, if these
\* take longer), the draining of what is in flight, the linger and one load.
THEOREM WaitsAreBounded ==
    TwoModels /\ BoundedTimeouts => (Spec => []WorstCaseWait)
<1>. SUFFICES ASSUME TwoModels, BoundedTimeouts PROVE Spec => []WorstCaseWait
    OBVIOUS
<1>1. Init /\ IInv => TimeInv
    BY TimeInit
<1>2. IInv /\ IInv' /\ TimeInv /\ [Next]_vars => TimeInv'
    BY TimeStep
<1>3. IInv /\ TimeInv => WorstCaseWait
    BY TimeBounds
<1>. QED BY <1>1, <1>2, <1>3, Invariance, PTL DEF Spec

\* The wait as the comment of wantRotation states it: "about T + D (+ draining
\* in-flight and one load)".
DocumentedWait == \A k \in Keys : Absence(k) <= LargestTimeout + MinRun + MaxExec + MaxSwap

\* Two models keep it when the linger is no longer than the minimum run, and a
\* load and the linger together no longer than the longest timeout: with
\* DEFAULT_TIMINGS, when a load takes 299 s at most.
THEOREM WaitsAsDocumented ==
    TwoModels /\ BoundedTimeouts /\ Linger <= MinRun /\ MaxSwap + Linger <= LargestTimeout
      => (Spec => []DocumentedWait)
<1>. SUFFICES ASSUME TwoModels, BoundedTimeouts, Linger <= MinRun,
                     MaxSwap + Linger <= LargestTimeout
              PROVE  Spec => []DocumentedWait
    OBVIOUS
<1>1. ASSUME IInv, WorstCaseWait PROVE DocumentedWait
    <2>. SUFFICES ASSUME NEW k \in Keys
                  PROVE  Absence(k) <= LargestTimeout + MinRun + MaxExec + MaxSwap
        BY DEF DocumentedWait
    <2>0. /\ {MinRun, Linger, MaxExec, MaxSwap} \subseteq Nat \ {0}
          /\ LargestTimeout \in Nat /\ Late \in {LargestTimeout, MaxSwap + MinRun}
        BY <1>1, TimeTypes, LateIs
    <2>1. away[k] \in Bounds(k)
        BY <1>1 DEF IInv, TypeOK, Bounds
    <2>2. Absence(k) \in Nat
        BY <1>1, <2>1, AbsenceIs
    <2>3. Absence(k) < Late + MaxExec + Linger + MaxSwap
        BY <1>1 DEF WorstCaseWait
    <2>. QED BY <2>0, <2>2, <2>3
<1>. QED BY <1>1, WaitsAreBounded, Invariance, PTL
=============================================================================
