-------------------------- MODULE BrokerClientProofs --------------------------
(***************************************************************************)
(* Proofs about BrokerClient, for any number of calls, brokers and jobs    *)
(* and whatever is lost: the command never loses sight of a job it was     *)
(* told of, a stop that waited for the submissions leaves no work that its *)
(* report does not name, and no attempt queues a twin of the job it knows. *)
(* The last comes from the order of brokers: memo only grows, so a call    *)
(* never goes back to a broker whose key in pendingByScope it left behind. *)
(***************************************************************************)
EXTENDS BrokerClient, TLAPS, FiniteSetTheorems

(* The invariant *)

\* The call is in brokerExchange.
Busy(c) == at[c] \in {"top", "posting", "accepted", "polling", "reconnect",
                      "cancelling"}

\* Brokers start in the order of their numbers, and memo is one of them.
InOrder ==
    /\ \E n \in 0..MaxBrokers : Started = 1..n
    /\ memo # None => memo \in Started

\* A call is at a broker that was the latest when its attempt began or later.
Known(c) ==
    Busy(c) => /\ loc[c].ep \in Brokers /\ cur(c) \in Brokers
               /\ memo \in Brokers
               /\ loc[c].ep <= cur(c) /\ cur(c) <= memo

\* A job is at a broker no older than the one its key names.
Placed ==
    \A j \in DOMAIN job :
        memo \in Brokers /\ job[j].key <= job[j].on /\ job[j].on <= memo

\* A broker forgets no job that waits.
Flushed == \A j \in DOMAIN job : job[j].kept \/ Over(j)

\* What pendingByScope holds for a call is a job of it, under the job's key.
Keyed(c) ==
    \A b \in Brokers :
        pend[c][b] # None => /\ job[pend[c][b]].call = c
                             /\ job[pend[c][b]].key = b

\* The job a call waits for is its own, at the broker it talks to, and known.
Owned(c) ==
    id(c) # None =>
        /\ job[id(c)].call = c
        /\ job[id(c)].key = loc[c].ep
        /\ job[id(c)].on = cur(c)
        /\ at[c] \in {"top", "polling"} => pend[c][loc[c].ep] = id(c)

\* A call that has yet to submit left nothing under its key.
Vacant(c) ==
    \/ at[c] \in {"posting", "accepted", "reconnect"}
    \/ at[c] = "top" /\ id(c) = None
    => pend[c][loc[c].ep] = None

\* A job in active is the one pendingByScope has under its key.
ActiveKept(c) ==
    \A j \in active : job[j].call = c => pend[c][job[j].key] = j

\* No job of a call is of a later broker than its attempt.
Newest(c) ==
    Busy(c) => \A j \in DOMAIN job : job[j].call = c => job[j].key <= loc[c].ep

Tried(c) == ~Ended(c) => tries[c] <= MaxRetries

HasJob(c) == at[c] \in {"accepted", "polling", "cancelling"}
             <=> id(c) # None /\ at[c] # "top"

CallInv(c) == /\ HasJob(c) /\ Tried(c) /\ Known(c) /\ Keyed(c) /\ Owned(c)
              /\ Vacant(c) /\ ActiveKept(c) /\ Newest(c)

-----------------------------------------------------------------------------
(* What a step changes of the calls *)

Where == {"idle", "top", "posting", "accepted", "polling", "reconnect",
          "cancelling", "ok", "failed", "stopped"}

Locals == [ep : Brokers \cup {None}, cur : Brokers \cup {None},
           id : DOMAIN job \cup {None},
           resubmits : 0..MaxResubmits, requeues : 0..MaxRequeues]

CallTypes ==
    /\ at \in [Calls -> Where]
    /\ tries \in [Calls -> 0..(MaxRetries + 1)]
    /\ loc \in [Calls -> Locals]
    /\ pend \in [Calls -> [Brokers -> DOMAIN job \cup {None}]]

\* The rest of TypeOK, but for the jobs.
CommandTypes ==
    /\ memo \in Brokers \cup {None}
    /\ active \subseteq DOMAIN job /\ todo \subseteq DOMAIN job
    /\ stop \in {"no", "drain", "delete", "own", "over"}
    /\ awaited \subseteq Calls
    /\ failed \subseteq DOMAIN job /\ dropped \subseteq DOMAIN job
    /\ rushed \in BOOLEAN
    /\ broker \in [Brokers -> {"none", "up", "draining", "exiting", "leaving",
                               "gone"}]
    /\ losses \in 0..MaxLosses

JobTypes == job \in Seq(Job) /\ Len(job) <= MaxJobs

\* TypeOK is its parts.
LEMMA TypeOKParts ==
    TypeOK <=> /\ CallTypes /\ CommandTypes /\ JobTypes
               /\ \A c \in Calls : HasJob(c)
BY DEF TypeOK, CallTypes, CommandTypes, JobTypes, HasJob, Where, Locals

\* No other call is touched.
OnlyCall(c) ==
    \A d \in Calls \ {c} : /\ at'[d] = at[d] /\ tries'[d] = tries[d]
                           /\ loc'[d] = loc[d] /\ pend'[d] = pend[d]

\* Nor is c left with data of another type.
Moves(c) ==
    /\ OnlyCall(c)
    /\ at' \in [Calls -> Where] /\ tries' \in [Calls -> 0..(MaxRetries + 1)]
    /\ loc' \in [Calls -> Locals]
    /\ pend' \in [Calls -> [Brokers -> DOMAIN job \cup {None}]]

\* The jobs are a sequence of numbered records.
LEMMA JobsAreNumbered ==
    ASSUME JobTypes
    PROVE  /\ DOMAIN job = 1..Len(job) /\ Len(job) \in Nat
           /\ DOMAIN job \subseteq Jobs /\ None \notin DOMAIN job
           /\ job \in [DOMAIN job -> Job]
BY ClientAssumption DEF JobTypes, Jobs

\* A step that rewrites records leaves a sequence of them.
LEMMA JobsAreEdited ==
    ASSUME JobTypes, job' \in [DOMAIN job -> Job]
    PROVE  JobTypes' /\ Len(job') = Len(job) /\ DOMAIN job' = DOMAIN job
<1>1. DOMAIN job = 1..Len(job) /\ Len(job) \in Nat
    BY JobsAreNumbered
<1>. QED BY <1>1 DEF JobTypes

\* NoLocals is typed.
LEMMA NoLocalsTyped == NoLocals \in Locals
BY ClientAssumption DEF NoLocals, Locals, MaxResubmits

\* The end of a call or of an attempt.
LEMMA EndsMoves ==
    ASSUME CallTypes, NEW c \in Calls, NEW how \in Where, Ends(c, how),
           UNCHANGED <<tries, pend>>
    PROVE  Moves(c) /\ at'[c] = how /\ loc'[c] = NoLocals
BY NoLocalsTyped DEF CallTypes, Ends, GoTo, Set, Moves, OnlyCall

\* Another attempt, or the end.
LEMMA TryAgainMoves ==
    ASSUME CallTypes, NEW c \in Calls, ~Ended(c), Tried(c), TryAgain(c),
           pend' \in [Calls -> [Brokers -> DOMAIN job \cup {None}]],
           \A d \in Calls \ {c} : pend'[d] = pend[d]
    PROVE  /\ Moves(c) /\ at'[c] \in {"idle", "failed"} /\ loc'[c] = NoLocals
           /\ Tried(c)'
<1>. USE DEF CallTypes
<1>1. MaxRetries \in Nat /\ tries[c] \in Int /\ tries[c] >= 0 /\ tries[c] <= MaxRetries
    BY ClientAssumption DEF Tried
<1>2. tries' = [tries EXCEPT ![c] = tries[c] + 1]
    BY DEF TryAgain, Set
<1>3. tries' \in [Calls -> 0..(MaxRetries + 1)]
    BY <1>1, <1>2
<1>4. PICK how \in {"idle", "failed"} :
          /\ at' = [at EXCEPT ![c] = how] /\ loc' = [loc EXCEPT ![c] = NoLocals]
          /\ how = "idle" => tries[c] < MaxRetries
    BY DEF TryAgain, Ends, GoTo, Set
<1>5. at' \in [Calls -> Where] /\ loc' \in [Calls -> Locals]
    BY <1>4, NoLocalsTyped DEF Where
<1>. QED BY <1>1, <1>2, <1>3, <1>4, <1>5 DEF Moves, OnlyCall, Ended, Tried

\* A step of the call within its attempt.
LEMMA GoToMoves ==
    ASSUME CallTypes, NEW c \in Calls, NEW where \in Where, GoTo(c, where),
           UNCHANGED <<tries, loc, pend>>
    PROVE  Moves(c) /\ at'[c] = where /\ loc'[c] = loc[c]
BY DEF CallTypes, GoTo, Moves, OnlyCall

\* Forgetting the job empties one place of pendingByScope.
LEMMA ForgetMoves ==
    ASSUME CallTypes, NEW c \in Calls, loc[c].ep \in Brokers, Forget(c)
    PROVE  /\ pend' \in [Calls -> [Brokers -> DOMAIN job \cup {None}]]
           /\ \A d \in Calls \ {c} : pend'[d] = pend[d]
           /\ pend'[c][loc[c].ep] = None
           /\ \A b \in Brokers \ {loc[c].ep} : pend'[c][b] = pend[c][b]
BY DEF CallTypes, Forget

ClientInv == /\ CallTypes /\ CommandTypes /\ JobTypes
             /\ InOrder /\ Placed /\ Flushed
             /\ \A c \in Calls : CallInv(c)

-----------------------------------------------------------------------------
(* What a step changes of the jobs and the brokers *)

\* Jobs keep their place, and the command its view.
JobsGrow ==
    /\ JobTypes' /\ DOMAIN job \subseteq DOMAIN job'
    /\ \A j \in DOMAIN job : /\ job'[j].on = job[j].on
                             /\ job'[j].key = job[j].key
                             /\ job'[j].call = job[j].call

MemoGrows == memo \in Brokers => memo' \in Brokers /\ memo <= memo'

\* The calls that take no step keep their part of the invariant.
LEMMA OthersKeep ==
    ASSUME CallTypes, JobTypes, NEW c \in Calls, OnlyCall(c), JobsGrow, MemoGrows,
           active \subseteq DOMAIN job, 
           \A j \in DOMAIN job' \ DOMAIN job : job'[j].call = c,
           \A j \in active' : j \in active \/ job'[j].call = c,
           NEW d \in Calls \ {c}, CallInv(d)
    PROVE  CallInv(d)'
<1>1. /\ at'[d] = at[d] /\ tries'[d] = tries[d] /\ loc'[d] = loc[d]
      /\ pend'[d] = pend[d] /\ loc[d] \in Locals
      /\ \A b \in Brokers : pend[d][b] \in DOMAIN job \cup {None}
    BY DEF Moves, OnlyCall, CallTypes
<1>2. id(d)' = id(d) /\ cur(d)' = cur(d) /\ id(d) \in DOMAIN job \cup {None}
      /\ (Busy(d)' <=> Busy(d)) /\ (Ended(d)' <=> Ended(d))
    BY <1>1 DEF id, cur, Locals, Busy, Ended
<1>3. HasJob(d)' /\ Tried(d)'
    BY <1>1, <1>2 DEF CallInv, HasJob, Tried
<1>4. Known(d)'
    BY <1>1, <1>2 DEF CallInv, Known, MemoGrows, Brokers
<1>5. Keyed(d)'
    BY <1>1 DEF CallInv, Keyed, JobsGrow
<1>6. Owned(d)'
    BY <1>1, <1>2 DEF CallInv, Owned, JobsGrow
<1>7. Vacant(d)'
    BY <1>1, <1>2 DEF CallInv, Vacant
<1>8. ActiveKept(d)'
    BY <1>1 DEF CallInv, ActiveKept, JobsGrow
<1>9. Newest(d)'
    BY <1>1, <1>2 DEF CallInv, Newest, JobsGrow
<1>. QED BY <1>3, <1>4, <1>5, <1>6, <1>7, <1>8, <1>9 DEF CallInv

\* ensureBroker returns the latest broker, or starts the next.
LEMMA EnsuredIsLatest ==
    ASSUME CommandTypes, InOrder, NEW b \in Brokers, NEW fresh \in BOOLEAN,
           Ensured(b, fresh)
    PROVE  /\ memo' = b /\ InOrder' /\ MemoGrows
           /\ broker' \in [Brokers -> {"none", "up", "draining", "exiting",
                                       "leaving", "gone"}]
           /\ \A a \in Started : broker'[a] = broker[a]
<1>1. PICK n \in 0..MaxBrokers : Started = 1..n
    BY DEF InOrder
<1>2. Latest = n
    BY <1>1, FS_Interval DEF Latest
<1>3. MaxBrokers \in Nat
    BY ClientAssumption
<1>4. CASE ~fresh /\ memo # None /\ Alive(memo)
    <2>1. b = memo /\ UNCHANGED <<memo, broker>>
        BY <1>4 DEF Ensured
    <2>. QED BY <2>1 DEF InOrder, MemoGrows, CommandTypes, Brokers, Started
<1>5. CASE ~(~fresh /\ memo # None /\ Alive(memo)) /\ Usable # {}
    <2>1. b \in Usable /\ UNCHANGED broker /\ memo' = b
        BY <1>5 DEF Ensured
    <2>2. b = n /\ b \in Started
        BY <2>1, <1>2 DEF Usable, Started
    <2>3. memo # None => memo \in Started
        BY DEF InOrder
    <2>4. Started' = Started
        BY <2>1 DEF Started
    <2>5. MemoGrows
        BY <2>1, <2>2, <2>3, <1>1, <1>3, ClientAssumption DEF MemoGrows, Brokers
    <2>. QED BY <2>1, <2>2, <2>4, <2>5 DEF InOrder, CommandTypes
<1>6. CASE ~(~fresh /\ memo # None /\ Alive(memo)) /\ Usable = {}
    <2>1. b = n + 1 /\ broker' = [broker EXCEPT ![b] = "up"] /\ memo' = b
        BY <1>6, <1>2 DEF Ensured, Set
    <2>2. broker' \in [Brokers -> {"none", "up", "draining", "exiting",
                                   "leaving", "gone"}]
        BY <2>1 DEF CommandTypes
    <2>3. \A a \in Brokers : broker'[a] = IF a = b THEN "up" ELSE broker[a]
        BY <2>1 DEF CommandTypes
    <2>4. Started' = Started \cup {b}
        BY <2>3 DEF Started
    <2>5. Started' = 1..(n + 1) /\ n + 1 \in 0..MaxBrokers
        BY <2>4, <2>1, <1>1, <1>3 DEF Brokers
    <2>6. MemoGrows
        BY <1>1, <2>1, <1>3, ClientAssumption DEF InOrder, MemoGrows, Brokers
    <2>. QED BY <2>1, <2>2, <2>3, <2>5, <2>6, <1>1, <1>3 DEF InOrder
<1>. QED BY <1>4, <1>5, <1>6

\* A step of call c preserves the invariant once c itself keeps its part.
LEMMA OneKeepsAll ==
    ASSUME ClientInv, NEW c \in Calls, Moves(c), JobsGrow, MemoGrows,
           \A j \in DOMAIN job' \ DOMAIN job : job'[j].call = c,
           \A j \in active' : j \in active \/ job'[j].call = c,
           CommandTypes', InOrder', Placed', Flushed', CallInv(c)'
    PROVE  ClientInv'
<1>1. \A d \in Calls \ {c} : CallInv(d)'
    BY OthersKeep DEF ClientInv, CommandTypes, Moves
<1>2. CallTypes'
    <2>1. DOMAIN job \subseteq DOMAIN job'
        BY DEF JobsGrow
    <2>2. loc' \in [Calls -> Locals']
        BY <2>1 DEF Moves, Locals
    <2>3. pend' \in [Calls -> [Brokers -> DOMAIN job' \cup {None}]]
        BY <2>1 DEF Moves
    <2>. QED BY <2>2, <2>3 DEF Moves, CallTypes
<1>3. \A d \in Calls : CallInv(d)'
    BY <1>1
<1>. QED BY <1>2, <1>3 DEF ClientInv, JobsGrow

\* The same, where the step leaves the jobs, memo and the brokers alone.
LEMMA OneKeepsAllInPlace ==
    ASSUME ClientInv, NEW c \in Calls, Moves(c), UNCHANGED <<job, memo, broker>>,
           active' \subseteq active, CommandTypes', CallInv(c)'
    PROVE  ClientInv'
<1>1. JobsGrow /\ MemoGrows
    BY DEF ClientInv, JobsGrow, JobTypes, MemoGrows, Brokers
<1>2. InOrder' /\ Placed' /\ Flushed'
    BY DEF ClientInv, InOrder, Placed, Flushed, Started, Over
<1>. QED BY <1>1, <1>2, OneKeepsAll

\* Connecting: the memory of the command is the job's of the latest broker.
LEMMA StartKeeps ==
    ASSUME ClientInv, NEW c \in Calls, Start(c)
    PROVE  ClientInv'
<1>. USE DEF ClientInv
<1>1. /\ at[c] = "idle" /\ at' = [at EXCEPT ![c] = "top"]
      /\ UNCHANGED <<tries, pend, commandVars, job, losses>>
    BY DEF Start, GoTo
<1>2. PICK b \in Brokers :
          /\ Ensured(b, FALSE)
          /\ loc' = [loc EXCEPT ![c].ep = b, ![c].cur = b, ![c].id = pend[c][b]]
    BY DEF Start
<1>3. /\ memo' = b /\ InOrder' /\ MemoGrows
      /\ broker' \in [Brokers -> {"none", "up", "draining", "exiting",
                                  "leaving", "gone"}]
    BY <1>2, EnsuredIsLatest
<1>4. pend[c] \in [Brokers -> DOMAIN job \cup {None}] /\ loc[c] \in Locals
      /\ DOMAIN job \subseteq Jobs /\ None \notin DOMAIN job
    BY JobsAreNumbered DEF CallTypes
<1>5. /\ loc'[c] = [loc[c] EXCEPT !.ep = b, !.cur = b, !.id = pend[c][b]]
      /\ loc'[c] \in Locals
    BY <1>2, <1>4 DEF CallTypes, Locals
<1>6. Moves(c) /\ at'[c] = "top"
    BY <1>1, <1>2, <1>5 DEF Moves, OnlyCall, CallTypes, Where
<1>7. JobsGrow
    BY <1>1 DEF JobsGrow, JobTypes
<1>8. \A j \in DOMAIN job : memo \in Brokers /\ job[j].on <= memo /\ job[j].key <= job[j].on
                            /\ job[j] \in Job
    BY JobsAreNumbered DEF Placed
<1>9. Placed' /\ \A j \in DOMAIN job : job[j].on <= b
    BY <1>1, <1>3, <1>8 DEF Placed, MemoGrows, Brokers, Job
<1>10. CommandTypes' /\ Flushed'
    BY <1>1, <1>3 DEF CommandTypes, commandVars, stopVars, Flushed, Over
<1>11. CallInv(c)'
    <2>1. /\ loc'[c].ep = b /\ cur(c)' = b /\ id(c)' = pend[c][b]
          /\ pend'[c] = pend[c] /\ job' = job /\ active' = active
        BY <1>1, <1>5, <1>4 DEF cur, id, Locals, commandVars
    <2>2. HasJob(c)' /\ Tried(c)'
        BY <1>1, <1>6, <2>1, <1>4 DEF HasJob, Tried, CallInv, Ended
    <2>3. Known(c)'
        BY <2>1, <1>3 DEF Known, Brokers
    <2>4. Keyed(c)' /\ ActiveKept(c)'
        BY <2>1 DEF CallInv, Keyed, ActiveKept
    <2>5. Owned(c)'
        <3>1. SUFFICES ASSUME pend[c][b] # None
                       PROVE  /\ job[pend[c][b]].call = c /\ job[pend[c][b]].key = b
                              /\ job[pend[c][b]].on = b
            BY <2>1 DEF Owned
        <3>2. job[pend[c][b]].call = c /\ job[pend[c][b]].key = b
            BY <3>1 DEF CallInv, Keyed
        <3>3. pend[c][b] \in DOMAIN job
            BY <3>1, <1>4
        <3>. QED BY <3>2, <3>3, <1>8, <1>9 DEF Brokers, Job
    <2>6. Vacant(c)'
        BY <2>1, <1>6 DEF Vacant
    <2>7. Newest(c)'
        BY <2>1, <1>8, <1>9 DEF Newest, Brokers, Job
    <2>. QED BY <2>2, <2>3, <2>4, <2>5, <2>6, <2>7 DEF CallInv
<1>. QED BY <1>1, <1>3, <1>6, <1>7, <1>9, <1>10, <1>11, OneKeepsAll DEF commandVars

\* An attempt that ends: the call has no job, and no broker.
LEMMA EndedKeeps ==
    ASSUME ClientInv, NEW c \in Calls, pend' \in [Calls -> [Brokers -> DOMAIN job \cup {None}]],
           at'[c] \in {"idle", "ok", "failed", "stopped"}, loc'[c] = NoLocals,
           Tried(c)', DOMAIN job' = DOMAIN job, JobsGrow,
           \A b \in Brokers : pend'[c][b] \in {pend[c][b], None},
           \A j \in active' : /\ j \in active
                              /\ job[j].call = c => pend'[c][job[j].key] = pend[c][job[j].key]
    PROVE  CallInv(c)'
<1>1. id(c)' = None
    BY DEF id, NoLocals
<1>2. \A b \in Brokers : pend[c][b] \in DOMAIN job \cup {None}
    BY DEF ClientInv, CallTypes
<1>3. active \subseteq DOMAIN job
    BY DEF ClientInv, CommandTypes
<1>4. HasJob(c)' /\ Known(c)' /\ Owned(c)' /\ Vacant(c)' /\ Newest(c)'
    BY <1>1 DEF HasJob, Known, Owned, Vacant, Newest, Busy
<1>5. Keyed(c)'
    BY <1>2 DEF Keyed, ClientInv, CallInv, JobsGrow
<1>6. ActiveKept(c)'
    BY <1>3 DEF ActiveKept, ClientInv, CallInv, JobsGrow
<1>. QED BY <1>4, <1>5, <1>6 DEF CallInv

\* An attempt that ends without forgetting its job.
LEMMA TryAgainKeeps ==
    ASSUME ClientInv, NEW c \in Calls, ~Ended(c), TryAgain(c), UNCHANGED pend,
           active' = active, DOMAIN job' = DOMAIN job, JobsGrow
    PROVE  Moves(c) /\ CallInv(c)'
<1>1. CallTypes /\ Tried(c)
    BY DEF ClientInv, CallInv
<1>2. Moves(c) /\ at'[c] \in {"idle", "failed"} /\ loc'[c] = NoLocals /\ Tried(c)'
    BY <1>1, TryAgainMoves DEF CallTypes
<1>3. pend' \in [Calls -> [Brokers -> DOMAIN job \cup {None}]]
    BY <1>2 DEF Moves, OnlyCall
<1>. QED BY <1>2, <1>3, EndedKeeps

\* What forgetting means for the call, which knew the job it had.
LEMMA ForgetKeeps ==
    ASSUME ClientInv, NEW c \in Calls, at[c] \in {"top", "polling"},
           id(c) # None, Forget(c), DOMAIN job' = DOMAIN job, JobsGrow
    PROVE  /\ pend' \in [Calls -> [Brokers -> DOMAIN job \cup {None}]]
           /\ \A d \in Calls \ {c} : pend'[d] = pend[d]
           /\ pend'[c][loc[c].ep] = None
           /\ \A b \in Brokers : pend'[c][b] \in {pend[c][b], None}
           /\ \A j \in active' : j \in active /\ (job[j].call = c => pend'[c][job[j].key] = pend[c][job[j].key])
           /\ Keyed(c)' /\ ActiveKept(c)'
           /\ active' \subseteq active
           /\ id(c) \in DOMAIN job
<1>1. CallTypes /\ CallInv(c) /\ Busy(c) /\ active \subseteq DOMAIN job
    BY DEF ClientInv, Busy, CommandTypes
<1>2. loc[c].ep \in Brokers
    BY <1>1 DEF CallInv, Known
<1>3. /\ pend' \in [Calls -> [Brokers -> DOMAIN job \cup {None}]]
      /\ \A d \in Calls \ {c} : pend'[d] = pend[d]
      /\ pend'[c][loc[c].ep] = None
      /\ \A b \in Brokers \ {loc[c].ep} : pend'[c][b] = pend[c][b]
    BY <1>1, <1>2, ForgetMoves
<1>4. active' = active \ {id(c)}
    BY DEF Forget
<1>5. pend[c][loc[c].ep] = id(c)
    BY <1>1 DEF CallInv, Owned
<1>6. \A j \in active' : j \in active /\ (job[j].call = c => pend'[c][job[j].key] = pend[c][job[j].key])
    <2>1. SUFFICES ASSUME NEW j \in active', job[j].call = c
                   PROVE  j \in active /\ pend'[c][job[j].key] = pend[c][job[j].key]
        BY <1>4
    <2>2. j \in active /\ j # id(c) /\ pend[c][job[j].key] = j
        BY <2>1, <1>1, <1>4 DEF CallInv, ActiveKept
    <2>3. job[j].key # loc[c].ep
        BY <2>2, <1>5
    <2>4. job[j].key \in Brokers
        BY <2>2, <1>1, JobsAreNumbered DEF ClientInv, Job
    <2>. QED BY <2>2, <2>3, <2>4, <1>3
<1>7. Keyed(c)'
    BY <1>1, <1>3 DEF CallInv, Keyed, CallTypes, JobsGrow
<1>8. ActiveKept(c)'
    BY <1>1, <1>4, <1>6 DEF CallInv, ActiveKept, JobsGrow
<1>9. id(c) \in DOMAIN job
    BY <1>1 DEF id, CallTypes, Locals
<1>. QED BY <1>1, <1>3, <1>4, <1>6, <1>7, <1>8, <1>9

\* The steps that leave the jobs and the brokers as they are.
LEMMA WaitingStepsKeep ==
    ASSUME ClientInv, NEW c \in Calls,
           StartStopped(c) \/ Top(c) \/ Refuse(c) \/ Lost(c) \/ StillWaiting(c) \/ NoBroker(c)
    PROVE  ClientInv'
<1>. USE DEF ClientInv
<1>0. CallInv(c) /\ CallTypes /\ active' \subseteq active /\ UNCHANGED <<job, memo, broker>>
      /\ UNCHANGED <<pend, active>>
    BY DEF StartStopped, Top, Refuse, Lost, StillWaiting, NoBroker, commandVars
<1>1. JobsGrow /\ DOMAIN job' = DOMAIN job
    BY <1>0 DEF JobsGrow, JobTypes
<1>2. CommandTypes'
    <2>1. losses' \in 0..MaxLosses
        BY ClientAssumption DEF StartStopped, Top, Refuse, Lost, StillWaiting, NoBroker, MayLose, CommandTypes
    <2>2. UNCHANGED <<memo, broker, job, active, stop, todo, awaited, failed, rushed, dropped>>
        BY DEF StartStopped, Top, Refuse, Lost, StillWaiting, NoBroker, commandVars, stopVars
    <2>. QED BY <2>1, <2>2 DEF CommandTypes
<1>3. Moves(c) /\ CallInv(c)'
    <2>1. CASE StartStopped(c)
        <3>1. /\ GoTo(c, "stopped") /\ UNCHANGED <<tries, loc, pend>> /\ at[c] = "idle"
            BY <2>1 DEF StartStopped
        <3>2. Moves(c) /\ at'[c] = "stopped" /\ loc'[c] = loc[c]
            BY <3>1, <1>0, GoToMoves DEF Where
        <3>. QED BY <3>1, <3>2, <1>0 DEF CallInv, HasJob, Tried, Known, Keyed, Owned, Vacant, ActiveKept, Newest, id, cur, Busy, Ended
    <2>2. CASE Top(c)
        <3>1. /\ GoTo(c, IF id(c) = None THEN "posting" ELSE "polling")
              /\ UNCHANGED <<tries, loc, pend>> /\ at[c] = "top"
            BY <2>2 DEF Top
        <3>2. Moves(c) /\ at'[c] = (IF id(c) = None THEN "posting" ELSE "polling") /\ loc'[c] = loc[c]
            BY <3>1, <1>0, GoToMoves DEF Where
        <3>. QED BY <3>1, <3>2, <1>0 DEF CallInv, HasJob, Tried, Known, Keyed, Owned, Vacant, ActiveKept, Newest, id, cur, Busy, Ended
    <2>3. CASE StillWaiting(c)
        <3>1. GoTo(c, "top") /\ UNCHANGED <<tries, loc, pend>> /\ at[c] = "polling"
            BY <2>3 DEF StillWaiting
        <3>2. Moves(c) /\ at'[c] = "top" /\ loc'[c] = loc[c]
            BY <3>1, <1>0, GoToMoves DEF Where
        <3>. QED BY <3>1, <3>2, <1>0 DEF CallInv, HasJob, Tried, Known, Keyed, Owned, Vacant, ActiveKept, Newest, id, cur, Busy, Ended
    <2>4. CASE Refuse(c) \/ Lost(c) \/ NoBroker(c)
        <3>1. TryAgain(c) /\ ~Ended(c)
            BY <2>4 DEF Refuse, Lost, NoBroker, Ended
        <3>. QED BY <3>1, <1>0, <1>1, TryAgainKeeps
    <2>. QED BY <2>1, <2>2, <2>3, <2>4
<1>. QED BY <1>0, <1>2, <1>3, OneKeepsAllInPlace

\* Records that are rewritten keep their broker, their key and their call.
LEMMA EditsKeep ==
    ASSUME ClientInv, job' \in [DOMAIN job -> Job], memo' = memo,
           \A j \in DOMAIN job : /\ job'[j].on = job[j].on
                                 /\ job'[j].key = job[j].key
                                 /\ job'[j].call = job[j].call
                                 /\ job'[j].kept \/ Over(j)'
    PROVE  JobsGrow /\ DOMAIN job' = DOMAIN job /\ Placed' /\ Flushed'
<1>1. JobTypes' /\ DOMAIN job' = DOMAIN job
    BY JobsAreEdited DEF ClientInv
<1>. QED BY <1>1 DEF JobsGrow, Placed, Flushed, ClientInv

\* A reply that was flushed: the broker forgets a job that is over.
LEMMA FlushKeeps ==
    ASSUME ClientInv, NEW k \in DOMAIN job, Over(k), memo' = memo,
           job' = [job EXCEPT ![k].kept = FALSE]
    PROVE  JobsGrow /\ DOMAIN job' = DOMAIN job /\ Placed' /\ Flushed'
<1>1. job \in [DOMAIN job -> Job]
    BY JobsAreNumbered DEF ClientInv
<1>2. job' \in [DOMAIN job -> Job]
    BY <1>1 DEF Job
<1>3. \A j \in DOMAIN job : /\ job'[j].on = job[j].on /\ job'[j].key = job[j].key
                            /\ job'[j].call = job[j].call /\ job'[j].state = job[j].state
                            /\ j # k => job'[j].kept = job[j].kept
    BY <1>1 DEF Job
<1>4. \A j \in DOMAIN job : job'[j].kept \/ Over(j)'
    BY <1>3 DEF Over, ClientInv, Flushed
<1>. QED BY <1>2, <1>3, <1>4, EditsKeep

\* A broker ends a job, or a job changes from held to open.
LEMMA StateKeeps ==
    ASSUME ClientInv, NEW k \in DOMAIN job, memo' = memo,
           NEW x \in {"open", "held", "done", "failed", "cancelled", "requeued"},
           job' = [job EXCEPT ![k].state = x], Waiting(k)
    PROVE  JobsGrow /\ DOMAIN job' = DOMAIN job /\ Placed' /\ Flushed'
<1>1. job \in [DOMAIN job -> Job]
    BY JobsAreNumbered DEF ClientInv
<1>2. job' \in [DOMAIN job -> Job]
    BY <1>1 DEF Job
<1>3. \A j \in DOMAIN job : /\ job'[j].on = job[j].on /\ job'[j].key = job[j].key
                            /\ job'[j].call = job[j].call /\ job'[j].kept = job[j].kept
                            /\ j # k => job'[j].state = job[j].state
    BY <1>1 DEF Job
<1>4. \A j \in DOMAIN job : job'[j].kept \/ Over(j)'
    BY <1>3 DEF Over, Waiting, ClientInv, Flushed
<1>. QED BY <1>2, <1>3, <1>4, EditsKeep

\* A DELETE, which cancels a job that waits.
LEMMA CancelKeeps ==
    ASSUME ClientInv, NEW k \in DOMAIN job, memo' = memo, job' = Cancelled(k)
    PROVE  JobsGrow /\ DOMAIN job' = DOMAIN job /\ Placed' /\ Flushed'
<1>1. CASE Waiting(k)
    BY <1>1, StateKeeps DEF Cancelled
<1>2. CASE ~Waiting(k)
    BY <1>2 DEF Cancelled, JobsGrow, JobTypes, ClientInv, Placed, Flushed, Over
<1>. QED BY <1>1, <1>2

\* A call that is stopped at the top of the loop.
LEMMA TopStoppedKeeps ==
    ASSUME ClientInv, NEW c \in Calls, TopStopped(c)
    PROVE  ClientInv'
<1>0. /\ CallInv(c) /\ CallTypes /\ CommandTypes /\ at[c] = "top"
      /\ UNCHANGED <<tries, stop, todo, awaited, failed, rushed, dropped, memo,
                     broker, job, losses>>
    BY DEF ClientInv, TopStopped, stopVars
<1>1. JobsGrow /\ DOMAIN job' = DOMAIN job
    BY <1>0 DEF JobsGrow, JobTypes, ClientInv
<1>2. CASE id(c) = None
    <2>1. Ends(c, "stopped") /\ UNCHANGED <<pend, active, tries>>
        BY <1>0, <1>2 DEF TopStopped
    <2>2. Moves(c) /\ at'[c] = "stopped" /\ loc'[c] = NoLocals
        BY <2>1, <1>0, EndsMoves DEF Where
    <2>3. Tried(c)' /\ CommandTypes' /\ pend' \in [Calls -> [Brokers -> DOMAIN job \cup {None}]]
        BY <2>1, <2>2, <1>0 DEF Tried, Ended, CommandTypes, CallTypes
    <2>4. CallInv(c)'
        BY <2>1, <2>2, <2>3, <1>1, EndedKeeps
    <2>. QED BY <2>1, <2>2, <2>3, <2>4, <1>0, OneKeepsAllInPlace
<1>3. CASE id(c) # None
    <2>1. GoTo(c, "cancelling") /\ Forget(c) /\ UNCHANGED <<loc, tries>>
        BY <1>0, <1>3 DEF TopStopped
    <2>2. /\ pend' \in [Calls -> [Brokers -> DOMAIN job \cup {None}]]
          /\ \A d \in Calls \ {c} : pend'[d] = pend[d]
          /\ Keyed(c)' /\ ActiveKept(c)' /\ active' \subseteq active
        BY <2>1, <1>0, <1>1, <1>3, ForgetKeeps
    <2>3. Moves(c) /\ at'[c] = "cancelling"
        BY <2>1, <2>2, <1>0 DEF Moves, OnlyCall, CallTypes, GoTo, Where
    <2>4. CommandTypes'
        BY <2>2, <1>0 DEF CommandTypes
    <2>5. CallInv(c)'
        BY <2>1, <2>2, <2>3, <1>0, <1>3 DEF CallInv, HasJob, Tried, Known, Owned, Vacant, Newest, id, cur, Busy, Ended
    <2>. QED BY <2>2, <2>3, <2>4, <2>5, <1>0, OneKeepsAllInPlace
<1>. QED BY <1>2, <1>3

\* A submission that is accepted queues a job of the call's broker, which
\* nobody was told of.
LEMMA AcceptAppends ==
    ASSUME ClientInv, NEW c \in Calls, Accept(c)
    PROVE  \E r \in Job :
              /\ job' = Append(job, r)
              /\ r.on = cur(c) /\ r.key = loc[c].ep /\ r.call = c /\ r.kept /\ ~r.told
<1>1. loc[c].ep \in Brokers /\ cur(c) \in Brokers
    BY DEF ClientInv, CallInv, Known, Busy, Accept
<1>2. PICK s \in {"open", "held"} :
          job' = Append(job, [on |-> cur(c), key |-> loc[c].ep, call |-> c,
                              state |-> s, told |-> FALSE, kept |-> TRUE])
    BY DEF Accept
<1>3. PICK r : r = [on |-> cur(c), key |-> loc[c].ep, call |-> c,
                    state |-> s, told |-> FALSE, kept |-> TRUE]
    OBVIOUS
<1>4. r \in Job
    BY <1>1, <1>3 DEF Job
<1>. QED BY <1>2, <1>3, <1>4

\* That submission keeps the invariant.
LEMMA AcceptKeeps ==
    ASSUME ClientInv, NEW c \in Calls, Accept(c)
    PROVE  ClientInv'
<1>0. /\ CallInv(c) /\ CallTypes /\ CommandTypes /\ JobTypes /\ Placed /\ Flushed
      /\ at[c] = "posting" /\ Len(job) < MaxJobs /\ GoTo(c, "accepted")
      /\ UNCHANGED <<tries, pend, active, stop, todo, awaited, failed, rushed,
                     dropped, memo, broker, losses>>
    BY DEF ClientInv, Accept, commandVars, stopVars
<1>1. /\ loc[c].ep \in Brokers /\ cur(c) \in Brokers /\ memo \in Brokers
      /\ loc[c].ep <= cur(c) /\ cur(c) <= memo
    BY <1>0 DEF CallInv, Known, Busy
<1>2. /\ DOMAIN job = 1..Len(job) /\ Len(job) \in Nat
      /\ None \notin Jobs /\ MaxJobs \in Nat
    BY <1>0, JobsAreNumbered, ClientAssumption
<1>3. PICK r \in Job :
          /\ job' = Append(job, r)
          /\ r.on = cur(c) /\ r.key = loc[c].ep /\ r.call = c /\ r.kept /\ ~r.told
    BY AcceptAppends
<1>4. /\ JobTypes' /\ Len(job') = Len(job) + 1 /\ DOMAIN job' = 1..(Len(job) + 1)
      /\ job'[Len(job) + 1] = r /\ \A j \in DOMAIN job : job'[j] = job[j]
    BY <1>0, <1>2, <1>3 DEF JobTypes
<1>5. loc' = [loc EXCEPT ![c].id = Len(job) + 1]
    BY <1>4 DEF Accept
<1>6. JobsGrow /\ DOMAIN job' \ DOMAIN job = {Len(job) + 1}
    BY <1>2, <1>4 DEF JobsGrow
<1>7. Placed' /\ Flushed'
    <2>1. \A j \in DOMAIN job' : j \in DOMAIN job \/ j = Len(job) + 1
        BY <1>2, <1>4
    <2>. QED BY <2>1, <1>0, <1>1, <1>3, <1>4 DEF Placed, Flushed, Over
<1>8. CommandTypes' /\ InOrder' /\ MemoGrows
    BY <1>0, <1>1, <1>6 DEF CommandTypes, InOrder, Started, ClientInv, MemoGrows, Brokers, JobsGrow
<1>9. /\ at' \in [Calls -> Where] /\ at'[c] = "accepted"
      /\ \A d \in Calls \ {c} : at'[d] = at[d]
    BY <1>0 DEF CallTypes, GoTo, Where
<1>10. /\ loc' \in [Calls -> [ep : Brokers \cup {None}, cur : Brokers \cup {None},
                              id : DOMAIN job' \cup {None},
                              resubmits : 0..MaxResubmits, requeues : 0..MaxRequeues]]
       /\ \A d \in Calls \ {c} : loc'[d] = loc[d]
       /\ loc'[c].ep = loc[c].ep /\ loc'[c].cur = loc[c].cur
       /\ loc'[c].id = Len(job) + 1
    <2>1. DOMAIN job \subseteq DOMAIN job' /\ Len(job) + 1 \in DOMAIN job'
        BY <1>2, <1>4
    <2>2. loc \in [Calls -> [ep : Brokers \cup {None}, cur : Brokers \cup {None},
                             id : DOMAIN job' \cup {None},
                             resubmits : 0..MaxResubmits, requeues : 0..MaxRequeues]]
        BY <1>0, <2>1 DEF CallTypes, Locals
    <2>. QED BY <2>1, <2>2, <1>5
<1>11. pend' \in [Calls -> [Brokers -> DOMAIN job' \cup {None}]]
    BY <1>0, <1>6 DEF CallTypes, JobsGrow
<1>12. Len(job) + 1 # None
    BY <1>0, <1>2, <1>4 DEF Jobs
<1>13. CallInv(c)'
    <2>0. pend[c] \in [Brokers -> DOMAIN job \cup {None}] /\ active \subseteq DOMAIN job
        BY <1>0 DEF CallTypes, CommandTypes
    <2>1. HasJob(c)' /\ Tried(c)'
        BY <1>0, <1>9, <1>10, <1>12 DEF CallInv, HasJob, Tried, Ended, id
    <2>2. Known(c)'
        BY <1>0, <1>1, <1>10 DEF Known, cur
    <2>3. Keyed(c)'
        BY <1>0, <1>4, <2>0 DEF Keyed, CallInv
    <2>4. Owned(c)'
        BY <1>3, <1>4, <1>9, <1>10 DEF Owned, id, cur
    <2>5. Vacant(c)'
        BY <1>0, <1>10 DEF Vacant, CallInv
    <2>6. ActiveKept(c)'
        BY <1>0, <1>4, <2>0 DEF ActiveKept, CallInv
    <2>7. Newest(c)'
        <3>1. \A j \in DOMAIN job' : j \in DOMAIN job \/ j = Len(job) + 1
            BY <1>2, <1>4
        <3>. QED BY <3>1, <1>0, <1>1, <1>3, <1>4, <1>10 DEF Newest, CallInv, Busy, Brokers
    <2>. QED BY <2>1, <2>2, <2>3, <2>4, <2>5, <2>6, <2>7 DEF CallInv
<1>14. \A d \in Calls \ {c} : CallInv(d)'
    <2>1. OnlyCall(c)
        BY <1>0, <1>9, <1>10 DEF OnlyCall
    <2>2. \A j \in DOMAIN job' \ DOMAIN job : job'[j].call = c
        BY <1>3, <1>4, <1>6
    <2>3. active \subseteq DOMAIN job /\ active' = active
        BY <1>0 DEF CommandTypes
    <2>4. \A d \in Calls : CallInv(d)
        BY DEF ClientInv
    <2>. QED BY <2>1, <2>2, <2>3, <2>4, <1>0, <1>6, <1>8, OthersKeep
<1>. QED BY <1>4, <1>7, <1>8, <1>9, <1>10, <1>11, <1>13, <1>14, <1>0 DEF ClientInv, CallTypes, Locals

\* The answer to a submission: the call and the command know the job.
LEMMA AcceptedKeeps ==
    ASSUME ClientInv, NEW c \in Calls, Accepted(c)
    PROVE  ClientInv'
<1>0. /\ CallInv(c) /\ CallTypes /\ CommandTypes /\ JobTypes
      /\ at[c] = "accepted" /\ GoTo(c, "polling")
      /\ active' = active \cup {id(c)} /\ pend' = [pend EXCEPT ![c][loc[c].ep] = id(c)]
      /\ job' = [job EXCEPT ![id(c)].told = TRUE]
      /\ UNCHANGED <<tries, loc, stop, todo, awaited, failed, rushed, dropped,
                     memo, broker, losses>>
    BY DEF ClientInv, Accepted, Remembered, stopVars
<1>1. id(c) \in DOMAIN job /\ id(c) # None
    BY <1>0 DEF CallInv, HasJob, CallTypes, Locals, id
<1>2. /\ loc[c].ep \in Brokers /\ job[id(c)].call = c /\ job[id(c)].key = loc[c].ep
      /\ job[id(c)].on = cur(c) /\ pend[c][loc[c].ep] = None
    BY <1>0, <1>1 DEF CallInv, Known, Busy, Owned, Vacant
<1>3. job \in [DOMAIN job -> Job] /\ None \notin DOMAIN job
    BY <1>0, JobsAreNumbered
<1>4. job' \in [DOMAIN job -> Job]
    BY <1>0, <1>1, <1>3 DEF Job
<1>5. \A j \in DOMAIN job : /\ job'[j].on = job[j].on /\ job'[j].key = job[j].key
                            /\ job'[j].call = job[j].call /\ job'[j].state = job[j].state
                            /\ job'[j].kept = job[j].kept
    BY <1>0, <1>1, <1>3 DEF Job
<1>6. \A j \in DOMAIN job : job'[j].kept \/ Over(j)'
    BY <1>5 DEF Over, ClientInv, Flushed
<1>7. JobsGrow /\ DOMAIN job' = DOMAIN job /\ Placed' /\ Flushed'
    BY <1>0, <1>4, <1>5, <1>6, EditsKeep
<1>8. /\ pend' \in [Calls -> [Brokers -> DOMAIN job \cup {None}]]
      /\ \A d \in Calls \ {c} : pend'[d] = pend[d]
      /\ pend'[c][loc[c].ep] = id(c)
      /\ \A b \in Brokers \ {loc[c].ep} : pend'[c][b] = pend[c][b]
    BY <1>0, <1>1, <1>2 DEF CallTypes
<1>9. Moves(c) /\ at'[c] = "polling"
    BY <1>0, <1>8 DEF Moves, OnlyCall, CallTypes, GoTo, Where
<1>10. CommandTypes' /\ InOrder' /\ MemoGrows
    BY <1>0, <1>1, <1>7 DEF CommandTypes, InOrder, Started, ClientInv, MemoGrows, Brokers
<1>11. CallInv(c)'
    <2>0. pend[c] \in [Brokers -> DOMAIN job \cup {None}] /\ active \subseteq DOMAIN job
        BY <1>0 DEF CallTypes, CommandTypes
    <2>1. HasJob(c)' /\ Tried(c)'
        BY <1>0, <1>1, <1>9 DEF CallInv, HasJob, Tried, Ended, id
    <2>2. Known(c)'
        BY <1>0 DEF CallInv, Known, Busy, cur
    <2>3. Keyed(c)'
        <3>1. \A b \in Brokers : pend'[c][b] # None => /\ job[pend'[c][b]].call = c
                                                       /\ job[pend'[c][b]].key = b
                                                       /\ pend'[c][b] \in DOMAIN job
            BY <1>0, <1>1, <1>2, <1>8, <2>0 DEF Keyed, CallInv
        <3>. QED BY <3>1, <1>5 DEF Keyed
    <2>4. Owned(c)'
        BY <1>0, <1>1, <1>2, <1>5, <1>8, <1>9 DEF Owned, id, cur
    <2>5. Vacant(c)'
        BY <1>9 DEF Vacant
    <2>6. ActiveKept(c)'
        <3>1. SUFFICES ASSUME NEW j \in active', job[j].call = c
                       PROVE  pend'[c][job[j].key] = j
            BY <1>0, <1>1, <1>5, <2>0 DEF ActiveKept
        <3>2. CASE j = id(c)
            BY <3>2, <1>2, <1>8
        <3>3. CASE j \in active
            <4>1. pend[c][job[j].key] = j /\ j # None /\ job[j].key \in Brokers
                BY <3>1, <3>3, <1>0, <1>3, <2>0 DEF CallInv, ActiveKept, Job
            <4>. QED BY <4>1, <1>2, <1>8
        <3>. QED BY <3>2, <3>3, <1>0
    <2>7. Newest(c)'
        BY <1>0, <1>5, <1>7 DEF Newest, CallInv, Busy
    <2>. QED BY <2>1, <2>2, <2>3, <2>4, <2>5, <2>6, <2>7 DEF CallInv
<1>12. \A j \in active' : j \in active \/ job'[j].call = c
    BY <1>0, <1>1, <1>2, <1>5
<1>. QED BY <1>7, <1>9, <1>10, <1>11, <1>12, OneKeepsAll

\* A reply that is flushed and lost.
LEMMA LostAfterFlushKeeps ==
    ASSUME ClientInv, NEW c \in Calls, LostAfterFlush(c)
    PROVE  ClientInv'
<1>0. /\ at[c] = "polling" /\ Over(id(c)) /\ TryAgain(c) /\ CallInv(c) /\ CallTypes
      /\ job' = [job EXCEPT ![id(c)].kept = FALSE] /\ CommandTypes
      /\ UNCHANGED <<pend, active, stop, todo, awaited, failed, rushed, dropped,
                     memo, broker>>
    BY DEF LostAfterFlush, ClientInv, commandVars, stopVars
<1>1. id(c) \in DOMAIN job /\ ~Ended(c)
    BY <1>0 DEF CallInv, HasJob, CallTypes, Locals, id, Ended
<1>2. JobsGrow /\ DOMAIN job' = DOMAIN job /\ Placed' /\ Flushed'
    BY <1>0, <1>1, FlushKeeps
<1>3. Moves(c) /\ CallInv(c)'
    BY <1>0, <1>1, <1>2, TryAgainKeeps
<1>4. losses' \in 0..MaxLosses
    BY <1>0, ClientAssumption DEF LostAfterFlush, MayLose, CommandTypes
<1>5. CommandTypes' /\ InOrder' /\ MemoGrows
    BY <1>0, <1>2, <1>4 DEF CommandTypes, InOrder, Started, ClientInv, MemoGrows, Brokers
<1>. QED BY <1>0, <1>2, <1>3, <1>5, OneKeepsAll

\* A broker that fails an answer: the call cancels its job.
LEMMA BadAnswerKeeps ==
    ASSUME ClientInv, NEW c \in Calls, BadAnswer(c)
    PROVE  ClientInv'
<1>0. /\ at[c] = "polling" /\ Forget(c) /\ GoTo(c, "cancelling")
      /\ CallInv(c) /\ CallTypes /\ CommandTypes
      /\ UNCHANGED <<tries, loc, stop, todo, awaited, failed, rushed, dropped,
                     memo, broker, job>>
    BY DEF BadAnswer, ClientInv, stopVars
<1>1. id(c) # None
    BY <1>0 DEF CallInv, HasJob
<1>2. JobsGrow /\ DOMAIN job' = DOMAIN job
    BY <1>0 DEF JobsGrow, JobTypes, ClientInv
<1>3. /\ pend' \in [Calls -> [Brokers -> DOMAIN job \cup {None}]]
      /\ \A d \in Calls \ {c} : pend'[d] = pend[d]
      /\ Keyed(c)' /\ ActiveKept(c)' /\ active' \subseteq active
    BY <1>0, <1>1, <1>2, ForgetKeeps
<1>4. Moves(c) /\ at'[c] = "cancelling"
    BY <1>0, <1>3 DEF Moves, OnlyCall, CallTypes, GoTo, Where
<1>5. losses' \in 0..MaxLosses
    BY <1>0, ClientAssumption DEF BadAnswer, MayLose, CommandTypes
<1>6. CommandTypes'
    BY <1>0, <1>3, <1>5 DEF CommandTypes
<1>7. CallInv(c)'
    BY <1>0, <1>1, <1>3, <1>4 DEF CallInv, HasJob, Tried, Known, Owned, Vacant, Newest, id, cur, Busy, Ended
<1>. QED BY <1>0, <1>3, <1>4, <1>6, <1>7, OneKeepsAllInPlace

\* A job that is over and forgotten ends the call or the attempt ...
LEMMA ForgetAndTryAgain ==
    ASSUME ClientInv, NEW c \in Calls, at[c] = "polling", Forget(c), TryAgain(c),
           DOMAIN job' = DOMAIN job, JobsGrow
    PROVE  Moves(c) /\ CallInv(c)'
<1>1. CallTypes /\ CallInv(c) /\ ~Ended(c) /\ id(c) # None
    BY DEF ClientInv, CallInv, HasJob, Ended
<1>2. /\ pend' \in [Calls -> [Brokers -> DOMAIN job \cup {None}]]
      /\ \A d \in Calls \ {c} : pend'[d] = pend[d]
      /\ \A b \in Brokers : pend'[c][b] \in {pend[c][b], None}
      /\ \A j \in active' : j \in active /\ (job[j].call = c => pend'[c][job[j].key] = pend[c][job[j].key])
    BY <1>1, ForgetKeeps
<1>3. Tried(c)
    BY <1>1 DEF CallInv
<1>4. Moves(c) /\ at'[c] \in {"idle", "failed"} /\ loc'[c] = NoLocals /\ Tried(c)'
    BY <1>1, <1>2, <1>3, TryAgainMoves
<1>. QED BY <1>2, <1>4, EndedKeeps

\* ... or the call goes on without a job.
LEMMA ForgetAndGoOn ==
    ASSUME ClientInv, NEW c \in Calls, at[c] = "polling", Forget(c),
           NEW where \in {"top", "reconnect"}, GoTo(c, where), UNCHANGED tries,
           NEW l \in Locals, l.id = None, l.ep = loc[c].ep, l.cur = loc[c].cur,
           loc' = [loc EXCEPT ![c] = l],
           DOMAIN job' = DOMAIN job, JobsGrow, memo' = memo
    PROVE  Moves(c) /\ CallInv(c)'
<1>1. CallTypes /\ CallInv(c) /\ id(c) # None
    BY DEF ClientInv, CallInv, HasJob
<1>2. /\ pend' \in [Calls -> [Brokers -> DOMAIN job \cup {None}]]
      /\ \A d \in Calls \ {c} : pend'[d] = pend[d]
      /\ pend'[c][loc[c].ep] = None
      /\ Keyed(c)' /\ ActiveKept(c)'
    BY <1>1, ForgetKeeps
<1>3. at' \in [Calls -> Where] /\ at'[c] = where /\ \A d \in Calls \ {c} : at'[d] = at[d]
    BY <1>1 DEF CallTypes, GoTo, Where
<1>4. loc' \in [Calls -> Locals] /\ loc'[c] = l /\ \A d \in Calls \ {c} : loc'[d] = loc[d]
    BY <1>1 DEF CallTypes
<1>5. Moves(c)
    BY <1>1, <1>2, <1>3, <1>4 DEF Moves, OnlyCall, CallTypes
<1>6. HasJob(c)' /\ Tried(c)' /\ Owned(c)'
    BY <1>1, <1>3, <1>4 DEF HasJob, Tried, Owned, CallInv, Ended, id
<1>7. Known(c)' /\ Vacant(c)'
    BY <1>1, <1>2, <1>3, <1>4 DEF Known, Vacant, CallInv, Busy, cur
<1>8. Newest(c)'
    BY <1>1, <1>3, <1>4 DEF Newest, CallInv, Busy, JobsGrow
<1>. QED BY <1>2, <1>5, <1>6, <1>7, <1>8 DEF CallInv

\* A 404, after which the work is submitted again, once.
LEMMA NoSuchJobKeeps ==
    ASSUME ClientInv, NEW c \in Calls, NoSuchJob(c)
    PROVE  ClientInv'
<1>0. /\ at[c] = "polling" /\ Forget(c) /\ CallTypes /\ CommandTypes
      /\ UNCHANGED <<stop, todo, awaited, failed, rushed, dropped, memo, broker,
                     job, losses>>
    BY DEF NoSuchJob, ClientInv, stopVars
<1>1. JobsGrow /\ DOMAIN job' = DOMAIN job
    BY <1>0 DEF JobsGrow, JobTypes, ClientInv
<1>2. active' \subseteq active /\ CommandTypes'
    BY <1>0 DEF Forget, CommandTypes
<1>3. Moves(c) /\ CallInv(c)'
    <2>1. CASE loc[c].resubmits < MaxResubmits
        <3>1. /\ GoTo(c, "top") /\ UNCHANGED tries
              /\ loc' = [loc EXCEPT ![c].id = None, ![c].resubmits = @ + 1]
            BY <2>1 DEF NoSuchJob
        <3>2. loc[c] \in Locals
            BY <1>0 DEF CallTypes
        <3>3. PICK l : l = [loc[c] EXCEPT !.id = None, !.resubmits = @ + 1]
            OBVIOUS
        <3>4. loc[c].resubmits + 1 \in 0..MaxResubmits
            BY <2>1, <3>2 DEF Locals, MaxResubmits
        <3>5. /\ l.id = None /\ l.ep = loc[c].ep /\ l.cur = loc[c].cur
              /\ l \in Locals
            BY <3>2, <3>3, <3>4 DEF Locals
        <3>6. loc' = [loc EXCEPT ![c] = l]
            BY <3>1, <3>3, <1>0 DEF CallTypes
        <3>. QED BY <3>1, <3>5, <3>6, <1>0, <1>1, ForgetAndGoOn
    <2>2. CASE ~(loc[c].resubmits < MaxResubmits)
        <3>1. TryAgain(c)
            BY <2>2 DEF NoSuchJob
        <3>. QED BY <3>1, <1>0, <1>1, ForgetAndTryAgain
    <2>. QED BY <2>1, <2>2
<1>. QED BY <1>0, <1>2, <1>3, OneKeepsAllInPlace

\* What every delivered answer leaves of the rest.
LEMMA DeliveredKeeps ==
    ASSUME ClientInv, NEW c \in Calls, Delivered(c)
    PROVE  /\ at[c] = "polling" /\ Forget(c) /\ UNCHANGED memo
           /\ JobsGrow /\ DOMAIN job' = DOMAIN job /\ Placed' /\ Flushed'
           /\ CommandTypes' /\ InOrder' /\ MemoGrows /\ active' \subseteq active
<1>0. /\ at[c] = "polling" /\ Over(id(c)) /\ CallInv(c) /\ CallTypes /\ CommandTypes
      /\ job' = [job EXCEPT ![id(c)].kept = FALSE] /\ Forget(c)
      /\ UNCHANGED <<stop, todo, awaited, failed, rushed, dropped, memo, broker,
                     losses>>
    BY DEF Delivered, ClientInv, stopVars
<1>1. id(c) \in DOMAIN job
    BY <1>0 DEF CallInv, HasJob, CallTypes, Locals, id
<1>2. JobsGrow /\ DOMAIN job' = DOMAIN job /\ Placed' /\ Flushed'
    BY <1>0, <1>1, FlushKeeps
<1>3. active' \subseteq active
    BY <1>0 DEF Forget
<1>4. CommandTypes' /\ InOrder' /\ MemoGrows
    BY <1>0, <1>2, <1>3 DEF CommandTypes, InOrder, Started, ClientInv, MemoGrows, Brokers
<1>. QED BY <1>0, <1>2, <1>3, <1>4

\* An answer that ends the call.
LEMMA ReplyKeeps ==
    ASSUME ClientInv, NEW c \in Calls, Reply(c)
    PROVE  ClientInv'
<1>0. Delivered(c) /\ CallTypes /\ CallInv(c) /\ UNCHANGED tries
    BY DEF Reply, ClientInv
<1>1. /\ at[c] = "polling" /\ Forget(c) /\ UNCHANGED memo
      /\ JobsGrow /\ DOMAIN job' = DOMAIN job /\ Placed' /\ Flushed'
      /\ CommandTypes' /\ InOrder' /\ MemoGrows /\ active' \subseteq active
    BY <1>0, DeliveredKeeps
<1>2. PICK how \in {"ok", "failed", "stopped"} : Ends(c, how)
    BY DEF Reply
<1>3. id(c) # None
    BY <1>0, <1>1 DEF CallInv, HasJob
<1>4. /\ pend' \in [Calls -> [Brokers -> DOMAIN job \cup {None}]]
      /\ \A d \in Calls \ {c} : pend'[d] = pend[d]
      /\ \A b \in Brokers : pend'[c][b] \in {pend[c][b], None}
      /\ \A j \in active' : j \in active /\ (job[j].call = c => pend'[c][job[j].key] = pend[c][job[j].key])
    BY <1>1, <1>3, ForgetKeeps
<1>5. /\ at' \in [Calls -> Where] /\ at'[c] = how /\ \A d \in Calls \ {c} : at'[d] = at[d]
      /\ loc' \in [Calls -> Locals] /\ loc'[c] = NoLocals
      /\ \A d \in Calls \ {c} : loc'[d] = loc[d]
    BY <1>0, <1>2, NoLocalsTyped DEF CallTypes, Ends, GoTo, Set, Where
<1>6. Moves(c)
    BY <1>0, <1>4, <1>5 DEF Moves, OnlyCall, CallTypes
<1>7. Tried(c)'
    BY <1>5 DEF Tried, Ended
<1>8. CallInv(c)'
    BY <1>1, <1>4, <1>5, <1>7, EndedKeeps
<1>9. \A j \in DOMAIN job' \ DOMAIN job : job'[j].call = c
    BY <1>1
<1>. QED BY <1>1, <1>6, <1>8, <1>9, OneKeepsAll

\* A job that was given back.
LEMMA GivenBackKeeps ==
    ASSUME ClientInv, NEW c \in Calls, GivenBack(c)
    PROVE  ClientInv'
<1>0. Delivered(c) /\ CallTypes
    BY DEF GivenBack, ClientInv
<1>1. /\ at[c] = "polling" /\ Forget(c) /\ UNCHANGED memo
      /\ JobsGrow /\ DOMAIN job' = DOMAIN job /\ Placed' /\ Flushed'
      /\ CommandTypes' /\ InOrder' /\ MemoGrows /\ active' \subseteq active
    BY <1>0, DeliveredKeeps
<1>2. Moves(c) /\ CallInv(c)'
    <2>1. CASE loc[c].requeues < MaxRequeues
        <3>1. /\ GoTo(c, "reconnect") /\ UNCHANGED tries
              /\ loc' = [loc EXCEPT ![c].id = None, ![c].requeues = @ + 1]
            BY <2>1 DEF GivenBack
        <3>2. loc[c] \in Locals
            BY <1>0 DEF CallTypes
        <3>3. PICK l : l = [loc[c] EXCEPT !.id = None, !.requeues = @ + 1]
            OBVIOUS
        <3>4. loc[c].requeues + 1 \in 0..MaxRequeues
            BY <2>1, <3>2, ClientAssumption DEF Locals
        <3>5. /\ l.id = None /\ l.ep = loc[c].ep /\ l.cur = loc[c].cur
              /\ l \in Locals
            BY <3>2, <3>3, <3>4 DEF Locals
        <3>6. loc' = [loc EXCEPT ![c] = l]
            BY <3>1, <3>3, <1>0 DEF CallTypes
        <3>. QED BY <3>1, <3>5, <3>6, <1>1, ForgetAndGoOn
    <2>2. CASE ~(loc[c].requeues < MaxRequeues)
        <3>1. TryAgain(c)
            BY <2>2 DEF GivenBack
        <3>. QED BY <3>1, <1>1, ForgetAndTryAgain
    <2>. QED BY <2>1, <2>2
<1>3. \A j \in DOMAIN job' \ DOMAIN job : job'[j].call = c
    BY <1>1
<1>. QED BY <1>1, <1>2, <1>3, OneKeepsAll

\* A connection anew: the call is at the latest broker.
LEMMA ReconnectKeeps ==
    ASSUME ClientInv, NEW c \in Calls, Reconnect(c)
    PROVE  ClientInv'
<1>. USE DEF ClientInv
<1>1. /\ at[c] = "reconnect" /\ at' = [at EXCEPT ![c] = "top"] /\ CallInv(c)
      /\ CallTypes /\ CommandTypes
      /\ UNCHANGED <<tries, pend, active, stop, todo, awaited, failed, rushed,
                     dropped, job, losses>>
    BY DEF Reconnect, GoTo, commandVars, stopVars
<1>2. PICK b \in Brokers : Ensured(b, TRUE) /\ loc' = [loc EXCEPT ![c].cur = b]
    BY DEF Reconnect
<1>3. /\ memo' = b /\ InOrder' /\ MemoGrows
      /\ broker' \in [Brokers -> {"none", "up", "draining", "exiting",
                                  "leaving", "gone"}]
    BY <1>1, <1>2, EnsuredIsLatest
<1>4. loc[c] \in Locals /\ id(c) = None
    BY <1>1 DEF CallTypes, CallInv, HasJob
<1>5. /\ loc'[c] = [loc[c] EXCEPT !.cur = b] /\ loc'[c] \in Locals
      /\ loc'[c].id = None /\ loc'[c].ep = loc[c].ep /\ loc'[c].cur = b
    BY <1>1, <1>2, <1>4 DEF CallTypes, Locals, id
<1>6. Moves(c) /\ at'[c] = "top"
    BY <1>1, <1>2, <1>5 DEF Moves, OnlyCall, CallTypes, Where
<1>7. JobsGrow
    BY <1>1 DEF JobsGrow, JobTypes
<1>8. \A j \in DOMAIN job : job[j] \in Job
    BY JobsAreNumbered
<1>9. Placed' /\ Flushed'
    BY <1>1, <1>3, <1>8 DEF Placed, MemoGrows, Brokers, Job, Flushed, Over
<1>10. CommandTypes'
    BY <1>1, <1>3 DEF CommandTypes
<1>11. CallInv(c)'
    <2>1. HasJob(c)' /\ Tried(c)' /\ Owned(c)'
        BY <1>1, <1>5, <1>6 DEF HasJob, Tried, Owned, CallInv, Ended, id
    <2>2. Known(c)'
        BY <1>1, <1>3, <1>5 DEF Known, CallInv, Busy, cur, MemoGrows, Brokers
    <2>3. Keyed(c)' /\ ActiveKept(c)' /\ Vacant(c)'
        BY <1>1, <1>5 DEF CallInv, Keyed, ActiveKept, Vacant
    <2>4. Newest(c)'
        BY <1>1, <1>5 DEF Newest, CallInv, Busy
    <2>. QED BY <2>1, <2>2, <2>3, <2>4 DEF CallInv
<1>. QED BY <1>1, <1>3, <1>6, <1>7, <1>9, <1>10, <1>11, OneKeepsAll

\* The call's own DELETE.
LEMMA OwnCancelKeeps ==
    ASSUME ClientInv, NEW c \in Calls, OwnCancel(c)
    PROVE  ClientInv'
<1>0. /\ at[c] = "cancelling" /\ CallInv(c) /\ CallTypes /\ CommandTypes
      /\ UNCHANGED <<pend, active, stop, todo, rushed, memo, broker>>
      /\ awaited' = awaited \ {c}
    BY DEF OwnCancel, ClientInv
<1>1. id(c) \in DOMAIN job
    BY <1>0 DEF CallInv, HasJob, CallTypes, Locals, id
<1>2. JobsGrow /\ DOMAIN job' = DOMAIN job /\ Placed' /\ Flushed'
    <2>1. CASE job' = Cancelled(id(c))
        BY <2>1, <1>0, <1>1, CancelKeeps
    <2>2. CASE job' = job
        BY <2>2, <1>0 DEF JobsGrow, JobTypes, ClientInv, Placed, Flushed, Over
    <2>. QED BY <2>1, <2>2 DEF OwnCancel
<1>3. losses' \in 0..MaxLosses
    BY <1>0, ClientAssumption DEF OwnCancel, MayLose, CommandTypes
<1>4. failed' \subseteq DOMAIN job /\ dropped' \subseteq DOMAIN job
    BY <1>0, <1>1 DEF OwnCancel, Unreported, CommandTypes
<1>5. CommandTypes' /\ InOrder' /\ MemoGrows
    BY <1>0, <1>2, <1>3, <1>4 DEF CommandTypes, InOrder, Started, ClientInv, MemoGrows, Brokers
<1>6. Moves(c) /\ CallInv(c)'
    <2>1. CASE Stopping
        <3>1. Ends(c, "stopped") /\ UNCHANGED tries
            BY <2>1 DEF OwnCancel
        <3>2. Moves(c) /\ at'[c] = "stopped" /\ loc'[c] = NoLocals
            BY <3>1, <1>0, EndsMoves DEF Where
        <3>3. Tried(c)' /\ pend' \in [Calls -> [Brokers -> DOMAIN job \cup {None}]]
            BY <3>2, <1>0 DEF Tried, Ended, CallTypes
        <3>4. CallInv(c)'
            BY <3>2, <3>3, <1>0, <1>2, EndedKeeps
        <3>. QED BY <3>2, <3>4
    <2>2. CASE ~Stopping
        <3>1. TryAgain(c) /\ ~Ended(c)
            BY <2>2, <1>0 DEF OwnCancel, Ended
        <3>. QED BY <3>1, <1>0, <1>2, TryAgainKeeps
    <2>. QED BY <2>1, <2>2
<1>. QED BY <1>0, <1>2, <1>5, <1>6, OneKeepsAll

\* Every step of a call.
LEMMA CallStepKeeps ==
    ASSUME ClientInv, NEW c \in Calls, CallStep(c)
    PROVE  ClientInv'
BY StartKeeps, WaitingStepsKeep, TopStoppedKeeps, AcceptKeeps, AcceptedKeeps,
   LostAfterFlushKeeps, BadAnswerKeeps, NoSuchJobKeeps, ReplyKeeps,
   GivenBackKeeps, ReconnectKeeps, OwnCancelKeeps DEF CallStep

\* The steps of the stop and of the brokers touch no call and no memory.
LEMMA OtherStepsKeep ==
    ASSUME ClientInv, Expire \/ StopStep \/ BrokerStep
    PROVE  ClientInv'
<1>0. /\ UNCHANGED <<at, tries, loc, pend, memo>> /\ active' \subseteq active
      /\ CallTypes /\ CommandTypes /\ JobTypes
    BY DEF ClientInv, Expire, StopStep, Snapshot, Delete, AwaitOwn, Report,
           BrokerStep, Release, Finish, Abandon, Drain, Shutdown, Gone, client,
           callVars, commandVars
<1>1. job \in [DOMAIN job -> Job]
    BY <1>0, JobsAreNumbered
<1>2. JobsGrow /\ DOMAIN job' = DOMAIN job /\ Placed' /\ Flushed'
    <2>0. CASE job' = job
        BY <2>0, <1>0 DEF JobsGrow, JobTypes, ClientInv, Placed, Flushed, Over
    <2>1. CASE \E j \in todo : Delete(j)
        <3>1. PICK j \in todo : job' = Cancelled(j) \/ job' = job
            BY <2>1 DEF Delete
        <3>2. j \in DOMAIN job
            BY <1>0 DEF CommandTypes
        <3>. QED BY <3>1, <3>2, <2>0, <1>0, CancelKeeps
    <2>2. CASE \E j \in DOMAIN job : Release(j) \/ Finish(j) \/ Abandon(j)
        <3>1. PICK j \in DOMAIN job : Release(j) \/ Finish(j) \/ Abandon(j)
            BY <2>2
        <3>2. PICK x \in {"open", "done", "failed", "requeued", "cancelled"} :
                  Waiting(j) /\ job' = [job EXCEPT ![j].state = x]
            BY <3>1 DEF Release, Finish, Abandon
        <3>. QED BY <3>2, <1>0, StateKeeps
    <2>3. CASE \E b \in Brokers : Shutdown(b)
        <3>1. PICK b \in Brokers : Shutdown(b)
            BY <2>3
        <3>2. job' = [j \in DOMAIN job |->
                         IF job[j].on # b \/ ~Waiting(j) THEN job[j]
                         ELSE [job[j] EXCEPT !.state =
                                   IF @ = "held" THEN "requeued" ELSE "failed"]]
            BY <3>1 DEF Shutdown
        <3>3. job' \in [DOMAIN job -> Job]
            BY <3>2, <1>1 DEF Job
        <3>4. \A j \in DOMAIN job : /\ job'[j].on = job[j].on /\ job'[j].key = job[j].key
                                    /\ job'[j].call = job[j].call
                                    /\ job'[j].kept \/ Over(j)'
            BY <3>2, <1>1 DEF Job, ClientInv, Flushed, Over, Waiting
        <3>. QED BY <3>3, <3>4, <1>0, EditsKeep
    <2>. QED BY <2>0, <2>1, <2>2, <2>3 DEF Expire, StopStep, Snapshot, AwaitOwn,
             Report, BrokerStep, Drain, Gone
<1>3. /\ Started' = Started
      /\ broker' \in [Brokers -> {"none", "up", "draining", "exiting", "leaving",
                                  "gone"}]
    <2>1. CASE broker' = broker
        BY <2>1, <1>0 DEF Started, CommandTypes
    <2>2. CASE \E b \in Brokers : Drain(b) \/ Shutdown(b) \/ Gone(b)
        <3>1. PICK b \in Brokers, x \in {"draining", "exiting", "leaving", "gone"} :
                  broker[b] # "none" /\ broker' = [broker EXCEPT ![b] = x]
            BY <2>2 DEF Drain, Shutdown, Gone, Alive, Set
        <3>. QED BY <3>1, <1>0 DEF Started, CommandTypes
    <2>. QED BY <2>1, <2>2 DEF Expire, StopStep, Snapshot, Delete, AwaitOwn, Report,
             BrokerStep, Release, Finish, Abandon
<1>4. /\ losses' \in 0..MaxLosses
      /\ todo' \subseteq DOMAIN job /\ failed' \subseteq DOMAIN job
      /\ dropped' \subseteq DOMAIN job /\ awaited' \subseteq Calls
      /\ stop' \in {"no", "drain", "delete", "own", "over"} /\ rushed' \in BOOLEAN
    <2>1. CASE Expire \/ BrokerStep
        <3>1. UNCHANGED <<losses, todo, failed, dropped, awaited, rushed>>
              /\ stop' \in {stop, "drain"}
            BY <2>1 DEF Expire, BrokerStep, Release, Finish, Abandon, Drain,
               Shutdown, Gone, client, callVars, commandVars, stopVars
        <3>. QED BY <3>1, <1>0 DEF CommandTypes
    <2>2. CASE Snapshot
        <3>1. /\ losses' = losses \/ (losses < MaxLosses /\ losses' = losses + 1)
              /\ rushed' \in {rushed, TRUE}
              /\ todo' = active /\ stop' = "delete"
              /\ UNCHANGED <<awaited, failed, dropped>>
            BY <2>2 DEF Snapshot
        <3>2. rushed' \in BOOLEAN
            BY <3>1, <1>0 DEF CommandTypes
        <3>3. losses' \in 0..MaxLosses
            BY <3>1, <1>0, ClientAssumption DEF CommandTypes
        <3>. QED BY <3>1, <3>2, <3>3, <1>0 DEF CommandTypes
    <2>3. CASE \E j \in todo : Delete(j)
        <3>1. PICK j \in todo :
                  /\ losses' = losses \/ (losses < MaxLosses /\ losses' = losses + 1)
                  /\ todo' = todo \ {j} /\ failed' \subseteq failed \cup {j}
                  /\ UNCHANGED <<stop, awaited, rushed, dropped>>
            BY <2>3 DEF Delete, MayLose
        <3>. QED BY <3>1, <1>0, ClientAssumption DEF CommandTypes
    <2>4. CASE AwaitOwn \/ Report
        <3>1. /\ UNCHANGED <<losses, todo, failed, dropped, rushed>>
              /\ awaited' \subseteq awaited \cup OwnCancels /\ stop' \in {"own", "over"}
            BY <2>4 DEF AwaitOwn, Report
        <3>. QED BY <3>1, <1>0 DEF CommandTypes, OwnCancels
    <2>. QED BY <2>1, <2>2, <2>3, <2>4 DEF StopStep
<1>5. CommandTypes' /\ InOrder'
    BY <1>0, <1>2, <1>3, <1>4 DEF CommandTypes, InOrder, ClientInv
<1>6. CallTypes'
    BY <1>0, <1>2 DEF CallTypes, Locals
<1>7. \A c \in Calls : CallInv(c)'
    <2>1. SUFFICES ASSUME NEW c \in Calls PROVE CallInv(c)'
        OBVIOUS
    <2>2. CallInv(c) /\ id(c) \in DOMAIN job \cup {None}
          /\ \A b \in Brokers : pend[c][b] \in DOMAIN job \cup {None}
        BY <1>0 DEF ClientInv, CallTypes, Locals, id
    <2>3. HasJob(c)' /\ Tried(c)' /\ Known(c)' /\ Vacant(c)'
        BY <2>2, <1>0 DEF CallInv, HasJob, Tried, Known, Vacant, id, cur, Busy, Ended
    <2>4. Keyed(c)' /\ Owned(c)'
        BY <2>2, <1>0, <1>2 DEF CallInv, Keyed, Owned, id, cur, JobsGrow
    <2>5. ActiveKept(c)' /\ Newest(c)'
        BY <2>2, <1>0, <1>2 DEF CallInv, ActiveKept, Newest, Busy, JobsGrow, CommandTypes
    <2>. QED BY <2>3, <2>4, <2>5 DEF CallInv
<1>. QED BY <1>2, <1>5, <1>6, <1>7 DEF ClientInv, JobsGrow

\* The command begins with nothing at any broker.
LEMMA ClientInit == Init => ClientInv
<1>. SUFFICES ASSUME Init PROVE ClientInv
    OBVIOUS
<1>. USE DEF Init
<1>1. Len(job) = 0 /\ job \in Seq(Job) /\ DOMAIN job = {}
    OBVIOUS
<1>2. CallTypes
    <2>1. tries \in [Calls -> 0..(MaxRetries + 1)]
        BY ClientAssumption
    <2>2. loc \in [Calls -> Locals]
        BY NoLocalsTyped
    <2>. QED BY <2>1, <2>2 DEF CallTypes, Where
<1>3. CommandTypes
    <2>1. losses \in 0..MaxLosses
        BY ClientAssumption
    <2>. QED BY <2>1 DEF CommandTypes
<1>4. JobTypes
    BY <1>1, ClientAssumption DEF JobTypes
<1>5. Placed /\ Flushed
    BY <1>1 DEF Placed, Flushed
<1>6. InOrder
    <2>1. Started = {} /\ 0 \in 0..MaxBrokers
        BY ClientAssumption DEF Started
    <2>. QED BY <2>1 DEF InOrder
<1>7. \A c \in Calls : CallInv(c)
    BY ClientAssumption DEF CallInv, HasJob, Tried, Known, Keyed, Owned, Vacant, ActiveKept,
       Newest, id, cur, Busy, Ended, NoLocals
<1>. QED BY <1>2, <1>3, <1>4, <1>5, <1>6, <1>7 DEF ClientInv

\* Every step keeps the invariant.
LEMMA ClientStep == ClientInv /\ [Next]_vars => ClientInv'
<1>. SUFFICES ASSUME ClientInv, [Next]_vars PROVE ClientInv'
    OBVIOUS
<1>1. CASE Next
    BY <1>1, CallStepKeeps, OtherStepsKeep DEF Next
<1>2. CASE UNCHANGED vars
    <2>0. UNCHANGED <<at, tries, loc, pend, memo, active, stop, todo, awaited,
                      failed, rushed, dropped, broker, job, losses>>
        BY <1>2 DEF vars, callVars, commandVars, stopVars
    <2>1. CallTypes' /\ JobTypes' /\ CommandTypes'
        BY <2>0 DEF ClientInv, CallTypes, Locals, JobTypes, CommandTypes
    <2>2. InOrder' /\ Placed' /\ Flushed'
        BY <2>0 DEF ClientInv, InOrder, Started, Placed, Flushed, Over
    <2>3. \A c \in Calls : CallInv(c)'
        BY <2>0 DEF ClientInv, CallInv, HasJob, Tried, Known, Keyed, Owned, Vacant,
           ActiveKept, Newest, id, cur, Busy, Ended
    <2>. QED BY <2>1, <2>2, <2>3 DEF ClientInv
<1>. QED BY <1>1, <1>2

\* The invariant holds in every state of every command.
LEMMA ClientInvariant == Spec => []ClientInv
<1>. QED BY ClientInit, ClientStep, PTL DEF Spec

\* The types of the client's state (client.ts), and that a call posts without a
\* job and polls with one.
THEOREM TypeCorrect == Spec => []TypeOK
<1>1. ClientInv => TypeOK
    BY TypeOKParts DEF ClientInv, CallInv
<1>. QED BY <1>1, ClientInvariant, PTL

\* A job that a call polls or cancels is its own and at the broker it asks:
\* pendingByScope never hands an attempt a job of another broker, though its
\* entries outlive the attempts and the brokers (client.ts, brokerExchange).
PollsWhereItIs ==
    \A c \in Calls : id(c) # None => job[id(c)].on = cur(c) /\ job[id(c)].call = c

\* PollsWhereItIs for every command.
THEOREM PollsAreHome == Spec => []PollsWhereItIs
<1>1. ClientInv => PollsWhereItIs
    BY DEF ClientInv, CallInv, Owned, PollsWhereItIs
<1>. QED BY <1>1, ClientInvariant, PTL

\* TwinOnlyAfterMove for every command: what is in active is under its key,
\* and the key of an attempt is empty when it submits.
THEOREM TwinsFollowMoves == Spec => TwinOnlyAfterMove
<1>1. ClientInv /\ [Next]_vars
      => [\A c \in Calls, j \in DOMAIN job :
             Twin(c, j) => job[j].on # cur(c) \/ job[j].key # job[j].on]_vars
    <2>1. SUFFICES ASSUME ClientInv, NEW c \in Calls, NEW j \in DOMAIN job, Twin(c, j)
                   PROVE  job[j].on # cur(c) \/ job[j].key # job[j].on
        OBVIOUS
    <2>2. /\ at[c] = "posting" /\ j \in active /\ job[j].call = c /\ CallInv(c)
        BY <2>1 DEF Twin, ClientInv
    <2>3. /\ pend[c][loc[c].ep] = None /\ pend[c][job[j].key] = j
          /\ loc[c].ep \in Brokers /\ cur(c) \in Brokers /\ loc[c].ep <= cur(c)
          /\ job[j].key <= loc[c].ep
        BY <2>1, <2>2 DEF CallInv, Vacant, ActiveKept, Known, Newest, Busy
    <2>4. j # None /\ job[j] \in Job
        BY <2>1, JobsAreNumbered DEF ClientInv
    <2>5. job[j].key # loc[c].ep
        BY <2>3, <2>4
    <2>. QED BY <2>3, <2>4, <2>5 DEF Job, Brokers
<1>. QED BY <1>1, ClientInvariant, PTL DEF Spec, TwinOnlyAfterMove

-----------------------------------------------------------------------------
(* What the command knows of its jobs, and the stop *)

\* DELETEs are left only while the stop makes them, and the calls it waits for
\* are making theirs.
Phases ==
    /\ todo # {} => stop = "delete"
    /\ awaited # {} => stop = "own"
    /\ \A c \in awaited : at[c] = "cancelling"

\* After a drain that was not cut short, nothing more becomes known.
Quiet == stop \in {"delete", "own", "over"} /\ ~rushed
         => active = {} /\ Submitting = {}

\* From then on a job that waits is reported, or awaited.
Cleared ==
    stop \in {"own", "over"} /\ ~rushed
    => \A j \in DOMAIN job :
           Waiting(j) /\ job[j].told
           => j \in failed \cup dropped \/ \E c \in awaited : id(c) = j

StopInv == Phases /\ NoJobForgotten /\ Quiet /\ Cleared

\* No job begins to wait again, and none becomes known.
NoneRevived ==
    /\ \A j \in DOMAIN job : Waiting(j)' => Waiting(j)
    /\ \A j \in DOMAIN job' : job'[j].told => j \in DOMAIN job /\ job[j].told

\* A step of a call that neither hears of a job nor ends its own DELETE.
Plain(c) ==
    /\ at[c] # "cancelling" /\ OnlyCall(c) /\ NoneRevived
    /\ UNCHANGED stopVars
    /\ at'[c] \in {"posting", "accepted"} => c \in Submitting \/ ~Stopping
    /\ \/ active' = active
       \/ /\ active' = active \ {id(c)}
          /\ \/ at'[c] = "cancelling" /\ id(c)' = id(c)
             \/ \A j \in DOMAIN job : j = id(c) => ~Waiting(j)'

\* Such a step keeps the invariant.
LEMMA PlainKeeps ==
    ASSUME ClientInv, StopInv, NEW c \in Calls, Plain(c)
    PROVE  StopInv'
<1>0. /\ at[c] # "cancelling" /\ OnlyCall(c) /\ NoneRevived
      /\ UNCHANGED <<stop, todo, awaited, failed, rushed, dropped>>
      /\ active' \subseteq active /\ awaited \subseteq Calls
    BY DEF Plain, stopVars, ClientInv, CommandTypes
<1>1. \A d \in Calls : at[d] = "cancelling" =>
          d # c /\ at'[d] = "cancelling" /\ id(d)' = id(d)
    BY <1>0 DEF OnlyCall, id
<1>2. Phases'
    BY <1>0, <1>1 DEF StopInv, Phases
<1>3. NoJobForgotten'
    <2>1. SUFFICES ASSUME NEW j \in DOMAIN job', Waiting(j)', job'[j].told
                   PROVE  \/ j \in active' \cup todo' \cup failed' \cup dropped'
                          \/ \E d \in Calls : id(d)' = j /\ at'[d] = "cancelling"
        BY DEF NoJobForgotten
    <2>2. j \in DOMAIN job /\ Waiting(j) /\ job[j].told
        BY <2>1, <1>0 DEF NoneRevived
    <2>3. CASE j \in active /\ j \notin active'
        <3>1. /\ j = id(c)
              /\ \/ at'[c] = "cancelling" /\ id(c)' = id(c)
                 \/ ~Waiting(j)'
            BY <2>2, <2>3 DEF Plain
        <3>. QED BY <3>1, <2>1
    <2>4. CASE \E d \in Calls : id(d) = j /\ at[d] = "cancelling"
        BY <2>4, <1>1
    <2>. QED BY <2>2, <2>3, <2>4, <1>0 DEF StopInv, NoJobForgotten
<1>4. Quiet'
    <2>1. SUFFICES ASSUME stop \in {"delete", "own", "over"}, ~rushed
                   PROVE  active' = {} /\ Submitting' = {}
        BY <1>0 DEF Quiet
    <2>2. active = {} /\ Submitting = {} /\ Stopping
        BY <2>1 DEF StopInv, Quiet, Stopping
    <2>3. \A d \in Calls : at'[d] \notin {"posting", "accepted"}
        BY <2>2, <1>0 DEF Plain, OnlyCall, Submitting
    <2>. QED BY <2>2, <2>3, <1>0 DEF Submitting
<1>5. Cleared'
    BY <1>0, <1>1 DEF StopInv, Cleared, NoneRevived, Phases
<1>. QED BY <1>2, <1>3, <1>4, <1>5 DEF StopInv

\* Jobs that stay as they are do not begin to wait when a broker changes from
\* one that lives or has not started.
LEMMA UntouchedJobs ==
    ASSUME ClientInv, job' = job, broker' = broker
    PROVE  NoneRevived
BY DEF NoneRevived, Waiting, Alive

\* Nor when a broker is started: no job is at it yet.
LEMMA EnsuredRevivesNone ==
    ASSUME ClientInv, job' = job, NEW b \in Brokers, NEW fresh \in BOOLEAN, Ensured(b, fresh)
    PROVE  NoneRevived
<1>1. \A a \in Started : broker'[a] = broker[a]
    BY EnsuredIsLatest DEF ClientInv
<1>2. \A j \in DOMAIN job : job[j].on \in Started
    <2>1. SUFFICES ASSUME NEW j \in DOMAIN job PROVE job[j].on \in Started
        OBVIOUS
    <2>2. memo \in Brokers /\ job[j].on <= memo /\ job[j].on \in Brokers
        BY JobsAreNumbered DEF ClientInv, Placed, Job
    <2>3. PICK n \in 0..MaxBrokers : Started = 1..n
        BY DEF ClientInv, InOrder
    <2>4. memo \in 1..n
        BY <2>2, <2>3, ClientAssumption DEF ClientInv, InOrder
    <2>. QED BY <2>2, <2>3, <2>4 DEF Brokers
<1>. QED BY <1>1, <1>2 DEF NoneRevived, Waiting, Alive

\* The steps of a call that are plain.
LEMMA MostStepsArePlain ==
    ASSUME ClientInv, NEW c \in Calls, CallStep(c), ~Accepted(c), ~OwnCancel(c)
    PROVE  Plain(c)
<1>0. /\ CallTypes /\ CommandTypes /\ JobTypes /\ CallInv(c)
      /\ job \in [DOMAIN job -> Job] /\ DOMAIN job = 1..Len(job) /\ Len(job) \in Nat
    BY JobsAreNumbered DEF ClientInv
<1>1. OnlyCall(c)
    BY <1>0 DEF CallTypes, OnlyCall, CallStep, Start, StartStopped, Top, TopStopped,
       Accept, Refuse, Lost, LostAfterFlush, StillWaiting, NoSuchJob, BadAnswer,
       Reply, GivenBack, Delivered, Reconnect, NoBroker, TryAgain, Ends, Forget,
       GoTo, Set
<1>2. at[c] # "cancelling" /\ UNCHANGED stopVars
    BY DEF CallStep, Start, StartStopped, Top, TopStopped,
       Accept, Refuse, Lost, LostAfterFlush, StillWaiting, NoSuchJob, BadAnswer,
       Reply, GivenBack, Delivered, Reconnect, NoBroker, commandVars, stopVars
<1>3. at'[c] \in {"posting", "accepted"} => c \in Submitting \/ ~Stopping
    BY <1>0 DEF CallTypes, CallStep, Start, StartStopped, Top, TopStopped,
       Accept, Refuse, Lost, LostAfterFlush, StillWaiting, NoSuchJob, BadAnswer,
       Reply, GivenBack, Delivered, Reconnect, NoBroker, TryAgain, Ends,
       GoTo, Set, Submitting, Thrown
<1>4. NoneRevived
    <2>1. CASE Start(c)
        <3>1. PICK b \in Brokers : Ensured(b, FALSE)
            BY <2>1 DEF Start
        <3>. QED BY <3>1, <2>1, EnsuredRevivesNone DEF Start
    <2>2. CASE Reconnect(c)
        <3>1. PICK b \in Brokers : Ensured(b, TRUE)
            BY <2>2 DEF Reconnect
        <3>. QED BY <3>1, <2>2, EnsuredRevivesNone DEF Reconnect
    <2>3. CASE Accept(c)
        <3>1. PICK r \in Job : job' = Append(job, r) /\ ~r.told
            BY <2>3, AcceptAppends
        <3>2. /\ broker' = broker /\ DOMAIN job' = 1..(Len(job) + 1)
              /\ job'[Len(job) + 1] = r /\ \A j \in DOMAIN job : job'[j] = job[j]
            <4>1. job \in Seq(Job) /\ Len(job) \in Nat /\ DOMAIN job = 1..Len(job)
                BY <1>0 DEF JobTypes
            <4>2. broker' = broker
                BY <2>3 DEF Accept
            <4>. QED BY <4>1, <4>2, <3>1
        <3>3. \A j \in DOMAIN job : Waiting(j)' => Waiting(j)
            BY <3>2 DEF Waiting, Alive
        <3>4. \A j \in DOMAIN job' : j \in DOMAIN job \/ j = Len(job) + 1
            BY <3>2, <1>0
        <3>. QED BY <3>1, <3>2, <3>3, <3>4 DEF NoneRevived
    <2>4. CASE LostAfterFlush(c) \/ Delivered(c)
        <3>1. broker' = broker /\ job' = [job EXCEPT ![id(c)].kept = FALSE]
            BY <2>4 DEF LostAfterFlush, Delivered
        <3>2. \A j \in DOMAIN job : /\ job'[j].on = job[j].on /\ job'[j].told = job[j].told
                                    /\ job'[j].state = job[j].state
            BY <3>1, <1>0 DEF Job
        <3>. QED BY <3>1, <3>2 DEF NoneRevived, Waiting, Alive
    <2>5. CASE UNCHANGED <<job, broker>>
        BY <2>5, UntouchedJobs
    <2>. QED BY <2>1, <2>2, <2>3, <2>4, <2>5 DEF CallStep, StartStopped, Top,
             TopStopped, Refuse, Lost, StillWaiting, NoSuchJob, BadAnswer, Reply,
             GivenBack, NoBroker
<1>5. \/ active' = active
      \/ /\ active' = active \ {id(c)}
         /\ \/ at'[c] = "cancelling" /\ id(c)' = id(c)
            \/ \A j \in DOMAIN job : j = id(c) => ~Waiting(j)'
    <2>1. CASE TopStopped(c) \/ BadAnswer(c)
        BY <2>1, <1>0 DEF TopStopped, BadAnswer, Forget, GoTo, CallTypes, id
    <2>2. CASE NoSuchJob(c)
        <3>1. active' = active \ {id(c)} /\ ~job[id(c)].kept
            BY <2>2 DEF NoSuchJob, Forget
        <3>2. \A j \in DOMAIN job : j = id(c) => Over(j) /\ job' = job
            BY <2>2, <3>1 DEF ClientInv, Flushed, NoSuchJob
        <3>. QED BY <3>1, <3>2 DEF Over, Waiting
    <2>3. CASE Delivered(c)
        <3>1. active' = active \ {id(c)} /\ Over(id(c))
              /\ job' = [job EXCEPT ![id(c)].kept = FALSE]
            BY <2>3 DEF Delivered, Forget
        <3>2. \A j \in DOMAIN job : job'[j].state = job[j].state
            BY <3>1, <1>0 DEF Job
        <3>. QED BY <3>1, <3>2 DEF Over, Waiting
    <2>4. CASE active' = active
        BY <2>4
    <2>. QED BY <2>1, <2>2, <2>3, <2>4 DEF CallStep, Start, StartStopped, Top,
             Accept, Refuse, Lost, LostAfterFlush, StillWaiting, Reply,
             GivenBack, Reconnect, NoBroker, commandVars
<1>. QED BY <1>1, <1>2, <1>3, <1>4, <1>5 DEF Plain

\* The answer to a submission.
LEMMA AcceptedKeepsStop ==
    ASSUME ClientInv, StopInv, NEW c \in Calls, Accepted(c)
    PROVE  StopInv'
<1>0. /\ at[c] = "accepted" /\ at' = [at EXCEPT ![c] = "polling"] /\ CallInv(c)
      /\ CallTypes /\ CommandTypes /\ job \in [DOMAIN job -> Job] /\ loc' = loc
      /\ active' = active \cup {id(c)} /\ job' = [job EXCEPT ![id(c)].told = TRUE]
      /\ UNCHANGED <<stop, todo, awaited, failed, rushed, dropped, broker>>
    BY JobsAreNumbered DEF ClientInv, Accepted, GoTo, stopVars
<1>1. id(c) \in DOMAIN job /\ c \in Submitting
    BY <1>0 DEF CallInv, HasJob, CallTypes, Locals, id, Submitting
<1>2. /\ DOMAIN job' = DOMAIN job
      /\ \A j \in DOMAIN job : /\ Waiting(j)' <=> Waiting(j)
                               /\ job'[j].told => job[j].told \/ j = id(c)
    BY <1>0, <1>1 DEF Job, Waiting, Alive
<1>3. \A d \in Calls : at[d] = "cancelling" => at'[d] = "cancelling" /\ id(d)' = id(d)
    BY <1>0 DEF CallTypes, id
<1>4. Phases'
    BY <1>0, <1>3 DEF StopInv, Phases, CommandTypes
<1>5. NoJobForgotten'
    BY <1>0, <1>2, <1>3 DEF StopInv, NoJobForgotten
<1>6. ~(stop \in {"delete", "own", "over"} /\ ~rushed)
    BY <1>1 DEF StopInv, Quiet
<1>. QED BY <1>0, <1>4, <1>5, <1>6 DEF StopInv, Quiet, Cleared

\* The call's own DELETE: the job is cancelled, or the command hears of it.
LEMMA OwnCancelKeepsStop ==
    ASSUME ClientInv, StopInv, NEW c \in Calls, OwnCancel(c)
    PROVE  StopInv'
<1>0. /\ at[c] = "cancelling" /\ CallInv(c) /\ CallTypes /\ CommandTypes
      /\ job \in [DOMAIN job -> Job] /\ awaited' = awaited \ {c}
      /\ UNCHANGED <<active, stop, todo, rushed, broker>>
      /\ failed \subseteq failed' /\ dropped \subseteq dropped'
    BY JobsAreNumbered DEF ClientInv, OwnCancel, Unreported
<1>1. id(c) \in DOMAIN job
    BY <1>0 DEF CallInv, HasJob, CallTypes, Locals, id
<1>2. /\ DOMAIN job' = DOMAIN job
      /\ \A j \in DOMAIN job : Waiting(j)' => Waiting(j)
      /\ \A j \in DOMAIN job : job'[j].told = job[j].told
      /\ \/ \A j \in DOMAIN job : j = id(c) => ~Waiting(j)'
         \/ /\ Stopping => id(c) \in failed'
            /\ id(c) \in failed' \cup dropped'
    <2>1. CASE job' = Cancelled(id(c))
        BY <2>1, <1>0, <1>1 DEF Cancelled, Waiting, Alive, Job
    <2>2. CASE job' = job /\ Unreported(id(c))
        BY <2>2, <1>0 DEF Unreported, Waiting, Alive
    <2>. QED BY <2>1, <2>2 DEF OwnCancel
<1>3. at' \in [Calls -> Where] /\ at'[c] \in {"stopped", "idle", "failed"}
      /\ \A d \in Calls \ {c} : at'[d] = at[d] /\ loc'[d] = loc[d]
    BY <1>0 DEF OwnCancel, Ends, TryAgain, GoTo, Set, CallTypes, Where
<1>4. \A d \in Calls \ {c} : at[d] = "cancelling" => at'[d] = "cancelling" /\ id(d)' = id(d)
    BY <1>3 DEF id
<1>5. Phases'
    BY <1>0, <1>4 DEF StopInv, Phases, CommandTypes
<1>6. NoJobForgotten'
    <2>1. SUFFICES ASSUME NEW j \in DOMAIN job, Waiting(j)', job'[j].told
                   PROVE  \/ j \in active' \cup todo' \cup failed' \cup dropped'
                          \/ \E d \in Calls : id(d)' = j /\ at'[d] = "cancelling"
        BY <1>2 DEF NoJobForgotten
    <2>2. Waiting(j) /\ job[j].told
        BY <2>1, <1>2
    <2>3. CASE j = id(c)
        BY <2>1, <2>3, <1>2
    <2>4. CASE \E d \in Calls \ {c} : id(d) = j /\ at[d] = "cancelling"
        BY <2>4, <1>4
    <2>. QED BY <2>2, <2>3, <2>4, <1>0 DEF StopInv, NoJobForgotten
<1>7. Quiet'
    BY <1>0, <1>3 DEF StopInv, Quiet, Submitting
<1>8. Cleared'
    <2>1. SUFFICES ASSUME stop \in {"own", "over"}, ~rushed,
                          NEW j \in DOMAIN job, Waiting(j)', job'[j].told
                   PROVE  \/ j \in failed' \cup dropped'
                          \/ \E d \in awaited' : id(d)' = j
        BY <1>0, <1>2 DEF Cleared
    <2>2. j \in failed \cup dropped \/ \E d \in awaited : id(d) = j
        BY <2>1, <1>2 DEF StopInv, Cleared
    <2>3. CASE j = id(c)
        BY <2>1, <2>3, <1>2
    <2>4. CASE \E d \in awaited \ {c} : id(d) = j
        BY <2>4, <1>0, <1>4 DEF StopInv, Phases, CommandTypes
    <2>. QED BY <2>2, <2>3, <2>4, <1>0
<1>. QED BY <1>5, <1>6, <1>7, <1>8 DEF StopInv

\* Every step of a call.
LEMMA CallStepKeepsStop ==
    ASSUME ClientInv, StopInv, NEW c \in Calls, CallStep(c)
    PROVE  StopInv'
<1>1. CASE Accepted(c)
    BY <1>1, AcceptedKeepsStop
<1>2. CASE OwnCancel(c)
    BY <1>2, OwnCancelKeepsStop
<1>3. CASE ~Accepted(c) /\ ~OwnCancel(c)
    BY <1>3, MostStepsArePlain, PlainKeeps
<1>. QED BY <1>1, <1>2, <1>3

\* A DELETE of the stop.
LEMMA DeleteKeepsStop ==
    ASSUME ClientInv, StopInv, NEW k \in todo, Delete(k)
    PROVE  StopInv'
<1>0. /\ stop = "delete" /\ todo' = todo \ {k} /\ k \in DOMAIN job
      /\ job \in [DOMAIN job -> Job] /\ failed \subseteq failed'
      /\ UNCHANGED <<at, loc, active, stop, awaited, rushed, dropped, broker>>
    BY JobsAreNumbered DEF ClientInv, CommandTypes, Delete, callVars
<1>1. /\ DOMAIN job' = DOMAIN job
      /\ \A j \in DOMAIN job : Waiting(j)' => Waiting(j)
      /\ \A j \in DOMAIN job : job'[j].told = job[j].told
      /\ ~Waiting(k)' \/ k \in failed'
    <2>1. CASE job' = Cancelled(k)
        BY <2>1, <1>0 DEF Cancelled, Waiting, Alive, Job
    <2>2. CASE job' = job /\ failed' = failed \cup {k}
        BY <2>2, <1>0 DEF Waiting, Alive
    <2>. QED BY <2>1, <2>2 DEF Delete
<1>2. NoJobForgotten'
    <2>1. SUFFICES ASSUME NEW j \in DOMAIN job, Waiting(j)', job'[j].told
                   PROVE  \/ j \in active' \cup todo' \cup failed' \cup dropped'
                          \/ \E d \in Calls : id(d)' = j /\ at'[d] = "cancelling"
        BY <1>1 DEF NoJobForgotten
    <2>2. \/ j \in active \cup todo \cup failed \cup dropped
          \/ \E d \in Calls : id(d) = j /\ at[d] = "cancelling"
        BY <2>1, <1>1 DEF StopInv, NoJobForgotten
    <2>. QED BY <2>1, <2>2, <1>0, <1>1 DEF id
<1>3. Phases' /\ Quiet' /\ Cleared'
    BY <1>0 DEF StopInv, Phases, Quiet, Cleared, Submitting
<1>. QED BY <1>2, <1>3 DEF StopInv

\* The other steps of the stop.
LEMMA PhasesKeepStop ==
    ASSUME ClientInv, StopInv, Expire \/ Snapshot \/ AwaitOwn \/ Report
    PROVE  StopInv'
<1>0. /\ UNCHANGED <<at, loc, broker, job, failed, dropped>>
      /\ CommandTypes
    BY DEF Expire, Snapshot, AwaitOwn, Report, callVars, ClientInv
<1>1. CASE Expire
    <2>1. stop = "no" /\ stop' = "drain" /\ UNCHANGED <<active, todo, awaited, rushed>>
        BY <1>1 DEF Expire
    <2>. QED BY <2>1, <1>0 DEF StopInv, Phases, Quiet, Cleared, NoJobForgotten,
             Waiting, Alive, id
<1>2. CASE Snapshot
    <2>1. /\ stop = "drain" /\ stop' = "delete" /\ todo' = active /\ active' = {}
          /\ awaited' = awaited
          /\ (Drained /\ rushed' = rushed) \/ rushed' = TRUE
        BY <1>2 DEF Snapshot
    <2>2. todo = {}
        BY <2>1 DEF StopInv, Phases
    <2>3. Phases' /\ Cleared'
        BY <2>1, <1>0 DEF StopInv, Phases, Cleared
    <2>4. NoJobForgotten'
        BY <2>1, <2>2, <1>0 DEF StopInv, NoJobForgotten, Waiting, Alive, id
    <2>5. Quiet'
        BY <2>1, <1>0 DEF StopInv, Quiet, Drained, Submitting
    <2>. QED BY <2>3, <2>4, <2>5 DEF StopInv
<1>3. CASE AwaitOwn
    <2>1. /\ stop = "delete" /\ todo = {} /\ stop' = "own" /\ awaited' = OwnCancels
          /\ UNCHANGED <<active, todo, rushed>>
        BY <1>3 DEF AwaitOwn
    <2>2. Phases' /\ Quiet'
        BY <2>1, <1>0 DEF StopInv, Phases, Quiet, OwnCancels, Submitting
    <2>3. NoJobForgotten'
        BY <2>1, <1>0 DEF StopInv, NoJobForgotten, Waiting, Alive, id
    <2>4. Cleared'
        <3>1. SUFFICES ASSUME ~rushed, NEW j \in DOMAIN job, Waiting(j), job[j].told
                       PROVE  \/ j \in failed \cup dropped
                              \/ \E d \in OwnCancels : id(d) = j
            BY <2>1, <1>0 DEF Cleared, Waiting, Alive, id
        <3>2. active = {}
            BY <3>1, <2>1 DEF StopInv, Quiet
        <3>. QED BY <3>1, <3>2, <2>1 DEF StopInv, NoJobForgotten, OwnCancels
    <2>. QED BY <2>2, <2>3, <2>4 DEF StopInv
<1>4. CASE Report
    <2>1. /\ stop = "own" /\ stop' = "over" /\ awaited = {}
          /\ UNCHANGED <<active, todo, awaited, rushed>>
        BY <1>4 DEF Report
    <2>2. Phases' /\ Quiet'
        BY <2>1, <1>0 DEF StopInv, Phases, Quiet, Submitting
    <2>3. NoJobForgotten' /\ Cleared'
        BY <2>1, <1>0 DEF StopInv, NoJobForgotten, Cleared, Waiting, Alive, id
    <2>. QED BY <2>2, <2>3 DEF StopInv
<1>. QED BY <1>1, <1>2, <1>3, <1>4

\* A broker makes no job wait that did not.
LEMMA BrokerStepKeepsStop ==
    ASSUME ClientInv, StopInv, BrokerStep
    PROVE  StopInv'
<1>0. /\ UNCHANGED <<at, loc, active, stop, todo, awaited, failed, rushed, dropped>>
      /\ job \in [DOMAIN job -> Job] /\ CommandTypes
    BY JobsAreNumbered DEF BrokerStep, Release, Finish, Abandon, Drain, Shutdown,
       Gone, client, callVars, commandVars, stopVars, ClientInv
<1>1. /\ DOMAIN job' = DOMAIN job
      /\ \A j \in DOMAIN job : Waiting(j)' => Waiting(j)
      /\ \A j \in DOMAIN job : job'[j].told = job[j].told
    <2>1. CASE \E k \in DOMAIN job : Release(k) \/ Finish(k) \/ Abandon(k)
        <3>1. PICK k \in DOMAIN job, x \in {"open", "done", "failed", "requeued", "cancelled"} :
                  Waiting(k) /\ job' = [job EXCEPT ![k].state = x] /\ broker' = broker
            BY <2>1 DEF Release, Finish, Abandon
        <3>. QED BY <3>1, <1>0 DEF Waiting, Alive, Job
    <2>2. CASE \E b \in Brokers : Drain(b) \/ Gone(b)
        <3>1. PICK b \in Brokers, x \in {"draining", "gone"} :
                  Alive(b) /\ job' = job /\ broker' = [broker EXCEPT ![b] = x]
            BY <2>2 DEF Drain, Gone, Set, Alive
        <3>. QED BY <3>1, <1>0 DEF Waiting, Alive, CommandTypes
    <2>3. CASE \E b \in Brokers : Shutdown(b)
        <3>1. PICK b \in Brokers : Shutdown(b)
            BY <2>3
        <3>2. PICK x \in {"exiting", "leaving"} :
                  Alive(b) /\ broker' = [broker EXCEPT ![b] = x]
            BY <3>1 DEF Shutdown, Set, Alive
        <3>3. job' = [j \in DOMAIN job |->
                         IF job[j].on # b \/ ~Waiting(j) THEN job[j]
                         ELSE [job[j] EXCEPT !.state =
                                   IF @ = "held" THEN "requeued" ELSE "failed"]]
            BY <3>1 DEF Shutdown
        <3>4. \A j \in DOMAIN job : /\ job'[j].on = job[j].on /\ job'[j].told = job[j].told
                                    /\ job'[j].state \in {"open", "held"} =>
                                           job'[j].state = job[j].state
            BY <3>3, <1>0 DEF Job, Waiting
        <3>5. DOMAIN job' = DOMAIN job
            BY <3>3
        <3>. QED BY <3>2, <3>4, <3>5, <1>0 DEF Waiting, Alive, CommandTypes
    <2>. QED BY <2>1, <2>2, <2>3 DEF BrokerStep
<1>2. Phases' /\ Quiet'
    BY <1>0 DEF StopInv, Phases, Quiet, Submitting
<1>3. NoJobForgotten'
    BY <1>0, <1>1 DEF StopInv, NoJobForgotten, id
<1>4. Cleared'
    BY <1>0, <1>1 DEF StopInv, Cleared, id
<1>. QED BY <1>2, <1>3, <1>4 DEF StopInv

\* Every step keeps what the command knows of its jobs.
LEMMA StopStepKeeps == ClientInv /\ StopInv /\ [Next]_vars => StopInv'
<1>. SUFFICES ASSUME ClientInv, StopInv, [Next]_vars PROVE StopInv'
    OBVIOUS
<1>1. CASE Next
    BY <1>1, CallStepKeepsStop, DeleteKeepsStop, PhasesKeepStop, BrokerStepKeepsStop
       DEF Next, StopStep
<1>2. CASE UNCHANGED vars
    BY <1>2 DEF vars, callVars, commandVars, stopVars, StopInv, Phases, Quiet, Cleared,
       NoJobForgotten, Waiting, Alive, id, Submitting
<1>. QED BY <1>1, <1>2

\* The command knows of all its work, in every state of every command.
LEMMA StopInvariant == Spec => []StopInv
<1>1. Init => StopInv
    BY DEF Init, StopInv, Phases, Quiet, Cleared, NoJobForgotten
<1>. QED BY <1>1, StopStepKeeps, ClientInvariant, PTL DEF Spec

\* NoJobForgotten for every command: whatever is lost, retried and moved, a job
\* that waits at a broker and was told of is in active, about to be deleted, or
\* reported.
THEOREM NoneIsForgotten == Spec => []NoJobForgotten
<1>1. StopInv => NoJobForgotten
    BY DEF StopInv
<1>. QED BY <1>1, StopInvariant, PTL

\* StopLeavesNothing for every command: the report of a stop that waited for
\* the submissions names every job it may have left.
THEOREM StopsLeaveNothing == Spec => []StopLeavesNothing
<1>1. ClientInv /\ StopInv => StopLeavesNothing
    BY DEF StopInv, Phases, Cleared, StopLeavesNothing
<1>. QED BY <1>1, ClientInvariant, StopInvariant, PTL
=============================================================================
