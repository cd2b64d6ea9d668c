---------------------------- MODULE BrokerClient ----------------------------
(***************************************************************************)
(* The side of the command process (broker/client.ts): its concurrent      *)
(* calls submit jobs, poll them, follow a broker that gives a job back,    *)
(* try again after a network failure, and are stopped by --command_timeout *)
(* while requests are in flight.  The brokers are the few handlers those   *)
(* requests meet; brokers are numbered in the order they start.            *)
(***************************************************************************)
EXTENDS FiniteSets, Integers, Sequences

CONSTANTS Calls, None,
          MaxBrokers,    \* bound: brokers ever started
          MaxJobs,       \* bound: jobs ever accepted
          MaxLosses,     \* bound: requests and replies lost
          MaxRetries,    \* MAX_TRUNCATION_RETRIES
          MaxRequeues    \* MAX_REQUEUES

Brokers == 1..MaxBrokers
Jobs == 1..MaxJobs

ASSUME ClientAssumption ==
    /\ {MaxBrokers, MaxJobs, MaxLosses, MaxRetries, MaxRequeues} \subseteq Nat
    /\ None \notin Brokers \cup Jobs

VARIABLES
    \* the calls of the command
    at,         \* where each call is
    tries,      \* its failed attempts
    loc,        \* the locals of brokerExchange in each
    pend,       \* pendingByScope: for each call and broker a job, or None
    \* the command process
    memo,       \* known: the broker it last used, or None
    active,     \* the jobs it has at a broker and has not seen finish
    stop,       \* where cancelAllBrokerJobs is
    todo,       \* the jobs it has yet to DELETE
    awaited,    \* the calls whose own DELETE it waits for
    failed,     \* the jobs it reports as not cancelled
    rushed,     \* its wait for the submissions ran into SUBMIT_DRAIN_MS
    dropped,    \* jobs whose own DELETE failed before the stop
    \* the brokers and the network
    broker, job, losses

callVars == <<at, tries, loc, pend>>
stopVars == <<stop, todo, awaited, failed, rushed, dropped>>
commandVars == <<active, stopVars>>
vars == <<callVars, commandVars, memo, broker, job, losses>>

Alive(b) == broker[b] \in {"up", "draining", "exiting", "leaving"}
Waiting(j) == job[j].state \in {"open", "held"} /\ Alive(job[j].on)
Over(j) == job[j].state \in {"done", "failed", "cancelled", "requeued"}
id(c) == loc[c].id     \* the job the call waits for, or None
cur(c) == loc[c].cur   \* the broker it talks to
Submitting == {c \in Calls : at[c] \in {"posting", "accepted"}}
Ended(c) == at[c] \in {"ok", "failed", "stopped"}
Stopping == stop # "no"
GoTo(c, where) == at' = [at EXCEPT ![c] = where]
Set(f, c, x) == [f EXCEPT ![c] = x]

\* ep is the broker the attempt began with.
NoLocals == [ep |-> None, cur |-> None, id |-> None,
             resubmits |-> 0, requeues |-> 0]

Init ==
    /\ at = [c \in Calls |-> "idle"]
    /\ tries = [c \in Calls |-> 0]
    /\ loc = [c \in Calls |-> NoLocals]
    /\ pend = [c \in Calls |-> [b \in Brokers |-> None]]
    /\ memo = None /\ active = {}
    /\ stop = "no" /\ todo = {} /\ awaited = {} /\ failed = {}
    /\ rushed = FALSE /\ dropped = {}
    /\ broker = [b \in Brokers |-> "none"]
    /\ job = <<>>
    /\ losses = 0

-----------------------------------------------------------------------------
(* Connections *)

Started == {b \in Brokers : broker[b] # "none"}
Latest == Cardinality(Started)
Startable == Latest < MaxBrokers

\* usable: the broker of the state file, the latest, says of itself that it
\* drains; that it exits for another reason it does not say.
Usable == {b \in {Latest} \cap Brokers : broker[b] \in {"up", "exiting"}}

\* ensureBroker: the remembered broker while its pid lives, whether or not it
\* drains; fresh looks at its state.
Ensured(b, fresh) ==
    IF ~fresh /\ memo # None /\ Alive(memo)
      THEN b = memo /\ UNCHANGED <<memo, broker>>
      ELSE /\ IF Usable # {} THEN b \in Usable /\ UNCHANGED broker
                             ELSE b = Latest + 1 /\ broker' = Set(broker, b, "up")
           /\ memo' = b

\* An attempt: the connection, and the job its key remembers.
Start(c) ==
    /\ at[c] = "idle" /\ ~Stopping
    /\ \E b \in Brokers :
           /\ Ensured(b, FALSE)
           /\ loc' = [loc EXCEPT ![c].ep = b, ![c].cur = b,
                                 ![c].id = pend[c][b]]
    /\ GoTo(c, "top")
    /\ UNCHANGED <<tries, pend, commandVars, job, losses>>

\* sendChat after the stop starts no request.
StartStopped(c) ==
    /\ at[c] = "idle" /\ Stopping
    /\ GoTo(c, "stopped")
    /\ UNCHANGED <<tries, loc, pend, commandVars, memo, broker, job, losses>>

Ends(c, how) == GoTo(c, how) /\ loc' = Set(loc, c, NoLocals)

\* An attempt ended without a result: another one, or the call fails.
TryAgain(c) ==
    /\ tries' = Set(tries, c, tries[c] + 1)
    /\ Ends(c, IF tries[c] < MaxRetries THEN "idle" ELSE "failed")

-----------------------------------------------------------------------------
(* The loop of brokerExchange *)

\* Mutation of Remembered: every attempt has a key of its own.
NotRemembered(c, j) == pend

\* pendingByScope, whose key has the broker the attempt began with.
Remembered(c, j) == [pend EXCEPT ![c][loc[c].ep] = j]

\* pending.delete and active.delete.
Forget(c) == pend' = [pend EXCEPT ![c][loc[c].ep] = None]
             /\ active' = active \ {id(c)}

\* Mutation of Thrown: the stop is looked at before the first submission only.
NeverThrown == FALSE

\* throwIfStopped at the top of the loop.
Thrown == Stopping

\* A job the call still has is cancelled in the finally.
TopStopped(c) ==
    /\ at[c] = "top" /\ Thrown
    /\ IF id(c) = None
         THEN Ends(c, "stopped") /\ UNCHANGED <<pend, active>>
         ELSE GoTo(c, "cancelling") /\ Forget(c) /\ UNCHANGED loc
    /\ UNCHANGED <<tries, stopVars, memo, broker, job, losses>>

Top(c) ==
    /\ at[c] = "top" /\ ~Thrown
    /\ GoTo(c, IF id(c) = None THEN "posting" ELSE "polling")
    /\ UNCHANGED <<tries, loc, pend, commandVars, memo, broker, job, losses>>

\* POST /v1/jobs: the broker takes the job; its 202 is under way.
Accept(c) ==
    /\ at[c] = "posting" /\ broker[cur(c)] = "up" /\ Len(job) < MaxJobs
    /\ \E s \in {"open", "held"} :
           job' = Append(job, [on |-> cur(c), key |-> loc[c].ep, call |-> c,
                               state |-> s, told |-> FALSE, kept |-> TRUE])
    /\ loc' = [loc EXCEPT ![c].id = Len(job')]
    /\ GoTo(c, "accepted")
    /\ UNCHANGED <<tries, pend, commandVars, memo, broker, losses>>

\* 503: BrokerUnavailableError, tried again as any other error.  (So is a job
\* too many for the bound.)
Refuse(c) ==
    /\ at[c] = "posting" /\ Alive(cur(c))
    /\ broker[cur(c)] # "up" \/ Len(job) = MaxJobs
    /\ TryAgain(c)
    /\ UNCHANGED <<pend, commandVars, memo, broker, job, losses>>

\* The job is known from here on, to the call and to the command.
Accepted(c) ==
    /\ at[c] = "accepted"
    /\ active' = active \cup {id(c)}
    /\ pend' = Remembered(c, id(c))
    /\ job' = [job EXCEPT ![id(c)].told = TRUE]
    /\ GoTo(c, "polling")
    /\ UNCHANGED <<tries, loc, stopVars, memo, broker, losses>>

\* What may be lost, up to the bound; where the broker is gone everything is.
MayLose(b) == IF Alive(b) THEN losses < MaxLosses /\ losses' = losses + 1
                          ELSE UNCHANGED losses

\* A network failure, of a request or of its reply: what is pending stays so.
Lost(c) ==
    /\ at[c] \in {"posting", "accepted", "polling"}
    /\ MayLose(cur(c))
    /\ TryAgain(c)
    /\ UNCHANGED <<pend, commandVars, memo, broker, job>>

\* The reply of a finished job is flushed and then lost: the broker has
\* forgotten the job, the client will poll it again.
LostAfterFlush(c) ==
    /\ at[c] = "polling" /\ Alive(cur(c)) /\ MayLose(cur(c))
    /\ Over(id(c)) /\ job[id(c)].kept
    /\ job' = [job EXCEPT ![id(c)].kept = FALSE]
    /\ TryAgain(c)
    /\ UNCHANGED <<pend, commandVars, memo, broker>>

\* 204: the job is as it was, and the loop begins again.
StillWaiting(c) ==
    /\ at[c] = "polling" /\ Waiting(id(c))
    /\ GoTo(c, "top")
    /\ UNCHANGED <<tries, loc, pend, commandVars, memo, broker, job, losses>>

MaxResubmits == 1

\* 404: the work is submitted again, once.
NoSuchJob(c) ==
    /\ at[c] = "polling" /\ Alive(cur(c)) /\ ~job[id(c)].kept
    /\ Forget(c)
    /\ IF loc[c].resubmits < MaxResubmits
         THEN /\ GoTo(c, "top")
              /\ loc' = [loc EXCEPT ![c].id = None, ![c].resubmits = @ + 1]
              /\ UNCHANGED tries
         ELSE TryAgain(c)
    /\ UNCHANGED <<stopVars, memo, broker, job, losses>>

\* Any other answer is the broker failing: the call cancels its job itself.
BadAnswer(c) ==
    /\ at[c] = "polling" /\ Alive(cur(c)) /\ MayLose(cur(c))
    /\ Forget(c)
    /\ GoTo(c, "cancelling")
    /\ UNCHANGED <<tries, loc, stopVars, memo, broker, job>>

\* 200, and the broker forgets the job.
Delivered(c) ==
    /\ at[c] = "polling" /\ Alive(cur(c))
    /\ Over(id(c)) /\ job[id(c)].kept
    /\ job' = [job EXCEPT ![id(c)].kept = FALSE]
    /\ Forget(c)
    /\ UNCHANGED <<stopVars, memo, broker, losses>>

\* A result ends the call; a job that failed or was cancelled is never tried
\* again.
Reply(c) ==
    /\ Delivered(c)
    /\ \/ job[id(c)].state = "done" /\ Ends(c, "ok")
       \/ job[id(c)].state = "failed" /\ Ends(c, "failed")
       \/ /\ job[id(c)].state = "cancelled"
          /\ Ends(c, IF Stopping THEN "stopped" ELSE "failed")
    /\ UNCHANGED tries

\* A job given back is submitted to the current broker.
GivenBack(c) ==
    /\ Delivered(c) /\ job[id(c)].state = "requeued"
    /\ IF loc[c].requeues < MaxRequeues
         THEN /\ GoTo(c, "reconnect")
              /\ loc' = [loc EXCEPT ![c].id = None, ![c].requeues = @ + 1]
              /\ UNCHANGED tries
         ELSE TryAgain(c)

\* It may be the same broker, where the job was given back because the client
\* had been suspended.
Reconnect(c) ==
    /\ at[c] = "reconnect"
    /\ \E b \in Brokers : /\ Ensured(b, TRUE)
                          /\ loc' = [loc EXCEPT ![c].cur = b]
    /\ GoTo(c, "top")
    /\ UNCHANGED <<tries, pend, commandVars, job, losses>>

\* No broker can be started any more: BrokerUnavailableError.
NoBroker(c) ==
    /\ at[c] = "reconnect" \/ (at[c] = "idle" /\ ~Stopping)
    /\ Usable = {} /\ ~Startable
    /\ at[c] = "idle" => memo = None \/ ~Alive(memo)
    /\ TryAgain(c)
    /\ UNCHANGED <<pend, commandVars, memo, broker, job, losses>>

-----------------------------------------------------------------------------
(* DELETE *)

\* The broker ends the job, or answers 404.
Cancelled(j) == IF Waiting(j) THEN [job EXCEPT ![j].state = "cancelled"] ELSE job

\* Mutation of Unreported: the stop does not hear of a call's failed DELETE.
Silent(j) == UNCHANGED <<failed, dropped>>

\* A DELETE the broker did not confirm, once the command is stopping.
Unreported(j) == IF Stopping THEN failed' = failed \cup {j} /\ UNCHANGED dropped
                             ELSE dropped' = dropped \cup {j} /\ UNCHANGED failed

\* The finally of brokerExchange.
OwnCancel(c) ==
    /\ at[c] = "cancelling"
    /\ \/ /\ Alive(cur(c))
          /\ job' = Cancelled(id(c))
          /\ UNCHANGED <<losses, failed, dropped>>
       \/ /\ MayLose(cur(c))
          /\ Unreported(id(c))
          /\ UNCHANGED job
    /\ awaited' = awaited \ {c}
    /\ IF Stopping THEN Ends(c, "stopped") /\ UNCHANGED tries ELSE TryAgain(c)
    /\ UNCHANGED <<pend, active, stop, todo, rushed, memo, broker>>

\* --command_timeout.
Expire ==
    /\ stop = "no"
    /\ stop' = "drain"
    /\ UNCHANGED <<callVars, active, todo, awaited, failed, rushed, dropped,
                   memo, broker, job, losses>>

\* Mutation of Drained: the submissions in flight are not waited for.
NotWaitedFor == TRUE

Drained == Submitting = {}

\* The jobs of active, once the submissions ended or took too long.
Snapshot ==
    /\ stop = "drain"
    /\ \/ Drained /\ UNCHANGED <<rushed, losses>>
       \/ losses < MaxLosses /\ losses' = losses + 1 /\ rushed' = TRUE
    /\ todo' = active /\ active' = {}
    /\ stop' = "delete"
    /\ UNCHANGED <<callVars, awaited, failed, dropped, memo, broker, job>>

Delete(j) ==
    /\ stop = "delete" /\ j \in todo
    /\ \/ /\ Alive(job[j].on)
          /\ job' = Cancelled(j)
          /\ UNCHANGED <<losses, failed>>
       \/ /\ MayLose(job[j].on)
          /\ failed' = failed \cup {j}
          /\ UNCHANGED job
    /\ todo' = todo \ {j}
    /\ UNCHANGED <<callVars, active, stop, awaited, rushed, dropped, memo,
                   broker>>

OwnCancels == {c \in Calls : at[c] = "cancelling"}

AwaitOwn ==
    /\ stop = "delete" /\ todo = {}
    /\ awaited' = OwnCancels
    /\ stop' = "own"
    /\ UNCHANGED <<callVars, active, todo, failed, rushed, dropped, memo, broker,
                   job, losses>>

Report ==
    /\ stop = "own" /\ awaited = {}
    /\ stop' = "over"
    /\ UNCHANGED <<callVars, active, todo, awaited, failed, rushed, dropped,
                   memo, broker, job, losses>>

-----------------------------------------------------------------------------
(* The brokers *)

client == <<callVars, commandVars, memo, losses>>

\* A job is calibrated for, ends, or is dropped because nobody polls it.
Release(j) ==
    /\ Waiting(j) /\ job[j].state = "held"
    /\ job' = [job EXCEPT ![j].state = "open"]
    /\ UNCHANGED <<client, broker>>

Finish(j) ==
    /\ Waiting(j) /\ job[j].state = "open"
    /\ \E s \in {"done", "failed"} : job' = [job EXCEPT ![j].state = s]
    /\ UNCHANGED <<client, broker>>

Abandon(j) ==
    /\ Waiting(j)
    /\ \A c \in Calls : id(c) = j => at[c] \notin {"top", "polling"}
    /\ job' = [job EXCEPT ![j].state =
                   IF @ = "held" THEN "requeued" ELSE "cancelled"]
    /\ UNCHANGED <<client, broker>>

\* A client of another version asked for a handover.
Drain(b) ==
    /\ broker[b] = "up"
    /\ broker' = Set(broker, b, "draining")
    /\ UNCHANGED <<client, job>>

\* shutdown: queued and running jobs fail, held jobs are given back.
Shutdown(b) ==
    /\ broker[b] \in {"up", "draining"}
    /\ broker' = Set(broker, b, IF broker[b] = "up" THEN "exiting" ELSE "leaving")
    /\ job' = [j \in DOMAIN job |->
                  IF job[j].on # b \/ ~Waiting(j) THEN job[j]
                  ELSE [job[j] EXCEPT !.state =
                            IF @ = "held" THEN "requeued" ELSE "failed"]]
    /\ UNCHANGED client

Gone(b) ==
    /\ Alive(b)
    /\ broker' = Set(broker, b, "gone")
    /\ UNCHANGED <<client, job>>

CallStep(c) ==
    \/ Start(c) \/ StartStopped(c) \/ Top(c) \/ TopStopped(c) \/ Accept(c)
    \/ Refuse(c) \/ Accepted(c) \/ Lost(c) \/ LostAfterFlush(c)
    \/ StillWaiting(c) \/ NoSuchJob(c) \/ BadAnswer(c) \/ Reply(c)
    \/ GivenBack(c) \/ Reconnect(c) \/ NoBroker(c) \/ OwnCancel(c)

StopStep == Snapshot \/ (\E j \in todo : Delete(j)) \/ AwaitOwn \/ Report

BrokerStep ==
    \/ \E j \in DOMAIN job : Release(j) \/ Finish(j) \/ Abandon(j)
    \/ \E b \in Brokers : Drain(b) \/ Shutdown(b) \/ Gone(b)

Next == (\E c \in Calls : CallStep(c)) \/ Expire \/ StopStep \/ BrokerStep

Spec == Init /\ [][Next]_vars

\* A request is answered or fails, and the command's own code goes on; that a
\* job ends is not assumed.
Fairness == (\A c \in Calls : WF_vars(CallStep(c))) /\ WF_vars(StopStep)

FairSpec == Spec /\ Fairness

-----------------------------------------------------------------------------

JobsOf(c) == {j \in DOMAIN job : job[j].call = c}

Job == [on : Brokers, key : Brokers, call : Calls, told : BOOLEAN, kept : BOOLEAN,
        state : {"open", "held", "done", "failed", "cancelled", "requeued"}]

\* The types, and that a call posts with no job and polls with one.
TypeOK ==
    /\ at \in [Calls -> {"idle", "top", "posting", "accepted", "polling",
                         "reconnect", "cancelling", "ok", "failed", "stopped"}]
    /\ tries \in [Calls -> 0..(MaxRetries + 1)]
    /\ loc \in [Calls -> [ep : Brokers \cup {None}, cur : Brokers \cup {None},
                         id : DOMAIN job \cup {None},
                         resubmits : 0..MaxResubmits, requeues : 0..MaxRequeues]]
    /\ pend \in [Calls -> [Brokers -> DOMAIN job \cup {None}]]
    /\ memo \in Brokers \cup {None}
    /\ active \subseteq DOMAIN job /\ todo \subseteq DOMAIN job
    /\ stop \in {"no", "drain", "delete", "own", "over"}
    /\ awaited \subseteq Calls
    /\ failed \subseteq DOMAIN job /\ dropped \subseteq DOMAIN job
    /\ rushed \in BOOLEAN
    /\ broker \in [Brokers -> {"none", "up", "draining", "exiting", "leaving",
                               "gone"}]
    /\ job \in Seq(Job) /\ Len(job) <= MaxJobs
    /\ losses \in 0..MaxLosses
    /\ \A c \in Calls : at[c] \in {"accepted", "polling", "cancelling"}
                        <=> id(c) # None /\ at[c] # "top"

\* The command never loses sight of a job it was told of: as long as the job
\* waits at a broker it is in active, or its DELETE is under way or reported.
NoJobForgotten ==
    \A j \in DOMAIN job :
        Waiting(j) /\ job[j].told
        => \/ j \in active \cup todo \cup failed \cup dropped
           \/ \E c \in Calls : id(c) = j /\ at[c] = "cancelling"

\* "so none of them is left in the broker queue": once --command_timeout has
\* reported, a job that still waits is one the report names, whose 202 never
\* came, whose own DELETE had failed before the stop, or whose POST took
\* longer than SUBMIT_DRAIN_MS.
StopLeavesNothing ==
    stop = "over" /\ ~rushed
    => \A j \in DOMAIN job :
           Waiting(j) /\ job[j].told => j \in failed \cup dropped

\* A new submission while job j of the call, known to the command, waits.
Twin(c, j) == /\ at[c] = "posting" /\ at'[c] = "accepted"
              /\ Waiting(j) /\ j \in active /\ job[j].call = c

\* No attempt queues a twin beside the job the command knows of, unless that
\* job is at another broker, or was moved to it by a reconnect.
TwinOnlyAfterMove ==
    [][\A c \in Calls, j \in DOMAIN job :
           Twin(c, j) => job[j].on # cur(c) \/ job[j].key # job[j].on]_vars

\* "requeued makes the client find (or start) the current broker and submit it
\* again [...] Never a failure": where nothing is lost and a broker can still
\* be started, a call whose job was given back goes on.
GivenBackNeverFails ==
    losses = 0 /\ Startable
    => \A c \in Calls :
           JobsOf(c) # {} /\ (\A j \in JobsOf(c) : job[j].state = "requeued")
           => at[c] # "failed"

\* A stopped command ends, also while a model is calibrated for hours or a
\* broker never finishes a job: every call ends, and the report is made.
StopEndsCalls ==
    Stopping ~> stop = "over" /\ \A c \in Calls : Ended(c)
=============================================================================
