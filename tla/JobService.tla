----------------------------- MODULE JobService -----------------------------
(***************************************************************************)
(* What the broker promises about a job, whatever server it takes: a job   *)
(* waits, is sent to the model at most once, and then has one outcome,     *)
(* which stays until the job is forgotten.  The requests in flight are for *)
(* one model and at most as many as its server has slots; a job that was   *)
(* cancelled keeps its slot until its request ends.                        *)
(*                                                                         *)
(* The promise is for a service that is open.  What a broker that is       *)
(* exiting does to the jobs it still has is not said here: see             *)
(* QueueFinished in Broker.                                                *)
(***************************************************************************)
EXTENDS FiniteSets, Integers

CONSTANTS Jobs, Models, ModelOf, Slots

VARIABLES job,        \* what the client of each job may be told
          executing,  \* the jobs that occupy a slot
          open        \* the service accepts and serves jobs

vars == <<job, executing, open>>

\* How a job may end: without having been sent, and once it was sent.
Unserved == {"failed", "cancelled", "requeued"}
Served == {"done", "failed", "cancelled"}
Ended == Unserved \cup Served

JobStates == {"new", "posting", "waiting", "running"} \cup Ended

Init ==
    /\ job = [j \in Jobs |-> "new"]
    /\ executing = {}
    /\ open = TRUE

\* A waiting job may end unserved in any step: its model cannot be loaded, its
\* calibration failed, its client is gone.
Dropped(j) == \/ job'[j] = job[j]
              \/ job[j] = "waiting" /\ job'[j] \in Unserved

Drop ==
    /\ job' \in [Jobs -> JobStates]
    /\ \A j \in Jobs : Dropped(j)
    /\ UNCHANGED executing

Ask(i) ==
    /\ job[i] = "new" /\ i \notin executing
    /\ job' = [job EXCEPT ![i] = "posting"]
    /\ UNCHANGED executing

\* The submission is answered: it waits, or was refused.
Accept(i) ==
    /\ job[i] = "posting"
    /\ job' \in [Jobs -> JobStates]
    /\ job'[i] \in {"waiting", "failed"}
    /\ \A j \in Jobs \ {i} : Dropped(j)
    /\ UNCHANGED executing

\* The one time a job is sent.
Start(i) ==
    /\ job[i] = "waiting" /\ i \notin executing
    /\ Cardinality(executing) < Slots
    /\ \A j \in executing : ModelOf[j] = ModelOf[i]
    /\ job' = [job EXCEPT ![i] = "running"]
    /\ executing' = executing \cup {i}

\* Its request ends: the outcome is the job's, unless it was cancelled.
Answer(i) ==
    /\ i \in executing
    /\ executing' = executing \ {i}
    /\ job' \in IF job[i] = "running"
                THEN {[job EXCEPT ![i] = end] : end \in {"done", "failed"}}
                ELSE {job}

Cancel(i) ==
    /\ job[i] \in {"waiting", "running"}
    /\ job' = [job EXCEPT ![i] = "cancelled"]
    /\ UNCHANGED executing

Forget(i) ==
    /\ job[i] \in Ended /\ i \notin executing
    /\ job' = [job EXCEPT ![i] = "new"]
    /\ UNCHANGED executing

Serve == Drop \/ \E i \in Jobs : \/ Ask(i) \/ Accept(i) \/ Start(i)
                                 \/ Answer(i) \/ Cancel(i) \/ Forget(i)

\* The service stops: every job it still has ends, whether it was sent or not.
Close ==
    /\ open' = FALSE
    /\ executing' = {}
    /\ job' \in [Jobs -> JobStates]
    /\ \A j \in Jobs :
         IF job[j] \in {"waiting", "running"}
         THEN job'[j] \in {"failed", "requeued"}
         ELSE job'[j] = job[j]

Next == \/ open /\ (Close \/ (Serve /\ UNCHANGED open))
        \/ ~open /\ UNCHANGED open

Spec == Init /\ [][Next]_vars
=============================================================================
