---------------------------- MODULE BrokerSpawn ----------------------------
(***************************************************************************)
(* ensureBroker (broker/client.ts): how the commands of one configuration  *)
(* directory find the broker of their version, or ask the one of another   *)
(* version to drain and start their own, under the spawn lock; with the    *)
(* start and the exit of the brokers themselves (broker/server.ts) and the *)
(* state file they write and erase (broker/protocol.ts).                   *)
(*                                                                         *)
(* The lock excludes, and a killed holder's is taken over: AsyncLock has   *)
(* what withAsyncLock really gives.  The memo of an endpoint only skips    *)
(* the call and is left out.                                               *)
(***************************************************************************)
EXTENDS Naturals, FiniteSets

CONSTANTS
    Clients,     \* commands
    VersionOf,   \* the version of llm-ext a command, and a broker it starts, has
    Versions,    \* the versions a broker may have that runs at the start
    Nobody,      \* the lock is free
    MaxBrokers,  \* bound: brokers ever started
    MaxMishaps   \* bound: requests lost, starts given up and clients killed

\* Brokers are numbered as they are started; 0 is no broker.
Numbers == 1 .. MaxBrokers

VARIABLES
    at,        \* [Clients -> place in ensureBroker]
    saw,       \* [Clients -> the broker read from the file, or just started]
    before,    \* [Clients -> the broker the file named before the start]
    lock,      \* the client that holds the spawn lock
    file,      \* the broker that broker-local.json names, or 0
    state,     \* [Numbers -> "none", "starting", "up", "exiting", "erasing", "gone"]
    version,   \* [Numbers -> the version of a broker]
    draining,  \* [Numbers -> was it asked to drain]
    mishaps    \* history: what may have left one more broker open

clientVars == <<at, saw, before, lock>>
brokerVars == <<state, version, draining>>
vars == <<clientVars, file, brokerVars, mishaps>>

Live(b) == b # 0 /\ state[b] \in {"starting", "up", "exiting", "erasing"}
Listening(b) == b # 0 /\ state[b] \in {"up", "exiting", "erasing"}

\* There may be a broker already.
Init ==
    /\ at = [c \in Clients |-> "out"]
    /\ saw = [c \in Clients |-> 0] /\ before = [c \in Clients |-> 0]
    /\ lock = Nobody /\ file \in {0, 1}
    /\ state = [b \in Numbers |-> IF b = file THEN "up" ELSE "none"]
    /\ version \in [Numbers -> Versions \cup {0}]
    /\ \A b \in Numbers : version[b] = 0 <=> b # file
    /\ draining = [b \in Numbers |-> FALSE]
    /\ mishaps = 0

-----------------------------------------------------------------------------
(* usable(), before the lock and again under it.                           *)

GoTo(c, place) == at' = [at EXCEPT ![c] = place]

\* The end of a call, of either kind; the lock is released.
Return(c) ==
    /\ GoTo(c, "out")
    /\ saw' = [saw EXCEPT ![c] = 0] /\ before' = [before EXCEPT ![c] = 0]
    /\ lock' = IF lock = c THEN Nobody ELSE lock

\* Where null leads: to the lock, and under it to a start.
Null(c) ==
    /\ GoTo(c, IF lock = c THEN "start" ELSE "locking")
    /\ saw' = [saw EXCEPT ![c] = 0]
    /\ UNCHANGED <<before, lock>>

\* The state file, and whether its process is alive.
Look(c, then) ==
    /\ GoTo(c, IF Live(file) THEN "asking" ELSE then)
    /\ saw' = [saw EXCEPT ![c] = IF Live(file) THEN file ELSE 0]

Read(c) == /\ at[c] = "out" /\ Look(c, "locking")
           /\ UNCHANGED <<before, lock, file, brokerVars, mishaps>>

\* The process is found to be no broker any more.
NotABroker(c) ==
    /\ at[c] = "asking" /\ ~Live(saw[c])
    /\ Null(c) /\ UNCHANGED <<file, brokerVars, mishaps>>

\* No answer to any health check: the call fails, and no second broker starts.
NoHealth(c) ==
    /\ at[c] = "asking"
    /\ Return(c) /\ UNCHANGED <<file, brokerVars, mishaps>>

\* The broker answers: used, or left alone as it drains.
Healthy(c) ==
    /\ at[c] = "asking" /\ Listening(saw[c])
    /\ \/ draining[saw[c]] /\ Null(c)
       \/ ~draining[saw[c]] /\ version[saw[c]] = VersionOf[c] /\ Return(c)
    /\ UNCHANGED <<file, brokerVars, mishaps>>

\* It is of another version: POST /v1/shutdown, whose failure is ignored.
AskToDrain(c) ==
    /\ at[c] = "asking" /\ Listening(saw[c])
    /\ ~draining[saw[c]] /\ version[saw[c]] # VersionOf[c]
    /\ \/ draining' = [draining EXCEPT ![saw[c]] = TRUE] /\ UNCHANGED mishaps
       \/ /\ mishaps < MaxMishaps /\ mishaps' = mishaps + 1
          /\ UNCHANGED draining
    /\ Null(c) /\ UNCHANGED <<file, state, version>>

-----------------------------------------------------------------------------
(* The start, under the lock.                                              *)

\* With the lock, usable() again.
\* Mutation of SecondLook: none.
NoSecondLook(c) == GoTo(c, "start") /\ UNCHANGED saw
SecondLook(c) == Look(c, "start")

Lock(c) ==
    /\ at[c] = "locking"
    /\ lock \in {Nobody} \cup {h \in Clients : at[h] = "killed"}
    /\ lock' = c /\ SecondLook(c)
    /\ UNCHANGED <<before, file, brokerVars, mishaps>>

LockTimesOut(c) ==
    /\ at[c] = "locking" /\ lock # Nobody
    /\ Return(c) /\ UNCHANGED <<file, brokerVars, mishaps>>

Start(c) ==
    /\ at[c] = "start"
    /\ \E b \in Numbers :
         /\ state[b] = "none" /\ \A k \in Numbers : k < b => state[k] # "none"
         /\ state' = [state EXCEPT ![b] = "starting"]
         /\ version' = [version EXCEPT ![b] = VersionOf[c]]
         /\ saw' = [saw EXCEPT ![c] = b]
    /\ before' = [before EXCEPT ![c] = file]
    /\ GoTo(c, "waiting")
    /\ UNCHANGED <<lock, file, draining, mishaps>>

\* The file names the broker that was started.
Arrived(c) ==
    Listening(file) /\ file # before[c] /\ version[file] = VersionOf[c]

Started(c) ==
    /\ at[c] = "waiting" /\ Arrived(c)
    /\ Return(c) /\ UNCHANGED <<file, brokerVars, mishaps>>

\* START_WAIT_MS is over: the call fails.  The broker may still come up.
GiveUp(c) ==
    /\ at[c] = "waiting"
    /\ \/ state[saw[c]] # "starting" /\ UNCHANGED mishaps
       \/ /\ state[saw[c]] = "starting"
          /\ mishaps < MaxMishaps /\ mishaps' = mishaps + 1
    /\ Return(c) /\ UNCHANGED <<file, brokerVars>>

\* A command is killed with the lock in its hand.  (Without it, it is as if its
\* call had ended.)
Kill(c) ==
    /\ lock = c /\ at[c] # "killed" /\ mishaps < MaxMishaps
    /\ GoTo(c, "killed") /\ mishaps' = mishaps + 1
    /\ saw' = [saw EXCEPT ![c] = 0] /\ before' = [before EXCEPT ![c] = 0]
    /\ UNCHANGED <<lock, file, brokerVars>>

-----------------------------------------------------------------------------
(* The brokers.                                                            *)

SetState(b, s) == /\ state' = [state EXCEPT ![b] = s]
                  /\ UNCHANGED <<version, draining>>

\* Nothing of a process that is gone matters any more.
Leave(b) == /\ state' = [state EXCEPT ![b] = "gone"]
            /\ version' = [version EXCEPT ![b] = 0]
            /\ draining' = [draining EXCEPT ![b] = FALSE]

\* It listens, then writes its state file.
ComeUp(b) ==
    /\ state[b] = "starting" /\ SetState(b, "up") /\ file' = b
    /\ UNCHANGED <<clientVars, mishaps>>

\* shutdown: drained, idle or told by a signal; until http.close it answers.
Exit(b) ==
    /\ state[b] = "up" /\ SetState(b, "exiting")
    /\ UNCHANGED <<clientVars, file, mishaps>>

\* removeBrokerStateIfOwn: reads the file, then removes it if it was its own.
ReadOwn(b) ==
    /\ state[b] = "exiting"
    /\ IF file = b THEN SetState(b, "erasing") ELSE Leave(b)
    /\ UNCHANGED <<clientVars, file, mishaps>>

\* What is removed is the file that is there by now.
Erase(b) ==
    /\ state[b] = "erasing" /\ Leave(b) /\ file' = 0
    /\ mishaps' = IF file \in {0, b} THEN mishaps ELSE mishaps + 1
    /\ UNCHANGED clientVars

\* Killed, or it cannot start: the file keeps its name.
Die(b) ==
    /\ state[b] \in {"starting", "up"} /\ Leave(b)
    /\ UNCHANGED <<clientVars, file, mishaps>>

-----------------------------------------------------------------------------

Next ==
    \/ \E c \in Clients :
         \/ Read(c) \/ NotABroker(c) \/ NoHealth(c) \/ Healthy(c)
         \/ AskToDrain(c) \/ Lock(c) \/ LockTimesOut(c) \/ Start(c)
         \/ Started(c) \/ GiveUp(c) \/ Kill(c)
    \/ \E b \in Numbers :
         ComeUp(b) \/ Exit(b) \/ ReadOwn(b) \/ Erase(b) \/ Die(b)

Spec == Init /\ [][Next]_vars

-----------------------------------------------------------------------------

\* The brokers that take, or will take, jobs for long.
Open == {b \in Numbers : ~draining[b] /\ state[b] \in {"starting", "up"}}

TypeOK ==
    /\ at \in [Clients -> {"out", "asking", "locking", "start", "waiting",
                           "killed"}]
    /\ saw \in [Clients -> 0 .. MaxBrokers]
    /\ before \in [Clients -> 0 .. MaxBrokers]
    /\ lock \in Clients \cup {Nobody} /\ file \in 0 .. MaxBrokers
    /\ state \in [Numbers -> {"none", "starting", "up", "exiting", "erasing",
                              "gone"}]
    /\ draining \in [Numbers -> BOOLEAN] /\ mishaps \in Nat

\* "Two commands find no broker" and one is started; one of another version is
\* asked to drain first.  There is one open broker, of whatever version, and at
\* most one more for each time a drain request was lost, a start outlasted its
\* wait, a command was killed, or a broker that exited erased the file of its
\* successor.
OneOpenBroker == Cardinality(Open) <= 1 + mishaps
=============================================================================
