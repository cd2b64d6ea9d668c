--------------------------- MODULE BrokersProofs ----------------------------
(*****************************************************************************)
(* Proofs about the broker process, and about how commands come by it.       *)
(*                                                                           *)
(* Of Broker, for any jobs, models, slots and MaxStale: its types, the four  *)
(* invariants about the one server, the three action properties about jobs,  *)
(* and that it implements JobService.  The inductive invariant says, for     *)
(* every place of swapTo and of shutdown, which server process can be        *)
(* running: that is what review M4 and M5 were about, and nothing in the     *)
(* code states it.                                                           *)
(*****************************************************************************)
EXTENDS Brokers, FiniteSetTheorems, TLAPS

\* A server process that runs is the one the broker uses or stops, or the one
\* swapTo has in hand; none runs when a new one is about to start.
ServerKnown ==
    /\ stopping # NoModel => server = NoModel
    /\ swap.at \in {"off", "unload", "check", "stale", "unreadable"}
         => procs \subseteq {server, stopping}
    /\ swap.at \in {"sweep", "claim"} => procs = {}
    /\ swap.at \in {"load", "abort"} => procs \subseteq {swap.key}
    /\ swap.at \notin {"off", "check"} => server = NoModel
    /\ swap.at \in {"sweep", "claim", "load"} => stopping = NoModel
    /\ swap.at = "check" => {server, stopping} \subseteq {NoModel, swap.key}
    /\ swap.at = "check" /\ ~exiting => server = swap.key

\* A swap starts when no request is in flight, and none starts during it.
SwapAlone ==
    /\ swap.at = "off" => swap = NoSwap
    /\ swap.at # "off" => swap.key \in Models /\ running = {}
    /\ swap.at = "unload" => swap.waits
    /\ swap.at \in {"sweep", "claim", "load"} => ~swap.waits
    /\ \A j \in running : server \in {NoModel, ModelOf[j]}
    /\ exiting => running = {}

\* pump is synchronous: what it looked at holds until it returns.
PumpAlone ==
    /\ turn \in {"rotate", "fill", "rest"} => ~PumpBlocked
    /\ turn = "fill" => server # NoModel

\* What shutdown has left to stop.
ShutdownSees ==
    /\ shutdown.at = "stop" => server = NoModel
    /\ shutdown.at = "claim" =>
         /\ server = NoModel /\ stopping = NoModel
         /\ swap.at \in {"claim", "abort", "off"}
         /\ swap.at # "off" => swap.key = shutdown.key
    /\ shutdown.at = "kill" =>
         /\ procs \subseteq {shutdown.key}
         /\ swap.at \notin {"unload", "sweep", "claim"}
    /\ gone => procs = {}

Control == ServerKnown /\ SwapAlone /\ PumpAlone /\ ShutdownSees
           /\ CurrentIsServer

IInv == TypeOK /\ Control

-----------------------------------------------------------------------------

\* swapTo after the stop of the old server: the end, or the sweep.
LEMMA UnloadedGoesOn ==
    ASSUME Unloaded
    PROVE  \/ swap' = NoSwap /\ turn' = "pump"
           \/ /\ swap' = [swap EXCEPT !.at = "sweep", !.waits = FALSE]
              /\ turn' = turn
<1>. QED BY DEF Unloaded, SwapEnds

\* swapTo after a record that matched: the end, or the catch clause.
LEMMA MatchesGoesOn ==
    ASSUME Matches
    PROVE  \/ /\ server = NoModel /\ turn' = turn
              /\ swap' = [swap EXCEPT !.at = "abort"]
           \/ server # NoModel /\ swap' = NoSwap /\ turn' = "pump"
<1>. QED BY DEF Matches, SwapEnds

\* One step keeps the types, and each job where its state says.
LEMMA TypeStep == IInv /\ [Next]_vars => TypeOK'
<1>. SUFFICES ASSUME IInv, [Next]_vars PROVE TypeOK'
    OBVIOUS
<1>. USE BrokerAssumption DEF IInv, TypeOK, Final, NoSwap, exiting, jobVars,
         serverVars, exitVars, recordVars
<1>1. ASSUME NEW j \in Jobs, Post(j) PROVE TypeOK'
    BY <1>1 DEF Post
<1>2. ASSUME NEW j \in Jobs, Body(j) PROVE TypeOK'
    BY <1>2 DEF Body, Free, gone, Overtaken, Released, GivenUp, Verdict
<1>3. ASSUME NEW j \in Jobs, Cancel(j) PROVE TypeOK'
    BY <1>3 DEF Cancel
<1>4. ASSUME NEW j \in Jobs, Forget(j) PROVE TypeOK'
    BY <1>4 DEF Forget, Free
<1>5. ASSUME NEW j \in Jobs, Answer(j) PROVE TypeOK'
    BY <1>5 DEF Answer, Control, SwapAlone, CurrentAfterDeath, Finish, Awaited
<1>6. ASSUME NEW j \in Jobs, Dispatch(j) PROVE TypeOK'
    BY <1>6 DEF Dispatch, Control, PumpAlone, PumpBlocked, SwapAlone, Of
<1>7. ASSUME NEW m \in Models, ServerDies(m) PROVE TypeOK'
    BY <1>7 DEF ServerDies
<1>8. ASSUME NEW m \in Models, Calibrated(m) PROVE TypeOK'
    BY <1>8 DEF Calibrated
<1>9. ASSUME NEW m \in Models, MarkExpires(m) PROVE TypeOK'
    BY <1>9 DEF MarkExpires
<1>10. ASSUME NEW m \in Models, RecordRemoved(m) PROVE TypeOK'
    BY <1>10 DEF RecordRemoved
<1>11. CASE Drain
    BY <1>11 DEF Drain
<1>12. CASE Tick
    BY <1>12 DEF Tick
<1>13. CASE HeldTick
    BY <1>13 DEF HeldTick, Released, GivenUp, Verdict
<1>14. CASE Exit
    BY <1>14 DEF Exit, ShutdownBegins
<1>15. CASE PumpReturns
    BY <1>15 DEF PumpReturns
<1>16. CASE PumpDrops
    BY <1>16 DEF PumpDrops, PumpBlocked, CurrentAfterDeath, Finish
<1>17. CASE PumpSwaps
    BY <1>17 DEF PumpSwaps, Choices, MaySwap, Of
<1>18. CASE PumpKeeps
    BY <1>18 DEF PumpKeeps, Choices, MaySwap
<1>19. CASE PumpFilled
    BY <1>19 DEF PumpFilled
<1>20. CASE PumpRests
    BY <1>20 DEF PumpRests
<1>21. CASE IdleStop
    BY <1>21 DEF IdleStop, Idle
<1>22. CASE PumpExits
    BY <1>22 DEF PumpExits, ShutdownBegins, Idle
<1>23. CASE StopDone
    BY <1>23 DEF StopDone
<1>24. CASE Unloaded
    <2>1. /\ UNCHANGED <<jobVars, server, current, procs, stopping, exitVars,
                        recordVars>>
          /\ \/ swap' = NoSwap /\ turn' = "pump"
             \/ /\ swap' = [swap EXCEPT !.at = "sweep", !.waits = FALSE]
                /\ turn' = turn
        BY <1>24, UnloadedGoesOn DEF Unloaded
    <2>2. CASE swap' = NoSwap /\ turn' = "pump"
        BY <2>1, <2>2
    <2>3. CASE /\ swap' = [swap EXCEPT !.at = "sweep", !.waits = FALSE]
               /\ turn' = turn
        BY <2>1, <2>3
    <2>. QED BY <2>1, <2>2, <2>3
<1>25. CASE Swept
    BY <1>25 DEF Swept
<1>26. CASE SlotBusy
    BY <1>26 DEF SlotBusy
<1>27. CASE StartFails
    BY <1>27 DEF StartFails, At, Control, SwapAlone, FailJobs, Wanted, Finish,
           Of, SwapEnds
<1>28. CASE Claimed
    BY <1>28 DEF Claimed, At, Control, SwapAlone
<1>29. CASE Ready
    BY <1>29 DEF Ready, At, Control, SwapAlone
<1>30. CASE NotReady
    BY <1>30 DEF NotReady
<1>31. CASE Aborted
    BY <1>31 DEF Aborted, At, Control, SwapAlone, FailJobs, Wanted, Finish,
           Of, SwapEnds
<1>32. CASE Matches
    <2>1. /\ swap.key \in Models
          /\ UNCHANGED <<jobVars, server, procs, stopping, exitVars, record,
                         mark>>
        BY <1>32 DEF Matches, At, Control, SwapAlone
    <2>2. current' \in Models /\ staleLoads' \in [Models -> 0..MaxStale + 1]
        BY <1>32, <2>1 DEF Matches
    <2>3. CASE swap' = NoSwap /\ turn' = "pump"
        BY <2>1, <2>2, <2>3
    <2>4. CASE turn' = turn /\ swap' = [swap EXCEPT !.at = "abort"]
        BY <2>1, <2>2, <2>4
    <2>. QED BY <1>32, <2>3, <2>4, MatchesGoesOn
<1>33. CASE Mismatch
    <2>1. swap.key \in Models
        BY <1>33 DEF Mismatch, At, Control, SwapAlone
    <2>2. staleLoads' \in [Models -> 0..MaxStale + 1]
        <3>1. \A n \in 0..MaxStale + 1 :
                 (IF n > MaxStale THEN n ELSE n + 1) \in 0..MaxStale + 1
            OBVIOUS
        <3>. QED BY <1>33, <2>1, <3>1 DEF Mismatch
    <2>3. swap' \in [at : {"off", "unload", "sweep", "claim", "load", "check",
                           "stale", "unreadable", "abort"},
                     key : Models \cup {NoModel}, waits : BOOLEAN]
        BY <1>33 DEF Mismatch, StopInSwap
    <2>. QED BY <1>33, <2>2, <2>3 DEF Mismatch, StopInSwap
<1>34. CASE Unreadable
    BY <1>34 DEF Unreadable, At, Control, SwapAlone, StopInSwap
<1>35. CASE HeldAgain
    BY <1>35 DEF HeldAgain, At, Control, SwapAlone, SwapEnds, Finish, Wanted, Of
<1>36. CASE StaleGivenUp
    BY <1>36 DEF StaleGivenUp, At, Control, SwapAlone, SwapEnds, FailJobs,
           Finish, Of
<1>37. CASE UnreadableGivenUp
    BY <1>37 DEF UnreadableGivenUp, At, Control, SwapAlone, SwapEnds,
           FailJobs, Finish, Of
<1>38. CASE ShutdownStopped
    BY <1>38 DEF ShutdownStopped, Control, SwapAlone, Loading
<1>39. CASE ShutdownClaimed
    BY <1>39 DEF ShutdownClaimed
<1>40. CASE ShutdownKilled
    BY <1>40 DEF ShutdownKilled
<1>41. CASE UNCHANGED vars
    BY <1>41 DEF vars, jobVars, serverVars, exitVars, recordVars
<1>. QED BY <1>1, <1>2, <1>3, <1>4, <1>5, <1>6, <1>7, <1>8, <1>9, <1>10,
            <1>11, <1>12, <1>13, <1>14, <1>15, <1>16, <1>17, <1>18, <1>19,
            <1>20, <1>21, <1>22, <1>23, <1>24, <1>25, <1>26, <1>27, <1>28,
            <1>29, <1>30, <1>31, <1>32, <1>33, <1>34, <1>35, <1>36, <1>37,
            <1>38, <1>39, <1>40, <1>41
         DEF Next, PumpStep, SwapStep, ShutdownStep

\* One step keeps what is known of the server, the swap and the shutdown.
LEMMA ControlStep == IInv /\ [Next]_vars => Control'
<1>. SUFFICES ASSUME IInv, [Next]_vars PROVE Control'
    OBVIOUS
<1>. USE BrokerAssumption DEF IInv, TypeOK, Control, ServerKnown, SwapAlone,
         PumpAlone, ShutdownSees, CurrentIsServer, PumpBlocked, NoSwap, At,
         Free, ShutdownGoesOn, exiting, gone, jobVars, serverVars, exitVars,
                recordVars
<1>1. ASSUME NEW j \in Jobs, Post(j) PROVE Control'
    BY <1>1 DEF Post
<1>2. ASSUME NEW j \in Jobs, Body(j) PROVE Control'
    BY <1>2 DEF Body, Overtaken, Released, GivenUp, Verdict
<1>3. ASSUME NEW j \in Jobs, Cancel(j) PROVE Control'
    BY <1>3 DEF Cancel
<1>4. ASSUME NEW j \in Jobs, Forget(j) PROVE Control'
    BY <1>4 DEF Forget
<1>5. ASSUME NEW j \in Jobs, Answer(j) PROVE Control'
    BY <1>5 DEF Answer, CurrentAfterDeath, Finish, Awaited
<1>6. ASSUME NEW j \in Jobs, Dispatch(j) PROVE Control'
    BY <1>6 DEF Dispatch, Of
<1>7. ASSUME NEW m \in Models, ServerDies(m) PROVE Control'
    BY <1>7 DEF ServerDies
<1>8. ASSUME NEW m \in Models, Calibrated(m) PROVE Control'
    BY <1>8 DEF Calibrated
<1>9. ASSUME NEW m \in Models, MarkExpires(m) PROVE Control'
    BY <1>9 DEF MarkExpires
<1>10. ASSUME NEW m \in Models, RecordRemoved(m) PROVE Control'
    BY <1>10 DEF RecordRemoved
<1>11. CASE Drain
    BY <1>11 DEF Drain
<1>12. CASE Tick
    BY <1>12 DEF Tick
<1>13. CASE HeldTick
    BY <1>13 DEF HeldTick, Released, GivenUp, Verdict
<1>14. CASE Exit
    BY <1>14 DEF Exit, ShutdownBegins
<1>15. CASE PumpReturns
    BY <1>15 DEF PumpReturns
<1>16. CASE PumpDrops
    BY <1>16 DEF PumpDrops, CurrentAfterDeath, Finish
<1>17. CASE PumpSwaps
    <2>1. PICK next \in Choices \ {NoModel, server} :
             swap' = [at |-> IF server = NoModel THEN "sweep" ELSE "unload",
                      key |-> next, waits |-> server # NoModel]
        BY <1>17 DEF PumpSwaps
    <2>2. next \in Models
        BY <2>1 DEF Choices
    <2>3. /\ swap = NoSwap /\ stopping = NoModel /\ ~exiting
          /\ running = {} /\ stopping' = server /\ server' = NoModel
          /\ current' = IF server = NoModel THEN current ELSE NoModel
          /\ turn' = "idle"
          /\ UNCHANGED <<running, procs, draining, shutdown>>
        BY <1>17 DEF PumpSwaps, MaySwap
    <2>4. CASE server = NoModel
        <3>1. swap' = [at |-> "sweep", key |-> next, waits |-> FALSE]
            BY <2>1, <2>4
        <3>. QED BY <2>2, <2>3, <2>4, <3>1
    <2>5. CASE server # NoModel
        <3>1. swap' = [at |-> "unload", key |-> next, waits |-> TRUE]
            BY <2>1, <2>5
        <3>. QED BY <2>2, <2>3, <2>5, <3>1
    <2>. QED BY <2>4, <2>5
<1>18. CASE PumpKeeps
    BY <1>18 DEF PumpKeeps, Choices, MaySwap
<1>19. CASE PumpFilled
    BY <1>19 DEF PumpFilled
<1>20. CASE PumpRests
    BY <1>20 DEF PumpRests
<1>21. CASE IdleStop
    BY <1>21 DEF IdleStop, Idle
<1>22. CASE PumpExits
    BY <1>22 DEF PumpExits, ShutdownBegins, Idle
<1>23. CASE StopDone
    BY <1>23 DEF StopDone
<1>24. CASE Unloaded
    <2>1. /\ turn = "idle" /\ ~gone /\ swap.at = "unload"
          /\ stopping = NoModel /\ server = NoModel /\ procs = {}
        BY <1>24 DEF Unloaded
    <2>2. UNCHANGED <<running, server, current, procs, stopping, shutdown>>
        BY <1>24 DEF Unloaded
    <2>3. CASE swap' = NoSwap /\ turn' = "pump"
        BY <2>1, <2>2, <2>3
    <2>4. CASE /\ swap' = [swap EXCEPT !.at = "sweep", !.waits = FALSE]
               /\ turn' = turn
        <3>1. swap'.at = "sweep" /\ swap'.key = swap.key /\ ~swap'.waits
            BY <2>4
        <3>. QED BY <2>1, <2>2, <2>4, <3>1
    <2>. QED BY <1>24, <2>3, <2>4, UnloadedGoesOn
<1>25. CASE Swept
    BY <1>25 DEF Swept
<1>26. CASE SlotBusy
    BY <1>26 DEF SlotBusy
<1>27. CASE StartFails
    BY <1>27 DEF StartFails, FailJobs, Wanted, Finish, Of, SwapEnds
<1>28. CASE Claimed
    BY <1>28 DEF Claimed
<1>29. CASE Ready
    <2>1. /\ swap.at = "load" /\ swap'.at = "check" /\ swap'.key = swap.key
          /\ swap.key \in Models /\ server = NoModel /\ server' = swap.key
          /\ stopping = NoModel /\ turn = "idle"
          /\ UNCHANGED <<running, current, procs, stopping, turn, draining,
                         shutdown>>
        BY <1>29 DEF Ready
    <2>2. shutdown.at \in {"no", "kill"}
        BY <1>29, <2>1 DEF Ready
    <2>. QED BY <2>1, <2>2
<1>30. CASE NotReady
    BY <1>30 DEF NotReady
<1>31. CASE Aborted
    BY <1>31 DEF Aborted, FailJobs, Wanted, Finish, Of, SwapEnds
<1>32. CASE Matches
    BY <1>32 DEF Matches, SwapEnds
<1>33. CASE Mismatch
    BY <1>33 DEF Mismatch, StopInSwap
<1>34. CASE Unreadable
    BY <1>34 DEF Unreadable, StopInSwap
<1>35. CASE HeldAgain
    BY <1>35 DEF HeldAgain, SwapEnds, Finish, Wanted, Of
<1>36. CASE StaleGivenUp
    BY <1>36 DEF StaleGivenUp, SwapEnds, FailJobs, Finish, Of
<1>37. CASE UnreadableGivenUp
    BY <1>37 DEF UnreadableGivenUp, SwapEnds, FailJobs, Finish, Of
<1>38. CASE ShutdownStopped
    BY <1>38 DEF ShutdownStopped, Loading
<1>39. CASE ShutdownClaimed
    BY <1>39 DEF ShutdownClaimed
<1>40. CASE ShutdownKilled
    BY <1>40 DEF ShutdownKilled
<1>41. CASE UNCHANGED vars
    BY <1>41 DEF vars, jobVars, serverVars, exitVars, recordVars
<1>. QED BY <1>1, <1>2, <1>3, <1>4, <1>5, <1>6, <1>7, <1>8, <1>9, <1>10,
            <1>11, <1>12, <1>13, <1>14, <1>15, <1>16, <1>17, <1>18, <1>19,
            <1>20, <1>21, <1>22, <1>23, <1>24, <1>25, <1>26, <1>27, <1>28,
            <1>29, <1>30, <1>31, <1>32, <1>33, <1>34, <1>35, <1>36, <1>37,
            <1>38, <1>39, <1>40, <1>41
         DEF Next, PumpStep, SwapStep, ShutdownStep


\* A broker starts with no job, no server and no swap.
LEMMA InvInit == Init => IInv
<1>. SUFFICES ASSUME Init PROVE IInv
    OBVIOUS
<1>. USE BrokerAssumption DEF Init, NoSwap
<1>1. TypeOK
    <2>1. /\ held = {j \in Jobs : state[j] = "held"}
          /\ {j \in Jobs : state[j] = "running"} = {}
          /\ {j \in Jobs : state[j] = "queued"} = {}
        OBVIOUS
    <2>2. record \in [Models -> {"missing", "ok", "failed"}]
        OBVIOUS
    <2>3. staleLoads \in [Models -> 0..MaxStale + 1]
        OBVIOUS
    <2>. QED BY <2>1, <2>2, <2>3 DEF TypeOK, Final
<1>2. Control
    BY DEF Control, ServerKnown, SwapAlone, PumpAlone, ShutdownSees,
           CurrentIsServer, exiting, gone
<1>. QED BY <1>1, <1>2 DEF IInv

\* The inductive invariant holds in every reachable state.
LEMMA Invariance == Spec => []IInv
<1>1. IInv /\ [Next]_vars => IInv'
    BY TypeStep, ControlStep DEF IInv
<1>. QED BY InvInit, <1>1, PTL DEF Spec

-----------------------------------------------------------------------------
(* the invariants *)

\* Every variable has its type, and every job is where its state says: held,
\* in the Scheduler, or with a request under way.
THEOREM TypeCorrect == Spec => []TypeOK
<1>1. IInv => TypeOK
    BY DEF IInv
<1>. QED BY <1>1, Invariance, PTL

\* No two servers of a broker run side by side, whatever stops and starts.
THEOREM AtMostOneServer == Spec => []OneServer
<1>1. ASSUME IInv PROVE OneServer
    <2>. USE <1>1, BrokerAssumption
         DEF IInv, TypeOK, Control, ServerKnown, SwapAlone
    <2>1. CASE swap.at \in {"off", "unload", "check", "stale", "unreadable"}
        BY <2>1 DEF OneServer
    <2>2. CASE swap.at \in {"sweep", "claim", "load", "abort"}
        BY <2>2 DEF OneServer
    <2>. QED BY <2>1, <2>2
<1>2. IInv => OneServer
    BY <1>1
<1>. QED BY <1>2, Invariance, PTL

\* Until the broker exits, current names the server that answers, or nothing.
THEOREM CurrentFollows == Spec => []CurrentIsServer
<1>1. IInv => CurrentIsServer
    BY DEF IInv, Control
<1>. QED BY <1>1, Invariance, PTL

\* A job's request is with the server of its model, never with another one.
THEOREM RequestsAtHome == Spec => []InFlightOnServer
<1>1. ASSUME IInv PROVE InFlightOnServer
    BY <1>1 DEF IInv, TypeOK, Control, SwapAlone, InFlightOnServer
<1>2. IInv => InFlightOnServer
    BY <1>1
<1>. QED BY <1>2, Invariance, PTL

\* When the broker process is gone, so is every server it started.
THEOREM NothingLeftBehind == Spec => []NoServerLeftBehind
<1>1. IInv => NoServerLeftBehind
    BY DEF IInv, Control, ShutdownSees, NoServerLeftBehind
<1>. QED BY <1>1, Invariance, PTL

-----------------------------------------------------------------------------
(* the action properties *)

\* A stop is begun only while no job's request is under way.
LEMMA StopStep ==
    ASSUME IInv, [Next]_vars, stopping # stopping', stopping' # NoModel,
           ~exiting'
    PROVE  \A j \in Jobs : state[j] # "running"
<1>. USE DEF vars, jobVars, serverVars, exitVars, recordVars
<1>1. running = {}
    <2>1. CASE PumpSwaps
        BY <2>1 DEF PumpSwaps, MaySwap
    <2>2. CASE IdleStop
        BY <2>2 DEF IdleStop, Idle
    <2>3. CASE Mismatch \/ Unreadable
        BY <2>3 DEF Mismatch, Unreadable, At, IInv, Control, SwapAlone
    <2>4. CASE Exit \/ PumpExits
        BY <2>4 DEF Exit, PumpExits, ShutdownBegins, exiting
    <2>5. CASE StopDone
        BY <2>5 DEF StopDone
    <2>6. CASE UNCHANGED stopping
        BY <2>6
    <2>. QED
        BY <2>1, <2>2, <2>3, <2>4, <2>5, <2>6
        DEF Next, PumpStep, SwapStep, ShutdownStep, Post, Body, Cancel, Forget,
            Answer, ServerDies, Calibrated, MarkExpires, RecordRemoved, Drain,
            Tick, HeldTick, PumpReturns, PumpDrops, PumpKeeps, Dispatch,
            PumpFilled, PumpRests, Unloaded, Swept, SlotBusy, StartFails,
            Claimed, Ready, NotReady, Aborted, Matches, HeldAgain,
            StaleGivenUp, UnreadableGivenUp, ShutdownStopped, ShutdownClaimed,
            ShutdownKilled
<1>. QED BY <1>1 DEF IInv, TypeOK

\* A working server is never unloaded under a request.
THEOREM RequestsKeepServer == Spec => NoUnloadUnderRequest
<1>1. IInv /\ [Next]_vars =>
        [stopping # stopping' /\ stopping' # NoModel /\ ~exiting'
           => \A j \in Jobs : state[j] # "running"]_vars
    BY StopStep
<1>. QED BY <1>1, Invariance, PTL DEF Spec, NoUnloadUnderRequest

\* One step leaves a finished job as it is, or lets its client forget it.
LEMMA FinalStep ==
    ASSUME IInv, [Next]_vars, ~exiting, NEW i \in Jobs, state[i] \in Final
    PROVE  state'[i] \in {state[i], "new"}
<1>. USE DEF Final, Finish, FailJobs, jobVars
<1>1. /\ state \in [Jobs -> {"new", "posting", "queued", "held", "running"}
                            \cup Final]
      /\ i \notin held /\ i \notin queued
    BY DEF IInv, TypeOK
<1>2. ASSUME NEW j \in Jobs,
             Post(j) \/ Cancel(j) \/ Forget(j) \/ Answer(j) \/ Dispatch(j)
      PROVE  state'[i] \in {state[i], "new"}
    BY <1>1, <1>2 DEF Post, Cancel, Forget, Answer, Awaited, Dispatch
<1>3. ASSUME NEW j \in Jobs, Body(j) PROVE state'[i] \in {state[i], "new"}
    BY <1>1, <1>3 DEF Body, Overtaken, Released, GivenUp
<1>4. CASE HeldTick
    BY <1>1, <1>4 DEF HeldTick, Released, GivenUp
<1>5. CASE PumpDrops
    BY <1>1, <1>5 DEF PumpDrops
<1>6. CASE Exit \/ PumpExits
    BY <1>1, <1>6 DEF Exit, PumpExits, ShutdownBegins
<1>7. CASE StartFails \/ Aborted \/ HeldAgain
    BY <1>1, <1>7 DEF StartFails, Aborted, HeldAgain, Wanted
<1>8. CASE StaleGivenUp \/ UnreadableGivenUp
    BY <1>1, <1>8 DEF StaleGivenUp, UnreadableGivenUp
<1>9. CASE UNCHANGED state
    BY <1>9
<1>. QED
    BY <1>2, <1>3, <1>4, <1>5, <1>6, <1>7, <1>8, <1>9
    DEF Next, PumpStep, SwapStep, ShutdownStep, vars, ServerDies, Calibrated,
        MarkExpires, RecordRemoved, Drain, Tick, PumpReturns, PumpSwaps,
        PumpKeeps, PumpFilled, PumpRests, IdleStop, StopDone, Unloaded, Swept,
        SlotBusy, Claimed, Ready, NotReady, Matches, Mismatch, Unreadable,
        ShutdownStopped, ShutdownClaimed, ShutdownKilled

\* What a client was told of a finished job stays true until the broker exits.
THEOREM FinalStays == Spec => FinalIsFinal
<1>1. IInv /\ [Next]_vars =>
        [~exiting => \A j \in Jobs :
           state[j] \in Final => state'[j] \in {state[j], "new"}]_vars
    BY FinalStep
<1>. QED BY <1>1, Invariance, PTL DEF Spec, FinalIsFinal

\* A POST that queues its job leaves no held job of the same model behind.
LEMMA HeldStep ==
    ASSUME IInv, [Next]_vars, NEW i \in Jobs,
           state[i] = "posting", state'[i] = "queued"
    PROVE  held' \cap Of(ModelOf[i]) = {}
<1>. USE DEF Final, Finish, FailJobs, jobVars
<1>1. /\ state \in [Jobs -> {"new", "posting", "queued", "held", "running"}
                            \cup Final]
      /\ i \notin held /\ held \subseteq Jobs
    BY DEF IInv, TypeOK
<1>2. ASSUME NEW j \in Jobs, Body(j)
      PROVE  held' \cap Of(ModelOf[i]) = {}
    <2>1. i = j /\ Verdict(ModelOf[j]) = "ok"
        BY <1>1, <1>2 DEF Body, Overtaken, Released, GivenUp
    <2>2. held' \subseteq held \ Overtaken(j)
        BY <1>2, <2>1 DEF Body
    <2>3. CASE held \cap Of(ModelOf[j]) = {}
        BY <2>1, <2>2, <2>3
    <2>4. CASE held \cap Of(ModelOf[j]) # {}
        BY <2>1, <2>2, <2>4 DEF Overtaken, Released, Of
    <2>. QED BY <2>3, <2>4
<1>3. ASSUME NEW j \in Jobs,
             Post(j) \/ Cancel(j) \/ Forget(j) \/ Answer(j) \/ Dispatch(j)
      PROVE  state'[i] # "queued"
    BY <1>1, <1>3 DEF Post, Cancel, Forget, Answer, Awaited, Dispatch
<1>4. CASE HeldTick \/ PumpDrops \/ Exit \/ PumpExits
    BY <1>1, <1>4 DEF HeldTick, Released, GivenUp, PumpDrops, Exit, PumpExits,
       ShutdownBegins
<1>5. CASE \/ StartFails \/ Aborted \/ HeldAgain \/ StaleGivenUp
           \/ UnreadableGivenUp
    BY <1>1, <1>5 DEF StartFails, Aborted, HeldAgain, StaleGivenUp,
       UnreadableGivenUp
<1>6. CASE UNCHANGED state
    BY <1>6
<1>. QED
    BY <1>2, <1>3, <1>4, <1>5, <1>6
    DEF Next, PumpStep, SwapStep, ShutdownStep, vars, ServerDies, Calibrated,
        MarkExpires, RecordRemoved, Drain, Tick, PumpReturns, PumpSwaps,
        PumpKeeps, PumpFilled, PumpRests, IdleStop, StopDone, Unloaded, Swept,
        SlotBusy, Claimed, Ready, NotReady, Matches, Mismatch, Unreadable,
        ShutdownStopped, ShutdownClaimed, ShutdownKilled

\* Newer work never overtakes the held jobs of its model.
THEOREM OldestHeldFirst == Spec => HeldGoFirst
<1>1. IInv /\ [Next]_vars =>
        [\A j \in Jobs : state[j] = "posting" /\ state'[j] = "queued"
           => held' \cap Of(ModelOf[j]) = {}]_vars
    BY HeldStep
<1>. QED BY <1>1, Invariance, PTL DEF Spec, HeldGoFirst

-----------------------------------------------------------------------------
(* The broker implements JobService: its initial states are initial states *)
(* of the service, and each of its steps is one of the service's, or       *)
(* changes nothing a client can see.  The inductive invariant is what      *)
(* makes the steps fit: that a queued job's state says so, and that the    *)
(* jobs in flight are all of the server's model.                           *)


\* A job that occupies a slot is running or has ended: it does not wait for
\* another one.
SlotsOfSent == \A j \in running : state[j] \in {"running"} \cup Final

\* SlotsOfSent is inductive together with IInv: only dispatch takes a slot, and
\* it sends the job in the same step.
LEMMA SlotsStep == IInv /\ SlotsOfSent /\ [Next]_vars => SlotsOfSent'
<1>. SUFFICES ASSUME IInv, SlotsOfSent, [Next]_vars PROVE SlotsOfSent'
    OBVIOUS
<1>. USE DEF SlotsOfSent, Final, Finish, FailJobs, jobVars
<1>1. /\ state \in [Jobs -> {"new", "posting", "queued", "held", "running"}
                            \cup Final]
      /\ running \subseteq Jobs
      /\ \A j \in held : state[j] = "held"
      /\ exiting => running = {}
      /\ ~exiting => \A j \in queued : state[j] = "queued"
    BY DEF IInv, TypeOK, Control, SwapAlone
<1>2. ASSUME NEW j \in Jobs,
             Post(j) \/ Cancel(j) \/ Forget(j) \/ Answer(j) \/ Dispatch(j)
      PROVE  SlotsOfSent'
    BY <1>1, <1>2 DEF Post, Cancel, Forget, Answer, Awaited, Dispatch
<1>3. ASSUME NEW j \in Jobs, Body(j) PROVE SlotsOfSent'
    BY <1>1, <1>3 DEF Body, Overtaken, Released, GivenUp
<1>4. CASE HeldTick
    BY <1>1, <1>4 DEF HeldTick, Released, GivenUp
<1>5. CASE PumpDrops
    BY <1>1, <1>5 DEF PumpDrops, PumpBlocked
<1>6. CASE Exit \/ PumpExits
    BY <1>1, <1>6 DEF Exit, PumpExits, ShutdownBegins
<1>7. CASE StartFails \/ Aborted \/ HeldAgain
    BY <1>1, <1>7 DEF StartFails, Aborted, HeldAgain, Wanted
<1>8. CASE StaleGivenUp \/ UnreadableGivenUp
    BY <1>1, <1>8 DEF StaleGivenUp, UnreadableGivenUp
<1>9. CASE UNCHANGED <<state, running>>
    BY <1>9
<1>. QED
    BY <1>2, <1>3, <1>4, <1>5, <1>6, <1>7, <1>8, <1>9
    DEF Next, PumpStep, SwapStep, ShutdownStep, vars, ServerDies, Calibrated,
        MarkExpires, RecordRemoved, Drain, Tick, PumpReturns, PumpSwaps,
        PumpKeeps, PumpFilled, PumpRests, IdleStop, StopDone, Unloaded, Swept,
        SlotBusy, Claimed, Ready, NotReady, Matches, Mismatch, Unreadable,
        ShutdownStopped, ShutdownClaimed, ShutdownKilled

\* Where a job's state is what the service sees, in both states of a step.
LEMMA SeenTypes ==
    ASSUME IInv, IInv'
    PROVE  /\ [j \in Jobs |-> JobSeen(j)]' \in [Jobs -> Service!JobStates]
           /\ \A j \in Jobs : state[j] \in {"new", "posting", "queued", "held",
                                            "running"} \cup Final
<1>. QED BY DEF IInv, TypeOK, Final, JobSeen, Service!JobStates, Service!Ended,
            Service!Served, Service!Unserved

\* A step that leaves the jobs and the slots alone, and does not begin an exit.
LEMMA Unseen ==
    ASSUME UNCHANGED <<state, running, exiting>>
    PROVE  UNCHANGED Service!vars
<1>. QED BY DEF Service!vars, JobSeen

\* A step of an open service that stays open.
LEMMA Serves ==
    ASSUME ~exiting, UNCHANGED shutdown, Service!Serve
    PROVE  [Service!Next]_(Service!vars)
<1>1. UNCHANGED (~exiting)
    BY DEF exiting
<1>. QED BY <1>1 DEF Service!Next

\* A step that gives one job a state of the service.
LEMMA OneChanges ==
    ASSUME IInv, NEW i \in Jobs, NEW end, end \notin {"queued", "held"},
           state' = [state EXCEPT ![i] = end]
    PROVE  [j \in Jobs |-> JobSeen(j)]'
             = [[j \in Jobs |-> JobSeen(j)] EXCEPT ![i] = end]
<1>1. state'[i] = end /\ \A j \in Jobs \ {i} : state'[j] = state[j]
    BY DEF IInv, TypeOK
<1>. QED BY <1>1 DEF JobSeen

\* A step in which jobs that wait go on waiting or end unserved.
LEMMA Drops ==
    ASSUME IInv, IInv', ~exiting, UNCHANGED <<running, shutdown>>,
           \A j \in Jobs :
             \/ state'[j] = state[j]
             \/ /\ state[j] \in {"queued", "held"}
                /\ state'[j] \in {"queued", "held"} \cup Service!Unserved
    PROVE  [Service!Next]_(Service!vars)
<1>1. \A j \in Jobs : Service!Dropped(j)
    BY DEF Service!Dropped, JobSeen, IInv, TypeOK
<1>2. Service!Drop
    BY <1>1, SeenTypes DEF Service!Drop
<1>. QED BY <1>2, Serves DEF Service!Serve

\* The broker's exit, up to its first await.
LEMMA Closes ==
    ASSUME IInv, IInv', ~exiting, NEW end \in {"requeued", "failed"},
           ShutdownBegins(end)
    PROVE  [Service!Next]_(Service!vars)
<1>1. exiting' /\ running' = {}
    BY DEF ShutdownBegins, exiting
<1>2. \A j \in Jobs : IF JobSeen(j) \in {"waiting", "running"}
                      THEN JobSeen(j)' \in {"failed", "requeued"}
                      ELSE JobSeen(j)' = JobSeen(j)
    BY DEF ShutdownBegins, JobSeen, IInv, TypeOK, Final
<1>3. Service!Close
    BY <1>1, <1>2, SeenTypes DEF Service!Close
<1>. QED BY <1>3 DEF Service!Next

\* One step of the broker is a step of the service, or none.
LEMMA StepServes ==
    ASSUME IInv, IInv', SlotsOfSent, [Next]_vars
    PROVE  [Service!Next]_(Service!vars)
<1>. USE DEF jobVars
<1>1. ASSUME exiting PROVE exiting'
    <2>1. shutdown.at # "no" /\ shutdown \in [at : {"no", "stop", "claim",
                "kill", "gone"}, key : Models \cup {NoModel}]
        BY <1>1 DEF IInv, TypeOK, exiting
    <2>2. CASE \/ Exit \/ PumpExits \/ ShutdownStopped \/ ShutdownClaimed
               \/ ShutdownKilled
        BY <2>1, <2>2 DEF Exit, PumpExits, ShutdownBegins, ShutdownStopped,
           ShutdownClaimed, ShutdownKilled, exiting
    <2>3. CASE UNCHANGED shutdown
        BY <1>1, <2>3 DEF exiting
    <2>4. ASSUME NEW j \in Jobs, Body(j) PROVE UNCHANGED shutdown
        BY <2>4 DEF Body, exitVars
    <2>. QED
        BY <2>2, <2>3, <2>4
        DEF Next, vars, exitVars, PumpStep, SwapStep, ShutdownStep, Post,
            Cancel, Forget, Answer, ServerDies, Calibrated, MarkExpires,
            RecordRemoved, Drain, Tick, HeldTick, PumpReturns, PumpDrops,
            PumpSwaps, PumpKeeps, Dispatch, PumpFilled, PumpRests, IdleStop,
            StopDone, Unloaded, Swept, SlotBusy, StartFails, Claimed, Ready,
            NotReady, Aborted, Matches, Mismatch, Unreadable, HeldAgain,
            StaleGivenUp, UnreadableGivenUp
<1>. SUFFICES ASSUME ~exiting PROVE [Service!Next]_(Service!vars)
    BY <1>1 DEF Service!Next
<1>2. ASSUME NEW i \in Jobs, Post(i) PROVE [Service!Next]_(Service!vars)
    <2>1. Service!Ask(i)
        BY <1>2, OneChanges DEF Post, Service!Ask, JobSeen
    <2>. QED BY <1>2, <2>1, Serves DEF Post, exitVars, Service!Serve
<1>3. ASSUME NEW i \in Jobs, Body(i) PROVE [Service!Next]_(Service!vars)
    <2>. USE <1>3, SeenTypes DEF Body
    <2>1. JobSeen(i) = "posting" /\ JobSeen(i)' \in {"waiting", "failed"}
        BY DEF JobSeen, IInv, TypeOK, Overtaken, Released, GivenUp
    <2>2. \A j \in Jobs \ {i} : Service!Dropped(j)
        BY DEF Service!Dropped, Service!Unserved, JobSeen, IInv, TypeOK,
               Overtaken, Released, GivenUp
    <2>3. Service!Accept(i)
        BY <2>1, <2>2 DEF Service!Accept
    <2>. QED BY <2>3, Serves DEF exitVars, Service!Serve
<1>4. ASSUME NEW i \in Jobs, Cancel(i) PROVE [Service!Next]_(Service!vars)
    <2>1. Service!Cancel(i)
        BY <1>4, OneChanges DEF Cancel, Service!Cancel, JobSeen
    <2>. QED BY <1>4, <2>1, Serves DEF Cancel, exitVars, Service!Serve
<1>5. ASSUME NEW i \in Jobs, Forget(i) PROVE [Service!Next]_(Service!vars)
    <2>1. Service!Forget(i)
        BY <1>5, OneChanges
        DEF Forget, Service!Forget, Service!Ended, Service!Served,
            Service!Unserved, JobSeen, Final
    <2>. QED BY <1>5, <2>1, Serves DEF Forget, exitVars, Service!Serve
<1>6. ASSUME NEW i \in Jobs, Answer(i) PROVE [Service!Next]_(Service!vars)
    <2>1. Service!Answer(i)
        BY <1>6 DEF Answer, Service!Answer, JobSeen, Finish, Awaited, IInv,
           TypeOK, Final
    <2>. QED BY <1>6, <2>1, Serves DEF Answer, exitVars, Service!Serve
<1>7. ASSUME NEW i \in Jobs, Dispatch(i) PROVE [Service!Next]_(Service!vars)
    <2>1. /\ state[i] = "queued" /\ i \notin running
          /\ \A j \in running : ModelOf[j] = ModelOf[i]
        <3>1. turn = "fill" /\ i \in queued /\ ModelOf[i] = server
            BY <1>7 DEF Dispatch, Of
        <3>2. state[i] = "queued" /\ server # NoModel /\ running \subseteq Jobs
            BY <3>1 DEF IInv, TypeOK, Control, PumpAlone, PumpBlocked
        <3>3. \A j \in running : ModelOf[j] = server
            BY <3>2 DEF IInv, Control, SwapAlone
        <3>4. i \notin running
            BY <3>2 DEF SlotsOfSent, Final
        <3>. QED BY <3>1, <3>2, <3>3, <3>4
    <2>2. Service!Start(i)
        <3>1. [j \in Jobs |-> JobSeen(j)]'
                = [[j \in Jobs |-> JobSeen(j)] EXCEPT ![i] = "running"]
            BY <1>7, OneChanges DEF Dispatch
        <3>2. JobSeen(i) = "waiting"
            BY <2>1 DEF JobSeen
        <3>3. Cardinality(running) < Slots /\ running' = running \cup {i}
            BY <1>7 DEF Dispatch
        <3>4. [j \in Jobs |-> JobSeen(j)][i] = "waiting"
            BY <3>2
        <3>. QED BY <2>1, <3>1, <3>3, <3>4 DEF Service!Start, Service!Cardinality,
               Cardinality
    <2>. QED BY <1>7, <2>2, Serves DEF Dispatch, exitVars, Service!Serve
<1>8. CASE HeldTick
    BY <1>8, Drops DEF exitVars, HeldTick, Released, GivenUp, Service!Unserved, IInv,
       TypeOK
<1>9. CASE PumpDrops
    BY <1>9, Drops DEF exitVars, PumpDrops, Service!Unserved, IInv, TypeOK
<1>10. CASE \/ StartFails \/ Aborted \/ HeldAgain \/ StaleGivenUp
            \/ UnreadableGivenUp
    BY <1>10, Drops
    DEF exitVars, StartFails, Aborted, HeldAgain, StaleGivenUp, UnreadableGivenUp,
        FailJobs, Finish, Wanted, Service!Unserved, IInv, TypeOK
<1>11. CASE Exit \/ PumpExits
    BY <1>11, Closes DEF Exit, PumpExits
<1>12. CASE UNCHANGED <<state, running, shutdown>>
    BY <1>12, Unseen DEF exiting
<1>13. CASE \E m \in Models : \/ ServerDies(m) \/ Calibrated(m)
                               \/ MarkExpires(m) \/ RecordRemoved(m)
    BY <1>12, <1>13
    DEF ServerDies, Calibrated, MarkExpires, RecordRemoved, exitVars
<1>14. CASE Drain \/ Tick \/ ShutdownStep
    <2>1. ~ShutdownStep
        BY DEF ShutdownStep, ShutdownStopped, ShutdownGoesOn, ShutdownClaimed,
           ShutdownKilled, exiting
    <2>. QED BY <1>12, <1>14, <2>1 DEF Drain, Tick, exitVars
<1>15. CASE PumpStep
    BY <1>7, <1>9, <1>11, <1>12, <1>15
    DEF PumpStep, PumpReturns, PumpSwaps, PumpKeeps, PumpFilled, PumpRests,
        IdleStop, exitVars
<1>16. CASE SwapStep
    BY <1>10, <1>12, <1>16
    DEF SwapStep, StopDone, Unloaded, Swept, SlotBusy, Claimed, Ready, NotReady,
        Matches, Mismatch, Unreadable, exitVars
<1>17. CASE UNCHANGED vars
    BY <1>12, <1>17 DEF vars, exitVars
<1>. QED
    BY <1>2, <1>3, <1>4, <1>5, <1>6, <1>8, <1>11, <1>13, <1>14, <1>15, <1>16,
       <1>17 DEF Next

\* Until it exits, the broker is a JobService: for any jobs, models and slots, a
\* job is sent at most once, its outcome stays, and the requests in flight are
\* for one model and fit its slots.
THEOREM BrokerServes == Spec => KeepsJobService
<1>1. Init => Service!Init
    BY DEF Init, Service!Init, JobSeen, exiting
<1>2. Init => SlotsOfSent
    BY DEF Init, SlotsOfSent
<1>3. IInv /\ IInv' /\ SlotsOfSent /\ [Next]_vars
        => [Service!Next]_(Service!vars)
    BY StepServes
<1>. QED
    BY <1>1, <1>2, <1>3, SlotsStep, Invariance, PTL
    DEF Spec, KeepsJobService, Service!Spec

-----------------------------------------------------------------------------
(*****************************************************************************)
(* Of BrokerSpawn, for any set of commands and any number of versions and    *)
(* brokers: at most one open broker is unaccounted for.  It is the one that  *)
(* the state file names, or the one whose starter waits for it; every other  *)
(* open broker is there because of a mishap.                                 *)
(*****************************************************************************)

Parameters == MaxBrokers \in Nat \ {0} /\ Nobody \notin Clients

Few(S, n) == IsFiniteSet(S) /\ Cardinality(S) <= n

\* The broker a command waits for has not come up.
Pending(c) == at[c] = "waiting" /\ process[saw[c]] = "starting"

\* Who starts a broker has the lock, and a broker that starts does not drain.
Places ==
    /\ \A c \in Clients : at[c] \in {"start", "waiting"} => lock = c
    /\ \A c \in Clients : lock = c => at[c] \in {"asking", "start", "waiting", "killed"}
    /\ \A c \in Clients : at[c] = "waiting" => saw[c] \in Spawn!Numbers
    /\ \A b \in Spawn!Numbers : process[b] \in {"none", "starting"} => ~told[b]

\* All open brokers but the one in the file are due to mishaps.
FileKnown ==
    (\A c \in Clients : ~Pending(c)) => Few(Spawn!Open \ {file}, mishaps)

\* The same for the broker that is asked, if it is asked under the lock.
AskedKnown ==
    \A c \in Clients : at[c] = "asking" /\ lock = c => Few(Spawn!Open \ {saw[c]}, mishaps)

\* A start follows only when the broker that was known is not open.
StartKnown ==
    \A c \in Clients : at[c] = "start" => Few(Spawn!Open, mishaps)

\* The same for the broker that was started, even where the file came to name
\* another one meanwhile, for which it may be taken.
StartedKnown ==
    \A c \in Clients : at[c] = "waiting" =>
       /\ Few(Spawn!Open \ {saw[c]}, mishaps)
       /\ Spawn!Listening(file) /\ file # before[c] =>
            Few((Spawn!Open \cup {file}) \ {saw[c]}, mishaps)

SpawnInv == /\ Spawn!TypeOK /\ Places
        /\ FileKnown /\ AskedKnown /\ StartKnown /\ StartedKnown

-----------------------------------------------------------------------------
(* Counting.                                                               *)

\* There are finitely many brokers.
LEMMA OpenIsFinite == ASSUME Parameters PROVE IsFiniteSet(Spawn!Open)
<1>1. IsFiniteSet(1..MaxBrokers)
    BY FS_Interval DEF Parameters
<1>2. Spawn!Open \subseteq 1..MaxBrokers
    BY DEF Spawn!Open, Spawn!Numbers
<1>. QED BY <1>1, <1>2, FS_Subset

\* Fewer elements, or a higher bound.
LEMMA FewSubset ==
    ASSUME NEW S, NEW T, T \subseteq S, NEW n \in Nat, NEW m \in Nat, n <= m, Few(S, n)
    PROVE  Few(T, m)
<1>1. IsFiniteSet(T) /\ Cardinality(T) <= Cardinality(S)
    BY FS_Subset DEF Few
<1>2. Cardinality(T) \in Nat /\ Cardinality(S) \in Nat
    BY <1>1, FS_CardinalityType DEF Few
<1>. QED BY <1>1, <1>2 DEF Few

\* One element more.
LEMMA FewAdd ==
    ASSUME NEW S, NEW x, NEW n \in Nat, Few(S \ {x}, n)
    PROVE  Few(S, n + 1)
<1>1. IsFiniteSet((S \ {x}) \cup {x}) /\ Cardinality((S \ {x}) \cup {x}) <= n + 1
    <2>. DEFINE R == S \ {x}
    <2>1. IsFiniteSet(R) /\ Cardinality(R) <= n
        BY DEF Few
    <2>2. x \notin R
        OBVIOUS
    <2>3. Cardinality(R) \in Nat
        BY <2>1, FS_CardinalityType
    <2>. HIDE DEF R
    <2>4. IsFiniteSet(R \cup {x}) /\ Cardinality(R \cup {x}) = Cardinality(R) + 1
        BY <2>1, <2>2, FS_AddElement
    <2>5. IsFiniteSet(R \cup {x}) /\ Cardinality(R \cup {x}) <= n + 1
        BY <2>1, <2>3, <2>4
    <2>. QED BY <2>5 DEF R
<1>2. S \subseteq (S \ {x}) \cup {x}
    OBVIOUS
<1>3. Few((S \ {x}) \cup {x}, n + 1)
    BY <1>1 DEF Few
<1>. QED BY <1>2, <1>3, FewSubset

\* Whichever of its elements is left out.
LEMMA FewSwap ==
    ASSUME NEW S, NEW x, NEW y \in S, NEW n \in Nat, Few(S \ {x}, n)
    PROVE  Few(S \ {y}, n)
<1>1. IsFiniteSet(S) /\ Cardinality(S) <= n + 1
    BY FewAdd DEF Few
<1>2. IsFiniteSet(S \ {y}) /\ Cardinality(S \ {y}) = Cardinality(S) - 1
    BY <1>1, FS_RemoveElement
<1>. QED BY <1>1, <1>2, FS_CardinalityType DEF Few

\* What a step keeps that opens no broker and leaves the file.
LEMMA Fewer ==
    ASSUME SpawnInv, Spawn!Open' \subseteq Spawn!Open, UNCHANGED file,
           mishaps' \in Nat, mishaps <= mishaps'
    PROVE  /\ Few(Spawn!Open, mishaps) => Few(Spawn!Open', mishaps')
           /\ \A x : Few(Spawn!Open \ {x}, mishaps) => Few(Spawn!Open' \ {x}, mishaps')
           /\ \A x : Few((Spawn!Open \cup {file}) \ {x}, mishaps)
                     => Few((Spawn!Open' \cup {file'}) \ {x}, mishaps')
<1>1. mishaps \in Nat
    BY DEF SpawnInv, Spawn!TypeOK
<1>2. Few(Spawn!Open, mishaps) => Few(Spawn!Open', mishaps')
    BY <1>1, FewSubset
<1>3. ASSUME NEW x, Few(Spawn!Open \ {x}, mishaps) PROVE Few(Spawn!Open' \ {x}, mishaps')
    <2>1. Spawn!Open' \ {x} \subseteq Spawn!Open \ {x}
        OBVIOUS
    <2>. QED BY <1>1, <1>3, <2>1, FewSubset
<1>4. ASSUME NEW x, Few((Spawn!Open \cup {file}) \ {x}, mishaps)
      PROVE  Few((Spawn!Open' \cup {file'}) \ {x}, mishaps')
    <2>1. (Spawn!Open' \cup {file'}) \ {x} \subseteq (Spawn!Open \cup {file}) \ {x}
        OBVIOUS
    <2>. QED BY <1>1, <1>4, <2>1, FewSubset
<1>. QED BY <1>2, <1>3, <1>4

-----------------------------------------------------------------------------
(* The steps.                                                              *)

\* A broker that is open is up or starting.
LEMMA OpenIsLive ==
    ASSUME Parameters, NEW b, b \in Spawn!Open
    PROVE  b \in Spawn!Numbers /\ Spawn!Live(b) /\ ~told[b]
<1>. QED BY DEF Spawn!Open, Spawn!Live, Spawn!Numbers, Parameters

\* The broker there may be at the start is the one in the file.
LEMMA SpawnInitially == ASSUME Parameters PROVE Spawn!Init => SpawnInv
<1>. SUFFICES ASSUME Spawn!Init PROVE SpawnInv
    OBVIOUS
<1>1. Spawn!TypeOK
    BY DEF Spawn!Init, Spawn!TypeOK, Parameters
<1>2. Places
    BY DEF Spawn!Init, Places, Parameters
<1>3. Spawn!Open \ {file} = {}
    BY DEF Spawn!Init, Spawn!Open
<1>4. Few(Spawn!Open \ {file}, mishaps)
    BY <1>3, FS_EmptySet DEF Few, Spawn!Init
<1>. QED BY <1>1, <1>2, <1>4 DEF SpawnInv, FileKnown, AskedKnown, StartKnown, StartedKnown,
                                Spawn!Init

\* A step of a command, other than a start.
LEMMA CommandKeeps ==
    ASSUME Parameters, SpawnInv, NEW c \in Clients,
           \A d \in Clients : d # c =>
              at'[d] = at[d] /\ saw'[d] = saw[d] /\ before'[d] = before[d],
           lock' \in {lock, c, Nobody}, UNCHANGED <<process, file>>,
           Spawn!Open' \subseteq Spawn!Open, mishaps' \in Nat, mishaps <= mishaps',
           Spawn!TypeOK', Places', at'[c] # "waiting",
           at'[c] = "asking" /\ lock' = c => Few(Spawn!Open' \ {saw'[c]}, mishaps'),
           at'[c] = "start" => Few(Spawn!Open', mishaps'),
           at[c] = "waiting" => Few(Spawn!Open' \ {file'}, mishaps')
    PROVE  SpawnInv'
<1>1. /\ Few(Spawn!Open, mishaps) => Few(Spawn!Open', mishaps')
      /\ \A x : Few(Spawn!Open \ {x}, mishaps) => Few(Spawn!Open' \ {x}, mishaps')
      /\ \A x : Few((Spawn!Open \cup {file}) \ {x}, mishaps)
                => Few((Spawn!Open' \cup {file'}) \ {x}, mishaps')
    BY Fewer
<1>2. FileKnown'
    <2>1. ASSUME at[c] # "waiting", \A d \in Clients : ~Pending(d)'
          PROVE  \A d \in Clients : ~Pending(d)
        BY <2>1 DEF Pending
    <2>2. CASE at[c] # "waiting"
        BY <1>1, <2>1, <2>2 DEF SpawnInv, FileKnown
    <2>3. CASE at[c] = "waiting"
        BY <2>3 DEF FileKnown
    <2>. QED BY <2>2, <2>3
<1>3. AskedKnown'
    <2>. SUFFICES ASSUME NEW d \in Clients, at'[d] = "asking", lock' = d
                  PROVE  Few(Spawn!Open' \ {saw'[d]}, mishaps')
        BY DEF AskedKnown
    <2>1. CASE d = c
        BY <2>1
    <2>2. CASE d # c
        <3>1. lock = d /\ at[d] = "asking"
            BY <2>2 DEF Parameters
        <3>. QED BY <1>1, <2>2, <3>1 DEF SpawnInv, AskedKnown
    <2>. QED BY <2>1, <2>2
<1>4. StartKnown'
    <2>. SUFFICES ASSUME NEW d \in Clients, at'[d] = "start"
                  PROVE  Few(Spawn!Open', mishaps')
        BY DEF StartKnown
    <2>1. CASE d # c
        BY <1>1, <2>1 DEF SpawnInv, StartKnown
    <2>. QED BY <2>1
<1>5. StartedKnown'
    <2>. SUFFICES ASSUME NEW d \in Clients, at'[d] = "waiting"
                  PROVE  /\ Few(Spawn!Open' \ {saw'[d]}, mishaps')
                         /\ Spawn!Listening(file') /\ file' # before'[d] =>
                              Few((Spawn!Open' \cup {file'}) \ {saw'[d]}, mishaps')
        BY DEF StartedKnown, Spawn!Listening
    <2>1. d # c /\ at[d] = "waiting"
        OBVIOUS
    <2>. QED BY <1>1, <2>1 DEF SpawnInv, StartedKnown, Spawn!Listening
<1>. QED BY <1>2, <1>3, <1>4, <1>5 DEF SpawnInv

\* A step of a broker, other than its arrival.
LEMMA BrokerKeeps ==
    ASSUME Parameters, SpawnInv, UNCHANGED <<Spawn!clientVars, file, mishaps>>,
           Spawn!Open' \subseteq Spawn!Open, Spawn!TypeOK', Places',
           Spawn!Listening(file)' => Spawn!Listening(file),
           \A b \in Spawn!Numbers : process[b] = "starting" =>
              process'[b] = "starting" \/ b \notin Spawn!Open'
    PROVE  SpawnInv'
<1>0. mishaps \in Nat /\ UNCHANGED <<at, saw, before, lock, file, mishaps>>
    BY DEF SpawnInv, Spawn!TypeOK, Spawn!clientVars
<1>1. /\ Few(Spawn!Open, mishaps) => Few(Spawn!Open', mishaps')
      /\ \A x : Few(Spawn!Open \ {x}, mishaps) => Few(Spawn!Open' \ {x}, mishaps')
      /\ \A x : Few((Spawn!Open \cup {file}) \ {x}, mishaps)
                => Few((Spawn!Open' \cup {file'}) \ {x}, mishaps')
    <2>1. mishaps' \in Nat /\ mishaps <= mishaps'
        BY <1>0
    <2>. QED BY <1>0, <2>1, Fewer
<1>2. FileKnown'
    <2>. SUFFICES ASSUME \A c \in Clients : ~Pending(c)'
                  PROVE  Few(Spawn!Open' \ {file'}, mishaps')
        BY DEF FileKnown
    <2>1. CASE \A c \in Clients : ~Pending(c)
        BY <1>0, <1>1, <2>1 DEF SpawnInv, FileKnown
    <2>2. CASE \E c \in Clients : Pending(c)
        <3>1. PICK c \in Clients : Pending(c)
            BY <2>2
        <3>2. saw[c] \in Spawn!Numbers /\ saw[c] \notin Spawn!Open'
            BY <1>0, <3>1 DEF SpawnInv, Places, Pending
        <3>3. Few(Spawn!Open \ {saw[c]}, mishaps)
            BY <3>1 DEF SpawnInv, StartedKnown, Pending
        <3>4. Spawn!Open' \ {file'} \subseteq Spawn!Open \ {saw[c]}
            BY <3>2
        <3>. QED BY <1>0, <3>3, <3>4, FewSubset
    <2>. QED BY <2>1, <2>2
<1>3. AskedKnown' /\ StartKnown'
    BY <1>0, <1>1 DEF SpawnInv, AskedKnown, StartKnown
<1>4. StartedKnown'
    BY <1>0, <1>1 DEF SpawnInv, StartedKnown
<1>. QED BY <1>2, <1>3, <1>4 DEF SpawnInv

\* The end of a call gives the lock back, if it has it.
LEMMA ReturnKeeps ==
    ASSUME Parameters, SpawnInv, NEW c \in Clients, Spawn!Return(c),
           UNCHANGED <<file, Spawn!brokerVars>>, mishaps' \in Nat, mishaps <= mishaps',
           at[c] # "killed",
           at[c] = "waiting" => Few(Spawn!Open \ {file}, mishaps')
    PROVE  SpawnInv'
<1>1. UNCHANGED <<process, version, told>> /\ Spawn!Open' = Spawn!Open
    BY DEF Spawn!brokerVars, Spawn!Open
<1>2. /\ at'[c] = "out" /\ \A d \in Clients : d # c =>
                at'[d] = at[d] /\ saw'[d] = saw[d] /\ before'[d] = before[d]
      /\ lock' = IF lock = c THEN Nobody ELSE lock
    BY DEF Spawn!Return, Spawn!GoTo, SpawnInv, Spawn!TypeOK
<1>3. Spawn!TypeOK'
    <2>1. 0 \in 0 .. MaxBrokers
        BY DEF Parameters
    <2>2. /\ saw' \in [Clients -> 0 .. MaxBrokers]
          /\ before' \in [Clients -> 0 .. MaxBrokers]
        BY <2>1 DEF Spawn!Return, SpawnInv, Spawn!TypeOK
    <2>3. at' = [at EXCEPT ![c] = "out"] /\ lock' \in Clients \cup {Nobody}
        BY DEF Spawn!Return, Spawn!GoTo, SpawnInv, Spawn!TypeOK
    <2>. QED BY <1>1, <2>2, <2>3 DEF SpawnInv, Spawn!TypeOK
<1>4. Places'
    BY <1>1, <1>2 DEF SpawnInv, Places, Parameters
<1>. QED BY <1>1, <1>2, <1>3, <1>4, CommandKeeps

\* null: a start, or first the lock.
LEMMA NullKeeps ==
    ASSUME Parameters, SpawnInv, NEW c \in Clients, at[c] = "asking", Spawn!Null(c),
           UNCHANGED <<file, process>>, Spawn!TypeOK', mishaps' \in Nat, mishaps <= mishaps',
           Spawn!Open' \subseteq Spawn!Open,
           \A b \in Spawn!Numbers : process[b] \in {"none", "starting"} => ~told'[b],
           lock = c => Few(Spawn!Open', mishaps')
    PROVE  SpawnInv'
<1>1. /\ at'[c] = IF lock = c THEN "start" ELSE "locking"
      /\ \A d \in Clients : d # c =>
            at'[d] = at[d] /\ saw'[d] = saw[d] /\ before'[d] = before[d]
      /\ lock' = lock
    BY DEF Spawn!Null, Spawn!GoTo, SpawnInv, Spawn!TypeOK
<1>2. Places'
    BY <1>1 DEF SpawnInv, Places
<1>. QED BY <1>1, <1>2, CommandKeeps

\* Every step of a command keeps the invariant.
LEMMA CommandSteps ==
    ASSUME Parameters, SpawnInv, NEW c \in Clients,
           \/ Spawn!Read(c) \/ Spawn!NotABroker(c) \/ Spawn!NoHealth(c) \/ Spawn!Healthy(c)
           \/ Spawn!AskToDrain(c) \/ Spawn!Lock(c) \/ Spawn!LockTimesOut(c) \/ Spawn!Start(c)
           \/ Spawn!Started(c) \/ Spawn!GiveUp(c) \/ Spawn!Kill(c)
    PROVE  SpawnInv'
<1>0. /\ mishaps \in Nat /\ 0 \in 0 .. MaxBrokers
      /\ file \in 0 .. MaxBrokers /\ lock \in Clients \cup {Nobody}
      /\ saw \in [Clients -> 0 .. MaxBrokers]
      /\ before \in [Clients -> 0 .. MaxBrokers]
    BY DEF SpawnInv, Spawn!TypeOK, Parameters
\* Unless this command waits for its broker, nobody waits when it has the lock,
\* and when nobody has it, or a killed one.
<1>1. ASSUME \/ lock = c /\ at[c] # "waiting"
             \/ lock \in {Nobody} \cup {h \in Clients : at[h] = "killed"}
      PROVE  Few(Spawn!Open \ {file}, mishaps)
    <2>1. \A d \in Clients : ~Pending(d)
        BY <1>1 DEF SpawnInv, Places, Pending, Parameters
    <2>. QED BY <2>1 DEF SpawnInv, FileKnown
<1>2. CASE Spawn!Read(c)
    <2>1. /\ UNCHANGED <<before, lock, file, process, version, told, mishaps>>
          /\ at[c] = "out" /\ Spawn!Open' = Spawn!Open
        BY <1>2 DEF Spawn!Read, Spawn!brokerVars, Spawn!Open
    <2>2. PICK place \in {"asking", "locking"}, b \in {0, file} :
             at' = [at EXCEPT ![c] = place] /\ saw' = [saw EXCEPT ![c] = b]
        BY <1>2 DEF Spawn!Read, Spawn!Look, Spawn!GoTo
    <2>3. b \in 0 .. MaxBrokers
        BY <1>0, <2>2
    <2>4. Spawn!TypeOK'
        BY <1>0, <2>1, <2>2, <2>3 DEF SpawnInv, Spawn!TypeOK
    <2>5. /\ at'[c] = place /\ \A d \in Clients : d # c =>
                at'[d] = at[d] /\ saw'[d] = saw[d] /\ before'[d] = before[d]
        BY <1>0, <2>1, <2>2 DEF SpawnInv, Spawn!TypeOK
    <2>6. lock # c /\ Places'
        BY <2>1, <2>5 DEF SpawnInv, Places
    <2>7. /\ lock' \in {lock, c, Nobody} /\ Spawn!Open' \subseteq Spawn!Open /\ at'[c] # "waiting"
          /\ mishaps' \in Nat /\ mishaps <= mishaps' /\ UNCHANGED <<process, file>>
          /\ at'[c] # "start" /\ at[c] # "waiting" /\ lock' # c
        BY <1>0, <2>1, <2>5, <2>6
    <2>. QED BY <2>4, <2>5, <2>6, <2>7, CommandKeeps
<1>3. CASE Spawn!NotABroker(c)
    <2>1. /\ UNCHANGED <<before, lock, file, process, version, told, mishaps>>
          /\ at[c] = "asking" /\ ~Spawn!Live(saw[c]) /\ Spawn!Null(c) /\ Spawn!Open' = Spawn!Open
        BY <1>3 DEF Spawn!NotABroker, Spawn!brokerVars, Spawn!Null, Spawn!Open
    <2>2. Spawn!TypeOK'
        BY <1>0, <2>1 DEF SpawnInv, Spawn!TypeOK, Spawn!Null, Spawn!GoTo
    <2>3. Spawn!Open \ {saw[c]} = Spawn!Open
        BY <2>1, OpenIsLive
    <2>4. lock = c => Few(Spawn!Open', mishaps')
        BY <2>1, <2>3 DEF SpawnInv, AskedKnown
    <2>. QED BY <1>0, <2>1, <2>2, <2>4, NullKeeps DEF SpawnInv, Places
<1>4. CASE Spawn!NoHealth(c)
    BY <1>0, <1>4, ReturnKeeps DEF Spawn!NoHealth, Spawn!brokerVars
<1>5. CASE Spawn!Healthy(c)
    <2>1. /\ UNCHANGED <<file, Spawn!brokerVars, mishaps>>
          /\ UNCHANGED <<process, version, told>>
          /\ at[c] = "asking" /\ Spawn!Open' = Spawn!Open
        BY <1>5 DEF Spawn!Healthy, Spawn!brokerVars, Spawn!Open
    <2>2. CASE Spawn!Return(c)
        BY <1>0, <2>1, <2>2, ReturnKeeps
    <2>3. CASE told[saw[c]] /\ Spawn!Null(c)
        <3>1. Spawn!TypeOK'
            BY <1>0, <2>1, <2>3 DEF SpawnInv, Spawn!TypeOK, Spawn!Null, Spawn!GoTo
        <3>2. Spawn!Open \ {saw[c]} = Spawn!Open
            BY <2>3, OpenIsLive
        <3>3. lock = c => Few(Spawn!Open', mishaps')
            BY <2>1, <3>2 DEF SpawnInv, AskedKnown
        <3>. QED BY <1>0, <2>1, <2>3, <3>1, <3>3, NullKeeps DEF SpawnInv, Places
    <2>. QED BY <1>5, <2>2, <2>3 DEF Spawn!Healthy
<1>6. CASE Spawn!AskToDrain(c)
    <2>1. /\ UNCHANGED <<file, process, version>> /\ at[c] = "asking" /\ Spawn!Null(c)
          /\ Spawn!Listening(saw[c])
        BY <1>6 DEF Spawn!AskToDrain
    <2>2. saw[c] \in Spawn!Numbers /\ process[saw[c]] \notin {"none", "starting"}
        BY <1>0, <2>1 DEF Spawn!Listening, Spawn!Numbers
    <2>3. lock = c => Few(Spawn!Open \ {saw[c]}, mishaps)
        BY <2>1 DEF SpawnInv, AskedKnown
    <2>4. CASE told' = [told EXCEPT ![saw[c]] = TRUE] /\ UNCHANGED mishaps
        <3>1. \A b \in Spawn!Numbers : told'[b] = (b = saw[c] \/ told[b])
            BY <2>4 DEF SpawnInv, Spawn!TypeOK
        <3>2. Spawn!Open' = Spawn!Open \ {saw[c]}
            BY <2>1, <3>1 DEF Spawn!Open
        <3>3. told' \in [Spawn!Numbers -> BOOLEAN]
            BY <2>4 DEF SpawnInv, Spawn!TypeOK
        <3>4. Spawn!TypeOK'
            BY <1>0, <2>1, <2>4, <3>3 DEF SpawnInv, Spawn!TypeOK, Spawn!Null, Spawn!GoTo
        <3>5. \A b \in Spawn!Numbers : process[b] \in {"none", "starting"} => ~told'[b]
            BY <2>2, <3>1 DEF SpawnInv, Places
        <3>. QED BY <1>0, <2>1, <2>3, <2>4, <3>2, <3>4, <3>5, NullKeeps
    <2>5. CASE mishaps' = mishaps + 1 /\ UNCHANGED told
        <3>1. Spawn!Open' = Spawn!Open
            BY <2>1, <2>5 DEF Spawn!Open
        <3>2. Spawn!TypeOK'
            BY <1>0, <2>1, <2>5 DEF SpawnInv, Spawn!TypeOK, Spawn!Null, Spawn!GoTo
        <3>3. lock = c => Few(Spawn!Open', mishaps')
            BY <1>0, <2>3, <2>5, <3>1, FewAdd
        <3>. QED BY <1>0, <2>1, <2>5, <3>1, <3>2, <3>3, NullKeeps DEF SpawnInv, Places
    <2>. QED BY <1>6, <2>4, <2>5 DEF Spawn!AskToDrain
<1>7. CASE Spawn!Lock(c)
    <2>1. /\ UNCHANGED <<before, file, process, version, told, mishaps>>
          /\ at[c] = "locking" /\ lock' = c /\ Spawn!Open' = Spawn!Open
          /\ lock \in {Nobody} \cup {h \in Clients : at[h] = "killed"}
        BY <1>7 DEF Spawn!Lock, Spawn!brokerVars, Spawn!Open
    <2>2. Few(Spawn!Open \ {file}, mishaps)
        BY <1>1, <2>1
    <2>3. PICK place \in {"asking", "start"}, b \in {0, file} :
             /\ at' = [at EXCEPT ![c] = place] /\ saw' = [saw EXCEPT ![c] = b]
             /\ place = "asking" => b = file
             /\ place = "start" => ~Spawn!Live(file)
        BY <1>7 DEF Spawn!Lock, Spawn!SecondLook, Spawn!Look, Spawn!GoTo
    <2>4. b \in 0 .. MaxBrokers
        BY <1>0, <2>3
    <2>5. Spawn!TypeOK'
        BY <1>0, <2>1, <2>3, <2>4 DEF SpawnInv, Spawn!TypeOK
    <2>6. /\ at'[c] = place /\ saw'[c] = b /\ \A d \in Clients : d # c =>
                at'[d] = at[d] /\ saw'[d] = saw[d] /\ before'[d] = before[d]
        BY <1>0, <2>1, <2>3 DEF SpawnInv, Spawn!TypeOK
    <2>7. \A d \in Clients : d # c => at[d] \notin {"start", "waiting"}
        BY <2>1 DEF SpawnInv, Places, Parameters
    <2>8. Places'
        BY <2>1, <2>3, <2>6, <2>7 DEF SpawnInv, Places
    <2>9. ~Spawn!Live(file) => Spawn!Open \ {file} = Spawn!Open
        BY OpenIsLive
    <2>10. /\ lock' \in {lock, c, Nobody} /\ Spawn!Open' \subseteq Spawn!Open /\ at'[c] # "waiting"
           /\ mishaps' \in Nat /\ mishaps <= mishaps' /\ UNCHANGED <<process, file>>
           /\ at[c] # "waiting"
        BY <1>0, <2>1, <2>3, <2>6
    <2>11. /\ at'[c] = "asking" => Few(Spawn!Open' \ {saw'[c]}, mishaps')
           /\ at'[c] = "start" => Few(Spawn!Open', mishaps')
        BY <2>1, <2>2, <2>3, <2>6, <2>9
    <2>. QED BY <2>5, <2>6, <2>8, <2>10, <2>11, CommandKeeps
<1>8. CASE Spawn!LockTimesOut(c)
    BY <1>0, <1>8, ReturnKeeps DEF Spawn!LockTimesOut, Spawn!brokerVars
<1>9. CASE Spawn!Start(c)
    <2>1. PICK b \in Spawn!Numbers :
             /\ process[b] = "none" /\ process' = [process EXCEPT ![b] = "starting"]
             /\ saw' = [saw EXCEPT ![c] = b]
        BY <1>9 DEF Spawn!Start
    <2>2. /\ at[c] = "start" /\ before' = [before EXCEPT ![c] = file]
          /\ at' = [at EXCEPT ![c] = "waiting"]
          /\ UNCHANGED <<lock, file, told, mishaps>>
        BY <1>9 DEF Spawn!Start, Spawn!GoTo
    <2>3. /\ at'[c] = "waiting" /\ saw'[c] = b /\ before'[c] = file
          /\ \A d \in Clients : d # c =>
                at'[d] = at[d] /\ saw'[d] = saw[d] /\ before'[d] = before[d]
        BY <1>0, <2>1, <2>2 DEF SpawnInv, Spawn!TypeOK
    <2>4. process'[b] = "starting" /\ \A k \in Spawn!Numbers : k # b => process'[k] = process[k]
        BY <2>1 DEF SpawnInv, Spawn!TypeOK
    <2>5. lock = c /\ \A d \in Clients : d # c =>
             lock # d /\ at[d] \notin {"start", "waiting"}
        BY <2>2 DEF SpawnInv, Places
    <2>6. Spawn!TypeOK'
        <3>1. b \in 0 .. MaxBrokers
            BY DEF Spawn!Numbers
        <3>. QED BY <1>0, <2>1, <2>2, <3>1 DEF SpawnInv, Spawn!TypeOK
    <2>7. Places'
        BY <2>1, <2>2, <2>3, <2>4, <2>5 DEF SpawnInv, Places
    <2>8. Spawn!Open' \ {b} \subseteq Spawn!Open
        BY <2>2, <2>4 DEF Spawn!Open
    <2>9. Few(Spawn!Open' \ {b}, mishaps')
        BY <1>0, <2>2, <2>8, FewSubset DEF SpawnInv, StartKnown
    <2>10. FileKnown'
        <3>1. Pending(c)'
            BY <2>3, <2>4 DEF Pending
        <3>. QED BY <3>1 DEF FileKnown
    <2>11. AskedKnown' /\ StartKnown'
        BY <2>2, <2>3, <2>5 DEF AskedKnown, StartKnown
    <2>12. StartedKnown'
        BY <2>2, <2>3, <2>5, <2>9 DEF StartedKnown
    <2>. QED BY <2>6, <2>7, <2>10, <2>11, <2>12 DEF SpawnInv
<1>10. CASE Spawn!Started(c)
    <2>1. /\ UNCHANGED <<file, Spawn!brokerVars, mishaps>> /\ at[c] = "waiting" /\ Spawn!Return(c)
          /\ Spawn!Listening(file) /\ file # before[c]
        BY <1>10 DEF Spawn!Started, Spawn!Arrived
    <2>2. Few((Spawn!Open \cup {file}) \ {saw[c]}, mishaps)
        BY <2>1 DEF SpawnInv, StartedKnown
    <2>3. Few((Spawn!Open \cup {file}) \ {file}, mishaps)
        BY <1>0, <2>2, FewSwap
    <2>4. Few(Spawn!Open \ {file}, mishaps)
        <3>1. Spawn!Open \ {file} \subseteq (Spawn!Open \cup {file}) \ {file}
            OBVIOUS
        <3>. QED BY <1>0, <2>3, <3>1, FewSubset
    <2>. QED BY <1>0, <2>1, <2>4, ReturnKeeps
<1>11. CASE Spawn!GiveUp(c)
    <2>1. /\ UNCHANGED <<file, Spawn!brokerVars>> /\ at[c] = "waiting" /\ Spawn!Return(c)
          /\ \/ process[saw[c]] # "starting" /\ UNCHANGED mishaps
             \/ mishaps' = mishaps + 1
        BY <1>11 DEF Spawn!GiveUp
    <2>2. CASE process[saw[c]] # "starting" /\ UNCHANGED mishaps
        <3>1. \A d \in Clients : ~Pending(d)
            BY <2>1, <2>2 DEF SpawnInv, Places, Pending
        <3>. QED BY <1>0, <2>1, <2>2, <3>1, ReturnKeeps DEF SpawnInv, FileKnown
    <2>3. CASE mishaps' = mishaps + 1
        <3>1. Few(Spawn!Open, mishaps')
            BY <1>0, <2>1, <2>3, FewAdd DEF SpawnInv, StartedKnown
        <3>2. Few(Spawn!Open \ {file}, mishaps')
            BY <1>0, <2>3, <3>1, FewSubset
        <3>. QED BY <1>0, <2>1, <2>3, <3>2, ReturnKeeps
    <2>. QED BY <2>1, <2>2, <2>3
<1>12. CASE Spawn!Kill(c)
    <2>1. /\ UNCHANGED <<lock, file, process, version, told>> /\ Spawn!Open' = Spawn!Open
          /\ lock = c /\ mishaps' = mishaps + 1
          /\ at' = [at EXCEPT ![c] = "killed"]
          /\ saw' = [saw EXCEPT ![c] = 0] /\ before' = [before EXCEPT ![c] = 0]
        BY <1>12 DEF Spawn!Kill, Spawn!brokerVars, Spawn!Open, Spawn!GoTo
    <2>2. at'[c] = "killed" /\ \A d \in Clients : d # c =>
             at'[d] = at[d] /\ saw'[d] = saw[d] /\ before'[d] = before[d]
        BY <1>0, <2>1 DEF SpawnInv, Spawn!TypeOK
    <2>3. Spawn!TypeOK'
        BY <1>0, <2>1 DEF SpawnInv, Spawn!TypeOK
    <2>4. Places'
        BY <2>1, <2>2 DEF SpawnInv, Places
    <2>5. ASSUME at[c] = "waiting" PROVE Few(Spawn!Open' \ {file'}, mishaps')
        <3>1. Few(Spawn!Open, mishaps + 1)
            BY <1>0, <2>5, FewAdd DEF SpawnInv, StartedKnown
        <3>. QED BY <1>0, <2>1, <3>1, FewSubset
    <2>6. /\ lock' \in {lock, c, Nobody} /\ Spawn!Open' \subseteq Spawn!Open
          /\ mishaps' \in Nat /\ mishaps <= mishaps' /\ UNCHANGED <<process, file>>
          /\ at'[c] \notin {"waiting", "asking", "start"}
        BY <1>0, <2>1, <2>2
    <2>. QED BY <2>2, <2>3, <2>4, <2>5, <2>6, CommandKeeps
<1>. QED BY <1>2, <1>3, <1>4, <1>5, <1>6, <1>7, <1>8, <1>9, <1>10, <1>11, <1>12

\* Every step of a broker keeps the invariant.
LEMMA BrokerSteps ==
    ASSUME Parameters, SpawnInv, NEW b \in Spawn!Numbers,
           Spawn!ComeUp(b) \/ Spawn!Exit(b) \/ Spawn!ReadOwn(b) \/ Spawn!Erase(b) \/ Spawn!Die(b)
    PROVE  SpawnInv'
<1>0. /\ mishaps \in Nat /\ b \in 0 .. MaxBrokers /\ b # 0
      /\ 0 \in 0 .. MaxBrokers
    BY DEF SpawnInv, Spawn!TypeOK, Parameters, Spawn!Numbers
\* Exit and the two ways out.
<1>1. ASSUME NEW s \in {"exiting", "erasing"}, Spawn!SetState(b, s),
             process[b] \in {"up", "exiting"}, UNCHANGED <<Spawn!clientVars, file, mishaps>>
      PROVE  SpawnInv'
    <2>1. /\ process'[b] = s /\ \A k \in Spawn!Numbers : k # b => process'[k] = process[k]
          /\ UNCHANGED <<version, told, at, saw, before, lock, file, mishaps>>
        BY <1>1 DEF Spawn!SetState, Spawn!clientVars, SpawnInv, Spawn!TypeOK
    <2>2. Spawn!TypeOK'
        BY <1>1, <2>1 DEF Spawn!SetState, SpawnInv, Spawn!TypeOK
    <2>3. Spawn!Open' \subseteq Spawn!Open
        BY <2>1 DEF Spawn!Open
    <2>4. Places'
        BY <1>1, <2>1 DEF SpawnInv, Places
    <2>5. Spawn!Listening(file)' => Spawn!Listening(file)
        BY <1>0, <1>1, <2>1 DEF Spawn!Listening, SpawnInv, Spawn!TypeOK, Spawn!Numbers
    <2>. QED BY <1>1, <2>1, <2>2, <2>3, <2>4, <2>5, BrokerKeeps
<1>2. ASSUME Spawn!Leave(b)
      PROVE  /\ Spawn!Open' = Spawn!Open \ {b} /\ process'[b] = "gone"
             /\ \A k \in Spawn!Numbers : k # b => process'[k] = process[k]
             /\ process' \in [Spawn!Numbers -> {"none", "starting", "up", "exiting",
                                        "erasing", "gone"}]
             /\ told' \in [Spawn!Numbers -> BOOLEAN]
             /\ \A k \in Spawn!Numbers : told'[k] => told[k]
    <2>1. /\ process'[b] = "gone"
          /\ \A k \in Spawn!Numbers : k # b => process'[k] = process[k]
          /\ \A k \in Spawn!Numbers : k # b => told'[k] = told[k]
          /\ told'[b] = FALSE
        BY <1>2 DEF Spawn!Leave, SpawnInv, Spawn!TypeOK
    <2>2. /\ process' \in [Spawn!Numbers -> {"none", "starting", "up", "exiting",
                                     "erasing", "gone"}]
          /\ told' \in [Spawn!Numbers -> BOOLEAN]
        BY <1>2 DEF Spawn!Leave, SpawnInv, Spawn!TypeOK
    <2>3. Spawn!Open' = Spawn!Open \ {b}
        BY <2>1 DEF Spawn!Open
    <2>. QED BY <2>1, <2>2, <2>3
<1>3. ASSUME Spawn!Leave(b), UNCHANGED <<Spawn!clientVars, file, mishaps>> PROVE SpawnInv'
    <2>1. UNCHANGED <<at, saw, before, lock, file, mishaps>>
        BY <1>3 DEF Spawn!clientVars
    <2>2. Spawn!TypeOK'
        BY <1>2, <1>3, <2>1 DEF SpawnInv, Spawn!TypeOK
    <2>3. Places'
        BY <1>2, <1>3, <2>1 DEF SpawnInv, Places
    <2>4. Spawn!Listening(file)' => Spawn!Listening(file)
        BY <1>2, <1>3, <2>1 DEF Spawn!Listening, SpawnInv, Spawn!TypeOK, Spawn!Numbers
    <2>. QED BY <1>2, <1>3, <2>2, <2>3, <2>4, BrokerKeeps
<1>4. CASE Spawn!ComeUp(b)
    <2>1. /\ process[b] = "starting" /\ process' = [process EXCEPT ![b] = "up"] /\ file' = b
          /\ UNCHANGED <<version, told, at, saw, before, lock, mishaps>>
        BY <1>4 DEF Spawn!ComeUp, Spawn!SetState, Spawn!clientVars
    <2>2. process'[b] = "up" /\ \A k \in Spawn!Numbers : k # b => process'[k] = process[k]
        BY <2>1 DEF SpawnInv, Spawn!TypeOK
    <2>3. b \in Spawn!Open /\ Spawn!Open' = Spawn!Open
        BY <2>1, <2>2 DEF Spawn!Open, SpawnInv, Places
    <2>4. Spawn!TypeOK'
        BY <1>0, <2>1 DEF SpawnInv, Spawn!TypeOK
    <2>5. Places'
        BY <2>1, <2>2 DEF SpawnInv, Places
    <2>6. FileKnown'
        <3>. SUFFICES ASSUME \A c \in Clients : ~Pending(c)'
                      PROVE  Few(Spawn!Open \ {b}, mishaps)
            BY <2>1, <2>3 DEF FileKnown
        <3>1. CASE \A c \in Clients : ~Pending(c)
            BY <1>0, <2>3, <3>1, FewSwap DEF SpawnInv, FileKnown
        <3>2. CASE \E c \in Clients : Pending(c)
            <4>1. PICK c \in Clients : Pending(c)
                BY <3>2
            <4>2. saw[c] = b
                BY <2>1, <2>2, <4>1 DEF Pending, SpawnInv, Places
            <4>. QED BY <4>1, <4>2 DEF SpawnInv, StartedKnown, Pending
        <3>. QED BY <3>1, <3>2
    <2>7. AskedKnown' /\ StartKnown'
        BY <2>1, <2>3 DEF SpawnInv, AskedKnown, StartKnown
    <2>8. StartedKnown'
        <3>1. Spawn!Open \cup {b} = Spawn!Open
            BY <2>3
        <3>. QED BY <2>1, <2>3, <3>1 DEF SpawnInv, StartedKnown
    <2>. QED BY <2>4, <2>5, <2>6, <2>7, <2>8 DEF SpawnInv
<1>5. CASE Spawn!Exit(b)
    BY <1>1, <1>5 DEF Spawn!Exit
<1>6. CASE Spawn!ReadOwn(b)
    BY <1>1, <1>3, <1>6 DEF Spawn!ReadOwn
<1>7. CASE Spawn!Erase(b)
    <2>1. /\ process[b] = "erasing" /\ Spawn!Leave(b) /\ file' = 0
          /\ mishaps' = IF file \in {0, b} THEN mishaps ELSE mishaps + 1
          /\ UNCHANGED <<at, saw, before, lock>>
        BY <1>7 DEF Spawn!Erase, Spawn!clientVars
    <2>2. b \notin Spawn!Open /\ 0 \notin Spawn!Open /\ Spawn!Open' = Spawn!Open
        BY <1>2, <2>1 DEF Spawn!Open, Spawn!Numbers
    <2>3. mishaps' \in Nat /\ mishaps <= mishaps'
        BY <1>0, <2>1
    <2>4. Spawn!TypeOK'
        BY <1>0, <1>2, <2>1, <2>3 DEF SpawnInv, Spawn!TypeOK
    <2>5. Places'
        BY <1>2, <2>1 DEF SpawnInv, Places
    <2>6. /\ Few(Spawn!Open, mishaps) => Few(Spawn!Open, mishaps')
          /\ \A x : Few(Spawn!Open \ {x}, mishaps) => Few(Spawn!Open \ {x}, mishaps')
        BY <1>0, <2>3, FewSubset
    <2>7. FileKnown'
        <3>. SUFFICES ASSUME \A c \in Clients : ~Pending(c)'
                      PROVE  Few(Spawn!Open \ {0}, mishaps')
            BY <2>1, <2>2 DEF FileKnown
        <3>1. \A c \in Clients : ~Pending(c)
            BY <1>2, <2>1 DEF Pending, SpawnInv, Places
        <3>2. Few(Spawn!Open \ {file}, mishaps)
            BY <3>1 DEF SpawnInv, FileKnown
        <3>3. CASE file \in {0, b}
            <4>1. Spawn!Open \ {0} = Spawn!Open \ {file}
                BY <2>2, <3>3
            <4>. QED BY <2>6, <3>2, <4>1
        <3>4. CASE file \notin {0, b}
            <4>1. Few(Spawn!Open, mishaps') /\ Spawn!Open \ {0} = Spawn!Open
                BY <1>0, <2>1, <2>2, <3>2, <3>4, FewAdd
            <4>. QED BY <4>1
        <3>. QED BY <3>3, <3>4
    <2>8. AskedKnown' /\ StartKnown'
        BY <2>1, <2>2, <2>6 DEF SpawnInv, AskedKnown, StartKnown
    <2>9. StartedKnown'
        BY <2>1, <2>2, <2>6 DEF SpawnInv, StartedKnown, Spawn!Listening
    <2>. QED BY <2>4, <2>5, <2>7, <2>8, <2>9 DEF SpawnInv
<1>8. CASE Spawn!Die(b)
    BY <1>3, <1>8 DEF Spawn!Die
<1>. QED BY <1>4, <1>5, <1>6, <1>7, <1>8

\* One step keeps the invariant.
LEMMA SpawnStep == ASSUME Parameters PROVE SpawnInv /\ [Spawn!Next]_(Spawn!vars) => SpawnInv'
<1>. SUFFICES ASSUME SpawnInv, [Spawn!Next]_(Spawn!vars) PROVE SpawnInv'
    OBVIOUS
<1>1. CASE UNCHANGED Spawn!vars
    BY <1>1 DEF Spawn!vars, Spawn!clientVars, Spawn!brokerVars, SpawnInv, Spawn!TypeOK, Places, FileKnown, AskedKnown,
                StartKnown, StartedKnown, Pending, Spawn!Open, Spawn!Listening
<1>. QED BY <1>1, CommandSteps, BrokerSteps DEF Spawn!Next

-----------------------------------------------------------------------------

\* However many commands, of however many versions, look for a broker at once:
\* one is open, and one more at most for each mishap.
THEOREM OneIsOpen == Spawn!Spec => []OneOpenBroker
<1>0. Parameters
    BY SpawnAssumption DEF Parameters
<1>1. SpawnInv => OneOpenBroker
    <2>. SUFFICES ASSUME SpawnInv PROVE OneOpenBroker
        OBVIOUS
    <2>1. mishaps \in Nat /\ IsFiniteSet(Spawn!Open)
        BY <1>0, OpenIsFinite DEF SpawnInv, Spawn!TypeOK
    <2>2. PICK b : Few(Spawn!Open \ {b}, mishaps)
        BY DEF SpawnInv, FileKnown, StartedKnown, Pending
    <2>3. Few(Spawn!Open, mishaps + 1)
        BY <2>1, <2>2, FewAdd
    <2>4. Cardinality(Spawn!Open) \in Nat
        BY <2>1, FS_CardinalityType
    <2>5. Spawn!Cardinality(Spawn!Open) = Cardinality(Spawn!Open)
        BY DEF Spawn!Cardinality, Cardinality
    <2>6. Cardinality(Spawn!Open) <= 1 + mishaps
        BY <2>1, <2>3, <2>4 DEF Few
    <2>. QED BY <2>5, <2>6 DEF OneOpenBroker, Spawn!OneOpenBroker
<1>. QED BY <1>0, <1>1, SpawnInitially, SpawnStep, PTL DEF Spawn!Spec
=============================================================================
