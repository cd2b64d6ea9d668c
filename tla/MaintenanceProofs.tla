------------------------- MODULE MaintenanceProofs -------------------------
(***************************************************************************)
(* Proofs about the calibration runner, the update of a profile and the    *)
(* walk over a profile's chain, for any models, runners, commands, chains  *)
(* and bounds.                                                             *)
(***************************************************************************)
EXTENDS Maintenance, TLAPS, FiniteSetTheorems, WellFoundedInduction

-----------------------------------------------------------------------------
(* CalibrationRunner.  The model locks play no part: that one runner works *)
(* is due to calibrator.lock, and the rest follows from it.                *)

Statuses == {"ok", "calibration-failed", "engine-check-failed", "memory-limited"}
Records == [status : Statuses, checked : Nat, body : BOOLEAN, reused : BOOLEAN]
Progresses == [passed : [Phases -> {None, "plain", "forced"}], crashes : Nat,
               paused : Nat, waits : Nat, forced : BOOLEAN]
WorkPlaces == {"checking", "turn", "loading", "measuring", "recorded", "settled"}
RunnerStates == [at : {"off", "claiming", "choosing"} \cup WorkPlaces,
                 model : Models \cup {None}, force : BOOLEAN, quick : BOOLEAN,
                 loaded : Nat, attempted : SUBSET Models, stopping : BOOLEAN]

RunnerTypes == runner \in [Runners -> RunnerStates]
FileTypes == /\ progress \in [Models -> Progresses]
             /\ record \in [Models -> Records \cup {None}]
             /\ queue \in [Models -> {None, "plain", "force"}]
             /\ build \in Nat /\ owed \subseteq Models

\* A runner that is past the claim is the one that claimed.
Claimed(r) == runner[r].at \in WorkPlaces \cup {"choosing"} => claimed = r

\* The stamp of a forced run, as the runner that works finds it: gone when the
\* item is plain, there when it measures a forced one; and the quick check is
\* one of a record.
Prepared(r) ==
    LET m == runner[r].model IN
    /\ runner[r].at \in WorkPlaces => m \in Models
    /\ runner[r].at \in {"turn", "loading", "measuring"} /\ ~runner[r].force
          => ~progress[m].forced
    /\ runner[r].at = "measuring" /\ runner[r].force => progress[m].forced
    /\ runner[r].at = "measuring" /\ runner[r].quick
          => record[m] # None /\ ~runner[r].force
    /\ runner[r].quick => runner[r].at \in {"measuring", "recorded", "settled"}

\* What is measured under the stamp is measured by force.
Stamped(p) == p.forced => \A k \in Phases : p.passed[k] \in {None, "forced"}

\* No record vouches for an earlier measurement.
Earned(rec) == rec # None => ~rec.reused

\* A wait that has not seen a record is a queued one, and its model's turn is
\* not at its end.
WaitsQueued == \A m \in owed : queue[m] # None /\ ~Closing(m)

CalInv ==
    /\ RunnerTypes /\ FileTypes
    /\ \A r \in Runners : Claimed(r) /\ Prepared(r)
    /\ \A m \in Models : Stamped(progress[m]) /\ Earned(record[m])
    /\ WaitsQueued

\* Nothing is queued when the program is installed.
LEMMA CalInvInit == Init => CalInv
<1>. SUFFICES ASSUME Init PROVE CalInv
    OBVIOUS
<1>1. Idle \in RunnerStates /\ Idle.at = "off" /\ ~Idle.quick
    BY DEF Idle, RunnerStates
<1>2. RunnerTypes /\ \A r \in Runners : runner[r].at = "off" /\ ~runner[r].quick
    BY <1>1 DEF Init, RunnerTypes
<1>3. Fresh \in Progresses /\ ~Fresh.forced
    BY DEF Fresh, Progresses
<1>4. FileTypes /\ \A m \in Models : progress[m] = Fresh /\ record[m] = None
    BY <1>3 DEF Init, FileTypes
<1>5. \A r \in Runners : Claimed(r) /\ Prepared(r)
    BY <1>2 DEF Claimed, Prepared, WorkPlaces
<1>6. \A m \in Models : Stamped(progress[m]) /\ Earned(record[m])
    BY <1>3, <1>4 DEF Stamped, Earned
<1>7. WaitsQueued
    BY DEF Init, WaitsQueued
<1>. QED BY <1>2, <1>4, <1>5, <1>6, <1>7 DEF CalInv

\* Where one runner works, no other does.
LEMMA OthersIdle ==
    ASSUME CalInv, NEW r \in Runners, runner[r].at \in WorkPlaces \cup {"choosing"}
    PROVE  \A q \in Runners : q # r => runner[q].at \in {"off", "claiming"}
<1>. SUFFICES ASSUME NEW q \in Runners, q # r PROVE runner[q].at \in {"off", "claiming"}
    OBVIOUS
<1>1. runner[q].at \in {"off", "claiming", "choosing"} \cup WorkPlaces
    BY DEF CalInv, RunnerTypes, RunnerStates
<1>2. Claimed(r) /\ Claimed(q)
    BY DEF CalInv
<1>. QED BY <1>1, <1>2 DEF Claimed

\* A step of the runner r, which is past the claim, keeps the invariant when it
\* prepares r rightly and leaves the others alone.
LEMMA RunnerMoves ==
    ASSUME CalInv, NEW r \in Runners, runner[r].at \in WorkPlaces \cup {"choosing"},
           RunnerTypes', FileTypes',
           \A q \in Runners : q # r => runner'[q] = runner[q],
           Prepared(r)', runner'[r].at # "off" => claimed' = claimed,
           \A m \in Models : Stamped(progress[m])' /\ Earned(record[m])',
           \A m \in owed' : m \in owed /\ queue'[m] # None,
           runner'[r].at \in {"recorded", "settled"} => runner'[r].model \notin owed'
    PROVE  CalInv'
<1>1. \A q \in Runners : q # r => runner[q].at \in {"off", "claiming"}
    BY OthersIdle
<1>2. \A q \in Runners : q # r => runner'[q].at \in {"off", "claiming"}
    BY <1>1
<1>3. \A q \in Runners : Claimed(q)'
    <2>1. claimed = r
        BY DEF CalInv, Claimed
    <2>. QED BY <1>2, <2>1 DEF Claimed, WorkPlaces
<1>4. \A q \in Runners : Prepared(q)'
    <2>1. ASSUME NEW q \in Runners, q # r PROVE Prepared(q)'
        BY <1>1, <2>1 DEF CalInv, Prepared, WorkPlaces
    <2>. QED BY <2>1
<1>5. WaitsQueued'
    BY <1>2 DEF WaitsQueued, Closing
<1>. QED BY <1>3, <1>4, <1>5 DEF CalInv

\* The turn is over, or the runner leaves.
LEMMA Leaves ==
    ASSUME CalInv, NEW r \in Runners, runner[r].at \in WorkPlaces,
           Quit(r) \/ TurnOver(r) \/ Again(r), FileTypes',
           \A m \in Models : Stamped(progress[m])' /\ Earned(record[m])',
           \A m \in owed' : m \in owed /\ queue'[m] # None
    PROVE  CalInv'
<1>1. runner \in [Runners -> RunnerStates] /\ runner[r].model \in Models
    BY DEF CalInv, RunnerTypes, Prepared
<1>2. PICK s \in RunnerStates : /\ runner' = [runner EXCEPT ![r] = s]
                                /\ s.at \in {"off", "choosing"} /\ ~s.quick
                                /\ s.at # "off" => claimed' = claimed
    <2>1. CASE Quit(r)
        <3>1. Idle \in RunnerStates /\ Idle.at = "off" /\ ~Idle.quick
            BY DEF Idle, RunnerStates
        <3>. QED BY <2>1, <3>1 DEF Quit
    <2>2. CASE TurnOver(r)
        <3>. DEFINE s == [Idle EXCEPT !.at = "choosing", !.stopping = runner[r].stopping,
                            !.attempted = runner[r].attempted \cup {runner[r].model}]
        <3>1. s \in RunnerStates /\ s.at = "choosing" /\ ~s.quick
            BY <1>1 DEF Idle, RunnerStates
        <3>. QED BY <2>2, <3>1 DEF TurnOver
    <2>3. CASE Again(r)
        <3>. DEFINE s == [Idle EXCEPT !.at = "choosing", !.stopping = runner[r].stopping,
                                      !.attempted = runner[r].attempted]
        <3>1. s \in RunnerStates /\ s.at = "choosing" /\ ~s.quick
            BY <1>1 DEF Idle, RunnerStates
        <3>. QED BY <2>3, <3>1 DEF Again
    <2>. QED BY <2>1, <2>2, <2>3
<1>3. RunnerTypes' /\ runner'[r] = s /\ \A q \in Runners : q # r => runner'[q] = runner[q]
    BY <1>1, <1>2 DEF RunnerTypes
<1>4. Prepared(r)'
    BY <1>2, <1>3 DEF Prepared, WorkPlaces
<1>. QED BY <1>2, <1>3, <1>4, RunnerMoves

\* The record is written.
LEMMA Writes ==
    ASSUME CalInv, NEW r \in Runners, runner[r].at \in WorkPlaces,
           NEW rec \in Records, ~rec.reused, NEW p \in Progresses, Stamped(p),
           NEW goal \in {"recorded", "settled"}, Write(r, rec, goal),
           Save(runner[r].model, p), UNCHANGED <<queue, build>>
    PROVE  CalInv'
<1>. DEFINE m == runner[r].model
<1>1. runner \in [Runners -> RunnerStates] /\ m \in Models
    BY DEF CalInv, RunnerTypes, Prepared
<1>2. /\ record' = [record EXCEPT ![m] = rec]
      /\ owed' = owed \ {m}
      /\ runner' = [runner EXCEPT ![r].at = goal]
      /\ claimed' = claimed
      /\ progress' = [progress EXCEPT ![m] = p]
    BY DEF Write, GoTo, Save
<1>3. RunnerTypes' /\ runner'[r] = [runner[r] EXCEPT !.at = goal]
      /\ \A q \in Runners : q # r => runner'[q] = runner[q]
    BY SMTT(30), <1>1, <1>2 DEF RunnerTypes, RunnerStates, WorkPlaces
<1>4. runner'[r].at = goal /\ runner'[r].model = m
    BY <1>1, <1>3 DEF RunnerStates
<1>5. Prepared(r)'
    BY <1>1, <1>4 DEF Prepared, WorkPlaces
<1>6. FileTypes'
    BY <1>1, <1>2 DEF CalInv, FileTypes
<1>7. \A k \in Models : Stamped(progress[k])' /\ Earned(record[k])'
    BY <1>1, <1>2 DEF CalInv, FileTypes, Stamped, Earned
<1>8. \A k \in owed' : k \in owed /\ queue'[k] # None
    BY <1>2 DEF CalInv, WaitsQueued
<1>9. m \notin owed'
    BY <1>2
<1>. HIDE DEF m
<1>. QED BY <1>2, <1>3, <1>4, <1>5, <1>6, <1>7, <1>8, <1>9, RunnerMoves

\* The progress of the runner's model is saved, and nothing else is written.
LEMMA Saves ==
    ASSUME CalInv, NEW r \in Runners, runner[r].at \in WorkPlaces,
           NEW p \in Progresses, Stamped(p), Save(runner[r].model, p),
           UNCHANGED <<queue, build, record, owed>>
    PROVE  /\ FileTypes'
           /\ \A m \in Models : Stamped(progress[m])' /\ Earned(record[m])'
           /\ \A m \in owed' : m \in owed /\ queue'[m] # None
           /\ progress'[runner[r].model] = p
<1>1. runner[r].model \in Models
    BY DEF CalInv, Prepared
<1>2. progress' = [progress EXCEPT ![runner[r].model] = p] /\ progress \in [Models -> Progresses]
    BY DEF Save, CalInv, FileTypes
<1>. QED BY <1>1, <1>2 DEF CalInv, FileTypes, Stamped, Earned, WaitsQueued

\* The record of a failure vouches for nothing.
LEMMA FailureIsARecord ==
    ASSUME CalInv, NEW r \in Runners, runner[r].at \in {"loading", "measuring"},
           NEW status \in Statuses \ {"ok"}
    PROVE  FailedRecord(r, status) \in Records /\ ~FailedRecord(r, status).reused
<1>. DEFINE m == runner[r].model
<1>1. m \in Models /\ (runner[r].quick => record[m] # None)
    BY DEF CalInv, Prepared, WorkPlaces
<1>2. runner[r].loaded \in Nat /\ record[m] \in Records \cup {None} /\ Earned(record[m])
    BY <1>1 DEF CalInv, RunnerTypes, RunnerStates, FileTypes
<1>3. CASE runner[r].quick /\ status = "calibration-failed"
    <2>1. FailedRecord(r, status) = [record[m] EXCEPT !.status = "engine-check-failed"]
        BY <1>3 DEF FailedRecord
    <2>2. record[m] \in Records /\ ~record[m].reused
        BY <1>1, <1>2, <1>3 DEF Earned
    <2>. HIDE DEF m
    <2>3. ASSUME NEW old \in Records
          PROVE  /\ [old EXCEPT !.status = "engine-check-failed"] \in Records
                 /\ [old EXCEPT !.status = "engine-check-failed"].reused = old.reused
        BY DEF Records, Statuses
    <2>. QED BY <2>1, <2>2, <2>3
<1>4. CASE ~(runner[r].quick /\ status = "calibration-failed")
    <2>1. FailedRecord(r, status) = NewRecord(r, status)
        BY <1>4 DEF FailedRecord
    <2>. QED BY <1>2, <2>1 DEF NewRecord, Records, Statuses
<1>. QED BY <1>3, <1>4

\* An exception keeps the progress it is given, and counts.
LEMMA Raises ==
    ASSUME CalInv, CalibrationAssumption, NEW r \in Runners,
           runner[r].at \in {"loading", "measuring"},
           NEW p \in Progresses, Stamped(p), Raise(r, p), UNCHANGED <<queue, build>>
    PROVE  CalInv'
<1>. DEFINE m == runner[r].model
            broken == FailedRecord(r, "calibration-failed")
            counted == [p EXCEPT !.crashes = Counted(m)]
<1>1. runner[r].at \in WorkPlaces /\ m \in Models
    BY DEF WorkPlaces, CalInv, Prepared
<1>2. broken \in Records /\ ~broken.reused
    BY FailureIsARecord DEF Statuses
<1>3. Counted(m) \in Nat
    BY <1>1 DEF CalInv, FileTypes, Progresses, Counted, CalibrationAssumption
<1>4. counted \in Progresses /\ Stamped(counted)
    BY <1>3 DEF Progresses, Stamped
<1>5. CASE Stopped(r)
    <2>1. Quit(r) /\ Save(m, p) /\ UNCHANGED <<record, owed>>
        BY <1>5 DEF Raise
    <2>. QED BY <1>1, <2>1, Saves, Leaves
<1>6. CASE ~Stopped(r)
    <2>1. /\ Save(m, counted)
          /\ \/ (Again(r) \/ Quit(r)) /\ UNCHANGED <<record, owed>>
             \/ Write(r, broken, "recorded")
        BY <1>6 DEF Raise
    <2>2. CASE (Again(r) \/ Quit(r)) /\ UNCHANGED <<record, owed>>
        BY <1>1, <1>4, <2>1, <2>2, Saves, Leaves
    <2>3. CASE Write(r, broken, "recorded")
        BY <1>1, <1>2, <1>4, <2>1, <2>3, Writes
    <2>. QED BY <2>1, <2>2, <2>3
<1>. QED BY <1>5, <1>6

\* So does a record, written or not.
LEMMA Finishes ==
    ASSUME CalInv, CalibrationAssumption, NEW r \in Runners,
           runner[r].at \in {"loading", "measuring"},
           NEW rec \in Records, ~rec.reused, NEW p \in Progresses, Stamped(p),
           Finish(r, rec, p), UNCHANGED <<queue, build>>
    PROVE  CalInv'
<1>1. runner[r].at \in WorkPlaces
    BY DEF WorkPlaces
<1>2. CASE Writable(rec)
    BY <1>1, <1>2, Writes DEF Finish
<1>3. CASE ~Writable(rec)
    BY <1>3, Raises DEF Finish
<1>. QED BY <1>2, <1>3

\* The queue changes from outside, and who waits with it.
LEMMA QueueKeepsCalInv ==
    ASSUME CalInv, CalibrationAssumption, NEW m \in Models,
           Enqueue(m) \/ ForceQueue(m) \/ Unqueue(m)
    PROVE  CalInv'
<1>1. UNCHANGED <<record, progress, build, runner, claimed>>
    BY DEF Enqueue, ForceQueue, Unqueue
<1>2. /\ queue' \in [Models -> {None, "plain", "force"}] /\ owed' \subseteq Models
      /\ \A k \in owed' : queue'[k] # None /\ ~Closing(k)
    BY DEF CalInv, FileTypes, WaitsQueued, Enqueue, ForceQueue, Unqueue, Owe,
           CalibrationAssumption
<1>3. \A k \in Models : Closing(k)' = Closing(k)
    BY <1>1 DEF Closing
<1>4. RunnerTypes' /\ FileTypes'
    BY <1>1, <1>2 DEF CalInv, RunnerTypes, FileTypes
<1>5. \A r \in Runners : Claimed(r)' /\ Prepared(r)'
    BY <1>1 DEF CalInv, Claimed, Prepared
<1>6. \A k \in Models : Stamped(progress[k])' /\ Earned(record[k])'
    BY <1>1 DEF CalInv, Stamped, Earned
<1>7. WaitsQueued'
    BY <1>1, <1>2 DEF WaitsQueued, Closing
<1>. QED BY <1>4, <1>5, <1>6, <1>7 DEF CalInv

\* A step of a runner that touches no file.
LEMMA FilesStay ==
    ASSUME CalInv, RunnerTypes', UNCHANGED <<queue, record, progress, owed>>,
           build' \in Nat, \A r \in Runners : Claimed(r)' /\ Prepared(r)',
           \A r \in Runners : runner'[r].at \in {"recorded", "settled"}
                                => runner'[r] = runner[r]
    PROVE  CalInv'
<1>1. FileTypes'
    BY DEF CalInv, FileTypes
<1>2. \A m \in Models : Stamped(progress[m])' /\ Earned(record[m])'
    BY DEF CalInv, Stamped, Earned
<1>3. WaitsQueued'
    BY DEF CalInv, WaitsQueued, Closing
<1>. QED BY <1>1, <1>2, <1>3 DEF CalInv

\* A new build of the engine changes no runner and no claim.
LEMMA UpgradeKeepsCalInv == CalInv /\ Upgrade => CalInv'
<1>. SUFFICES ASSUME CalInv, Upgrade PROVE CalInv'
    OBVIOUS
<1>1. UNCHANGED <<queue, record, progress, owed, runner, claimed>> /\ build' \in Nat
    BY DEF CalInv, FileTypes, Upgrade, files
<1>2. RunnerTypes' /\ \A r \in Runners : Claimed(r)' /\ Prepared(r)'
    BY <1>1 DEF CalInv, RunnerTypes, Claimed, Prepared
<1>. QED BY <1>1, <1>2, FilesStay

\* A request to hand over is read by the runner later.
LEMMA HandoverKeepsCalInv ==
    ASSUME CalInv, NEW r \in Runners, AskHandover(r)
    PROVE  CalInv'
<1>1. UNCHANGED <<queue, record, progress, owed, runner, claimed, build>>
    BY DEF AskHandover, files
<1>2. RunnerTypes' /\ \A q \in Runners : Claimed(q)' /\ Prepared(q)'
    BY <1>1 DEF CalInv, RunnerTypes, Claimed, Prepared
<1>. QED BY <1>1, <1>2, FilesStay DEF CalInv, FileTypes

\* A runner that is started has claimed nothing yet.
LEMMA EnsureKeepsCalInv ==
    ASSUME CalInv, NEW r \in Runners, Ensure(r)
    PROVE  CalInv'
<1>1. /\ UNCHANGED <<queue, record, progress, owed, claimed, build>>
      /\ runner[r].at = "off" /\ runner' = [runner EXCEPT ![r].at = "claiming"]
    BY DEF Ensure, files, At, GoTo
<1>2. runner \in [Runners -> RunnerStates]
    BY DEF CalInv, RunnerTypes
<1>3. RunnerTypes' /\ runner'[r] = [runner[r] EXCEPT !.at = "claiming"]
      /\ \A q \in Runners : q # r => runner'[q] = runner[q]
    BY <1>1, <1>2 DEF RunnerTypes, RunnerStates
<1>4. runner'[r].at = "claiming" /\ ~runner'[r].quick
    BY <1>1, <1>2, <1>3 DEF RunnerStates, CalInv, Prepared
<1>5. \A q \in Runners : Claimed(q)' /\ Prepared(q)'
    BY <1>1, <1>3, <1>4 DEF CalInv, Claimed, Prepared, WorkPlaces
<1>. QED BY <1>1, <1>3, <1>4, <1>5, FilesStay DEF CalInv, FileTypes

\* A runner that claims the calibration finds no other that lives at it.
LEMMA ClaimKeepsCalInv ==
    ASSUME CalInv, CalibrationAssumption, NEW r \in Runners, Claim(r)
    PROVE  CalInv'
<1>1. /\ UNCHANGED <<queue, record, progress, owed, build>>
      /\ runner[r].at = "claiming"
    BY DEF Claim, files, At
<1>2. PICK goal \in {"off", "choosing"} :
          /\ runner' = [runner EXCEPT ![r].at = goal]
          /\ goal = "off" => claimed' = claimed
          /\ goal = "choosing" => claimed' = r /\ ~Live(r)
    BY DEF Claim, GoTo
<1>3. runner \in [Runners -> RunnerStates]
    BY DEF CalInv, RunnerTypes
<1>4. RunnerTypes' /\ runner'[r] = [runner[r] EXCEPT !.at = goal]
      /\ \A q \in Runners : q # r => runner'[q] = runner[q]
    BY <1>2, <1>3 DEF RunnerTypes, RunnerStates
<1>5. runner'[r].at = goal /\ ~runner'[r].quick
    BY <1>1, <1>3, <1>4 DEF RunnerStates, CalInv, Prepared
<1>6. ASSUME NEW q \in Runners PROVE Claimed(q)'
    BY <1>2, <1>4, <1>5, CalibrationAssumption
       DEF CalInv, Claimed, WorkPlaces, Live, CalibrationAssumption
<1>7. ASSUME NEW q \in Runners PROVE Prepared(q)'
    BY <1>1, <1>4, <1>5 DEF CalInv, Prepared, WorkPlaces
<1>. QED BY <1>1, <1>4, <1>5, <1>6, <1>7, FilesStay DEF CalInv, FileTypes

\* A runner that is told to stop reads it later: only the flag is set.
LEMMA StopKeepsCalInv ==
    ASSUME CalInv, NEW r \in Runners, Stop(r)
    PROVE  CalInv'
<1>1. /\ UNCHANGED <<queue, record, progress, owed, build, claimed>>
      /\ runner' = [runner EXCEPT ![r].stopping = TRUE]
      /\ runner[r].at \in {"choosing", "checking", "turn", "loading", "measuring"}
    BY DEF Stop, files, Awaits, At
<1>2. runner \in [Runners -> RunnerStates]
    BY DEF CalInv, RunnerTypes
<1>3. RunnerTypes' /\ runner'[r] = [runner[r] EXCEPT !.stopping = TRUE]
      /\ \A q \in Runners : q # r => runner'[q] = runner[q]
    BY ZenonT(30), <1>1, <1>2 DEF RunnerTypes, RunnerStates
<1>4. /\ runner'[r].at = runner[r].at /\ runner'[r].model = runner[r].model
      /\ runner'[r].force = runner[r].force /\ runner'[r].quick = runner[r].quick
    BY <1>2, <1>3 DEF RunnerStates
<1>5. ASSUME NEW q \in Runners PROVE Claimed(q)' /\ Prepared(q)'
    BY <1>1, <1>3, <1>4 DEF CalInv, Claimed, Prepared
<1>. QED BY <1>1, <1>3, <1>4, <1>5, FilesStay DEF CalInv, FileTypes

\* A runner that is killed leaves a claim of the dead.
LEMMA DieKeepsCalInv ==
    ASSUME CalInv, NEW r \in Runners, Die(r)
    PROVE  CalInv'
<1>1. /\ UNCHANGED <<queue, record, progress, owed, build>>
      /\ runner' = [runner EXCEPT ![r] = Idle]
      /\ claimed # r => claimed' = claimed
    BY DEF Die
<1>2. Idle \in RunnerStates /\ Idle.at = "off" /\ ~Idle.quick
    BY DEF Idle, RunnerStates
<1>3. RunnerTypes' /\ runner'[r] = Idle /\ \A q \in Runners : q # r => runner'[q] = runner[q]
    BY <1>1, <1>2 DEF CalInv, RunnerTypes
<1>4. ASSUME NEW q \in Runners PROVE Claimed(q)' /\ Prepared(q)'
    BY <1>1, <1>2, <1>3 DEF CalInv, Claimed, Prepared, WorkPlaces
<1>. QED BY <1>1, <1>2, <1>3, <1>4, FilesStay DEF CalInv, FileTypes

\* The runner takes the next model and its lock, or leaves it for this run.
LEMMA ChooseKeepsCalInv ==
    ASSUME CalInv, CalibrationAssumption, NEW r \in Runners, Choose(r)
    PROVE  CalInv'
<1>1. runner[r].at = "choosing" /\ UNCHANGED <<queue, record, progress, build, owed>>
    BY DEF Choose, At
<1>2. runner \in [Runners -> RunnerStates] /\ ~runner[r].quick
    BY <1>1 DEF CalInv, RunnerTypes, Prepared
<1>3. PICK s \in RunnerStates :
          /\ runner' = [runner EXCEPT ![r] = s]
          /\ s.at \in {"off", "choosing", "checking"} /\ ~s.quick
          /\ s.at = "checking" => s.model \in Models
          /\ s.at # "off" => claimed' = claimed
    <2>1. CASE Quit(r)
        <3>1. Idle \in RunnerStates /\ Idle.at = "off" /\ ~Idle.quick
            BY DEF Idle, RunnerStates
        <3>. QED BY <2>1, <3>1 DEF Quit
    <2>2. CASE \E m \in Models :
                 /\ runner' = [runner EXCEPT ![r].at = "checking", ![r].model = m,
                                             ![r].force = (queue[m] = "force")]
                 /\ UNCHANGED claimed
        <3>1. PICK m \in Models :
                 /\ runner' = [runner EXCEPT ![r].at = "checking", ![r].model = m,
                                             ![r].force = (queue[m] = "force")]
                 /\ UNCHANGED claimed
            BY <2>2
        <3>. DEFINE s == [runner[r] EXCEPT !.at = "checking", !.model = m,
                                           !.force = (queue[m] = "force")]
        <3>2. s \in RunnerStates /\ s.at = "checking" /\ ~s.quick /\ s.model = m
            BY <1>2 DEF RunnerStates, WorkPlaces
        <3>. QED BY <1>2, <3>1, <3>2
    <2>3. CASE \E m \in Models : /\ runner' = [runner EXCEPT ![r].attempted = @ \cup {m}]
                                 /\ UNCHANGED claimed
        <3>1. PICK m \in Models : /\ runner' = [runner EXCEPT ![r].attempted = @ \cup {m}]
                                  /\ UNCHANGED claimed
            BY <2>3
        <3>. DEFINE s == [runner[r] EXCEPT !.attempted = runner[r].attempted \cup {m}]
        <3>2. s \in RunnerStates /\ s.at = "choosing" /\ ~s.quick
            BY <1>1, <1>2 DEF RunnerStates
        <3>. QED BY <1>2, <3>1, <3>2
    <2>. QED BY <2>1, <2>2, <2>3 DEF Choose
<1>4. RunnerTypes' /\ runner'[r] = s /\ \A q \in Runners : q # r => runner'[q] = runner[q]
    BY <1>2, <1>3 DEF RunnerTypes
<1>5. Prepared(r)'
    BY <1>3, <1>4 DEF Prepared, WorkPlaces
<1>6. FileTypes' /\ \A m \in Models : Stamped(progress[m])' /\ Earned(record[m])'
    BY <1>1 DEF CalInv, FileTypes, Stamped, Earned
<1>7. \A m \in owed' : m \in owed /\ queue'[m] # None
    BY <1>1 DEF CalInv, WaitsQueued
<1>. QED BY <1>1, <1>3, <1>4, <1>5, <1>6, <1>7, RunnerMoves

\* The runner goes on with its model, with the progress p: s is what it carries.
LEMMA GoesOn ==
    ASSUME CalInv, NEW r \in Runners, runner[r].at \in WorkPlaces,
           NEW s \in RunnerStates, s.at \in {"turn", "loading", "measuring"},
           s.model = runner[r].model, s.force = runner[r].force,
           s.quick => /\ s.at = "measuring" /\ ~s.force
                      /\ record[s.model] # None,
           runner' = [runner EXCEPT ![r] = s], UNCHANGED claimed,
           NEW p \in Progresses, Stamped(p), Save(runner[r].model, p),
           ~s.force => ~p.forced, s.at = "measuring" /\ s.force => p.forced,
           UNCHANGED <<queue, build, record, owed>>
    PROVE  CalInv'
<1>1. /\ FileTypes' /\ \A m \in Models : Stamped(progress[m])' /\ Earned(record[m])'
      /\ \A m \in owed' : m \in owed /\ queue'[m] # None
      /\ progress'[s.model] = p
    BY Saves
<1>2. runner \in [Runners -> RunnerStates] /\ s.model \in Models
    BY DEF CalInv, RunnerTypes, Prepared
<1>3. RunnerTypes' /\ runner'[r] = s /\ \A q \in Runners : q # r => runner'[q] = runner[q]
    BY <1>2 DEF RunnerTypes
<1>4. Prepared(r)'
    BY <1>1, <1>2, <1>3 DEF Prepared
<1>. QED BY <1>1, <1>3, <1>4, RunnerMoves

\* The stamp goes where no forced item is left, and memory may be waited for.
LEMMA CheckKeepsCalInv ==
    ASSUME CalInv, CalibrationAssumption, NEW r \in Runners, Check(r)
    PROVE  CalInv'
<1>. DEFINE m == runner[r].model
            p == [progress[m] EXCEPT !.forced = IF Leftover(r, m) THEN FALSE ELSE @]
            waited == [p EXCEPT !.waits = @ + 1]
            s == [runner[r] EXCEPT !.at = "turn"]
<1>1. runner[r].at = "checking" /\ runner[r].at \in WorkPlaces
      /\ UNCHANGED <<queue, record, build, owed>>
    BY DEF Check, At, WorkPlaces
<1>2. m \in Models /\ runner[r] \in RunnerStates /\ ~runner[r].quick
    BY <1>1 DEF CalInv, RunnerTypes, Prepared
<1>3. progress[m] \in Progresses /\ Stamped(progress[m])
    BY <1>2 DEF CalInv, FileTypes
<1>4. p \in Progresses /\ waited \in Progresses
    <2>1. \A b \in BOOLEAN : [progress[m] EXCEPT !.forced = b] \in Progresses
        BY <1>3 DEF Progresses
    <2>2. progress[m].forced \in BOOLEAN
        BY <1>3 DEF Progresses
    <2>3. p \in Progresses
        BY <2>1, <2>2
    <2>4. \A q \in Progresses : [q EXCEPT !.waits = @ + 1] \in Progresses
        BY DEF Progresses
    <2>. HIDE DEF p
    <2>. QED BY <2>3, <2>4
<1>5. ~runner[r].force => ~p.forced
    BY <1>3 DEF Leftover, Progresses
<1>6. Stamped(p) /\ Stamped(waited)
    BY <1>3 DEF Stamped, Progresses, Leftover
<1>7. CASE Save(m, p) /\ GoTo(r, "turn") /\ UNCHANGED claimed
    <2>1. s \in RunnerStates /\ s.at = "turn" /\ s.model = m
          /\ s.force = runner[r].force /\ ~s.quick
        BY <1>2 DEF RunnerStates, WorkPlaces
    <2>2. runner' = [runner EXCEPT ![r] = s]
        BY <1>7 DEF GoTo
    <2>. HIDE DEF s, p
    <2>. QED BY <1>1, <1>4, <1>5, <1>6, <1>7, <2>1, <2>2, GoesOn
<1>8. CASE Save(m, waited) /\ TurnOver(r)
    <2>. HIDE DEF waited
    <2>. QED BY <1>1, <1>4, <1>6, <1>8, Saves, Leaves
<1>. QED BY <1>7, <1>8 DEF Check

\* The broker is idle, or stays busy for so long that the runner leaves.
LEMMA TurnKeepsCalInv ==
    ASSUME CalInv, CalibrationAssumption, NEW r \in Runners, Turn(r)
    PROVE  CalInv'
<1>. DEFINE m == runner[r].model
            s == [runner[r] EXCEPT !.at = "loading"]
<1>1. runner[r].at = "turn" /\ runner[r].at \in WorkPlaces
      /\ UNCHANGED <<queue, record, progress, build, owed>>
    BY DEF Turn, At, WorkPlaces
<1>2. m \in Models /\ runner[r] \in RunnerStates /\ ~runner[r].quick
    BY <1>1 DEF CalInv, RunnerTypes, Prepared
<1>3. progress[m] \in Progresses /\ Stamped(progress[m])
      /\ (~runner[r].force => ~progress[m].forced)
    BY <1>1, <1>2 DEF CalInv, FileTypes, Prepared
<1>4. Save(m, progress[m])
    BY <1>1, <1>2 DEF CalInv, FileTypes, Save
<1>5. CASE GoTo(r, "loading") /\ UNCHANGED claimed
    <2>1. s \in RunnerStates /\ s.at = "loading" /\ s.model = m
          /\ s.force = runner[r].force /\ ~s.quick
        BY <1>2 DEF RunnerStates, WorkPlaces
    <2>2. runner' = [runner EXCEPT ![r] = s]
        BY <1>5 DEF GoTo
    <2>. HIDE DEF s
    <2>. QED BY <1>1, <1>3, <1>4, <1>5, <2>1, <2>2, GoesOn
<1>6. CASE Quit(r)
    BY <1>1, <1>3, <1>4, <1>6, Saves, Leaves
<1>. QED BY <1>5, <1>6 DEF Turn

\* The model is loaded: a valid record stays, and measuring begins under the
\* stamp of a forced item.
LEMMA LoadKeepsCalInv ==
    ASSUME CalInv, CalibrationAssumption, NEW r \in Runners, Load(r)
    PROVE  CalInv'
<1>. DEFINE m == runner[r].model
            start == IF ResetPending(r, progress[m])
                       THEN [Fresh EXCEPT !.forced = TRUE] ELSE progress[m]
            quick == QuickCheck(r, m)
            p == IF quick THEN [start EXCEPT !.passed[1] = None] ELSE start
            s == [runner[r] EXCEPT !.at = "measuring", !.quick = quick, !.loaded = build]
<1>1. runner[r].at = "loading" /\ runner[r].at \in WorkPlaces
      /\ UNCHANGED <<queue, build>>
    BY DEF Load, At, WorkPlaces
<1>2. m \in Models /\ runner[r] \in RunnerStates /\ build \in Nat
    BY <1>1 DEF CalInv, RunnerTypes, FileTypes, Prepared
<1>3. progress[m] \in Progresses /\ Stamped(progress[m])
      /\ (~runner[r].force => ~progress[m].forced)
    BY <1>1, <1>2 DEF CalInv, FileTypes, Prepared
<1>4. CASE Valid(r, m) /\ Rewritten(r, m) /\ UNCHANGED progress
    <2>1. record[m] \in Records /\ ~record[m].reused
        BY <1>2, <1>4 DEF CalInv, FileTypes, Valid, Earned
    <2>2. Save(m, progress[m])
        BY <1>2, <1>4 DEF CalInv, FileTypes, Save
    <2>. QED BY <1>1, <1>3, <1>4, <2>1, <2>2, Writes DEF Rewritten
<1>5. CASE /\ Save(m, p) /\ UNCHANGED <<record, owed, claimed>>
           /\ runner' = [runner EXCEPT ![r].at = "measuring", ![r].quick = quick,
                                       ![r].loaded = build]
    <2>1. quick \in BOOLEAN /\ (quick => record[m] # None /\ ~runner[r].force)
        BY DEF QuickCheck, Stale
    <2>. HIDE DEF quick
    <2>2. [Fresh EXCEPT !.forced = TRUE] \in Progresses
          /\ Stamped([Fresh EXCEPT !.forced = TRUE])
        BY DEF Fresh, Progresses, Stamped
    <2>3. start \in Progresses /\ Stamped(start)
        BY <1>3, <2>2
    <2>4. (~runner[r].force => ~start.forced) /\ (runner[r].force => start.forced)
        BY <1>3 DEF ResetPending, Fresh, Progresses
    <2>. HIDE DEF start
    <2>5. p \in Progresses /\ p.forced = start.forced
        BY <2>3 DEF Progresses
    <2>6. Stamped(p)
        BY <2>3 DEF Progresses, Stamped
    <2>7. s \in RunnerStates /\ s.at = "measuring" /\ s.model = m
          /\ s.force = runner[r].force /\ s.quick = quick
        BY <1>2, <2>1 DEF RunnerStates, WorkPlaces
    <2>8. runner' = [runner EXCEPT ![r] = s]
        BY <1>2, <1>5 DEF CalInv, RunnerTypes
    <2>. HIDE DEF s, p
    <2>. QED BY <1>1, <1>5, <2>1, <2>4, <2>5, <2>6, <2>7, <2>8, GoesOn
<1>6. CASE Raise(r, progress[m])
    BY <1>1, <1>3, <1>6, Raises
<1>. QED BY <1>4, <1>5, <1>6 DEF Load

\* A phase passes, fails, pauses, waits or raises.
LEMMA PhaseKeepsCalInv ==
    ASSUME CalInv, CalibrationAssumption, NEW r \in Runners,
           runner[r].at = "measuring", NEW k, Phase(r, k), UNCHANGED <<queue, build>>
    PROVE  CalInv'
<1>. DEFINE m == runner[r].model
            was == progress[m]
            passed == [was EXCEPT
                        !.passed[k] = IF runner[r].force THEN "forced" ELSE "plain",
                        !.paused = 0, !.waits = 0]
            limited == IF HasStatus(m, "ok") /\ ~Stale(m, runner[r].loaded)
                         THEN record[m] ELSE FailedRecord(r, "memory-limited")
<1>1. runner[r].at \in WorkPlaces /\ m \in Models
    BY DEF WorkPlaces, CalInv, Prepared
<1>2. was \in Progresses /\ Stamped(was)
    BY <1>1 DEF CalInv, FileTypes
<1>3. CASE Quit(r) /\ UNCHANGED <<progress, record, owed>>
    <2>1. Save(m, was)
        BY <1>1, <1>3 DEF CalInv, FileTypes, Save
    <2>. QED BY <1>1, <1>2, <1>3, <2>1, Saves, Leaves
<1>4. CASE Save(m, passed) /\ UNCHANGED <<record, owed, runner, claimed>>
    <2>1. passed \in Progresses /\ passed.forced = was.forced
        BY <1>2 DEF Progresses
    <2>2. Stamped(passed)
        <3>1. CASE runner[r].force
            BY <1>2, <3>1 DEF Stamped, Progresses
        <3>2. CASE ~runner[r].force
            BY <3>2, <1>1, <2>1 DEF CalInv, Prepared, Stamped
        <3>. QED BY <3>1, <3>2
    <2>3. runner[r] \in RunnerStates /\ runner' = [runner EXCEPT ![r] = runner[r]]
        BY <1>4 DEF CalInv, RunnerTypes
    <2>4. /\ runner[r].quick => record[m] # None /\ ~runner[r].force
          /\ ~runner[r].force => ~was.forced
          /\ runner[r].force => was.forced
        BY <1>1 DEF CalInv, Prepared
    <2>. HIDE DEF passed
    <2>. QED BY <1>1, <1>4, <2>1, <2>2, <2>3, <2>4, GoesOn
<1>5. CASE Finish(r, FailedRecord(r, "calibration-failed"), was)
    <2>1. /\ FailedRecord(r, "calibration-failed") \in Records
          /\ ~FailedRecord(r, "calibration-failed").reused
        BY FailureIsARecord DEF Statuses
    <2>. QED BY <1>2, <1>5, <2>1, Finishes
<1>6. CASE /\ Save(m, [was EXCEPT !.paused = 1])
           /\ TurnOver(r) /\ UNCHANGED <<record, owed>>
    <2>1. [was EXCEPT !.paused = 1] \in Progresses /\ Stamped([was EXCEPT !.paused = 1])
        BY <1>2 DEF Progresses, Stamped
    <2>. QED BY <1>1, <1>6, <2>1, Saves, Leaves
<1>7. CASE /\ Save(m, [was EXCEPT !.waits = @ + 1])
           /\ TurnOver(r) /\ UNCHANGED <<record, owed>>
    <2>1. [was EXCEPT !.waits = @ + 1] \in Progresses
          /\ Stamped([was EXCEPT !.waits = @ + 1])
        BY <1>2 DEF Progresses, Stamped
    <2>. QED BY <1>1, <1>7, <2>1, Saves, Leaves
<1>8. CASE Finish(r, limited, [was EXCEPT !.waits = 0])
    <2>1. [was EXCEPT !.waits = 0] \in Progresses /\ Stamped([was EXCEPT !.waits = 0])
        BY <1>2 DEF Progresses, Stamped
    <2>2. limited \in Records /\ ~limited.reused
        <3>1. CASE limited = record[m] /\ record[m] # None
            BY <1>1, <3>1 DEF CalInv, FileTypes, Earned
        <3>2. CASE limited = FailedRecord(r, "memory-limited")
            BY <3>2, FailureIsARecord DEF Statuses
        <3>. QED BY <3>1, <3>2 DEF HasStatus
    <2>. HIDE DEF limited
    <2>. QED BY <1>8, <2>1, <2>2, Finishes
<1>9. CASE Raise(r, was)
    BY <1>2, <1>9, Raises
<1>. QED BY <1>3, <1>4, <1>5, <1>6, <1>7, <1>8, <1>9 DEF Phase

\* All passed: an ok record of a forced run rests on its own phases.
LEMMA ConcludeKeepsCalInv ==
    ASSUME CalInv, CalibrationAssumption, NEW r \in Runners,
           runner[r].at = "measuring", Missing(r) = {},
           Conclude(r), UNCHANGED <<queue, build>>
    PROVE  CalInv'
<1>. DEFINE m == runner[r].model
            rec == IF runner[r].quick
                     THEN [record[m] EXCEPT !.status = "ok", !.checked = runner[r].loaded]
                     ELSE NewRecord(r, "ok")
<1>1. runner[r].at \in WorkPlaces /\ m \in Models /\ runner[r] \in RunnerStates
    BY DEF WorkPlaces, CalInv, RunnerTypes, Prepared
<1>2. progress[m] \in Progresses /\ Stamped(progress[m])
    BY <1>1 DEF CalInv, FileTypes
<1>3. rec \in Records /\ ~rec.reused
    <2>1. CASE runner[r].quick
        <3>1. record[m] \in Records /\ ~record[m].reused
            BY <1>1, <2>1 DEF CalInv, FileTypes, Prepared, Earned
        <3>2. \A old \in Records, on \in Nat :
                 /\ [old EXCEPT !.status = "ok", !.checked = on] \in Records
                 /\ [old EXCEPT !.status = "ok", !.checked = on].reused = old.reused
            BY DEF Records, Statuses
        <3>3. runner[r].loaded \in Nat
            BY <1>1 DEF RunnerStates
        <3>. HIDE DEF m
        <3>. QED BY <2>1, <3>1, <3>2, <3>3
    <2>2. CASE ~runner[r].quick
        <3>1. \A k \in Phases : progress[m].passed[k] # None
            BY <2>2 DEF Missing, Due
        <3>2. runner[r].force => progress[m].forced
            BY DEF CalInv, Prepared
        <3>3. runner[r].force => \A k \in Phases : progress[m].passed[k] = "forced"
            BY <1>2, <3>1, <3>2 DEF Stamped
        <3>4. /\ NewRecord(r, "ok").status = "ok"
              /\ NewRecord(r, "ok").reused = (runner[r].force /\
                     \E k \in Phases : progress[m].passed[k] # "forced")
              /\ NewRecord(r, "ok") \in Records
            BY <1>1 DEF NewRecord, Records, Statuses, RunnerStates
        <3>. QED BY <2>2, <3>3, <3>4
    <2>. QED BY <2>1, <2>2
<1>4. Finish(r, rec, progress[m])
    BY DEF Conclude
<1>. HIDE DEF rec
<1>. QED BY <1>2, <1>3, <1>4, Finishes

\* A runner measures the first phase that is missing, or concludes.
LEMMA MeasureKeepsCalInv ==
    ASSUME CalInv, CalibrationAssumption, NEW r \in Runners, Measure(r)
    PROVE  CalInv'
<1>1. runner[r].at = "measuring" /\ UNCHANGED <<queue, build>>
    BY DEF Measure, At
<1>2. CASE Missing(r) = {}
    BY <1>1, <1>2, ConcludeKeepsCalInv DEF Measure
<1>3. CASE Missing(r) # {}
    <2>1. Phase(r, CHOOSE k \in Missing(r) : \A q \in Missing(r) : k <= q)
        BY <1>3 DEF Measure
    <2>. QED BY <1>1, <2>1, PhaseKeepsCalInv
<1>. QED BY <1>2, <1>3

\* The record ends the forced run.
LEMMA SettleKeepsCalInv ==
    ASSUME CalInv, CalibrationAssumption, NEW r \in Runners, Settle(r)
    PROVE  CalInv'
<1>. DEFINE m == runner[r].model
            old == [k \in Phases |-> IF progress[m].passed[k] = None THEN None ELSE "plain"]
            p == [progress[m] EXCEPT !.crashes = 0, !.forced = FALSE, !.passed = old]
<1>1. /\ runner[r].at = "recorded" /\ runner[r].at \in WorkPlaces
      /\ UNCHANGED <<queue, record, build, claimed, owed>>
      /\ Save(m, p) /\ runner' = [runner EXCEPT ![r].at = "settled"]
    BY DEF Settle, At, GoTo, WorkPlaces
<1>2. m \in Models /\ runner \in [Runners -> RunnerStates]
    BY <1>1 DEF CalInv, RunnerTypes, Prepared
<1>3. p \in Progresses /\ ~p.forced
    BY ZenonT(30), <1>2 DEF CalInv, FileTypes, Progresses
<1>4. Stamped(p)
    BY <1>3 DEF Stamped
<1>. HIDE DEF p
<1>5. /\ FileTypes' /\ \A k \in Models : Stamped(progress[k])' /\ Earned(record[k])'
      /\ \A k \in owed' : k \in owed /\ queue'[k] # None
    BY <1>1, <1>3, <1>4, Saves
<1>6. RunnerTypes' /\ runner'[r] = [runner[r] EXCEPT !.at = "settled"]
      /\ \A q \in Runners : q # r => runner'[q] = runner[q]
    BY <1>1, <1>2 DEF RunnerTypes, RunnerStates, WorkPlaces
<1>7. runner'[r].at = "settled" /\ runner'[r].model = m
    BY <1>2, <1>6 DEF RunnerStates
<1>8. Prepared(r)'
    BY <1>2, <1>7 DEF Prepared
<1>9. m \notin owed'
    BY <1>1 DEF CalInv, WaitsQueued, Closing
<1>. QED BY <1>1, <1>5, <1>6, <1>7, <1>8, <1>9, RunnerMoves

\* The item leaves the queue, where the state lock is not busy.
LEMMA DequeueKeepsCalInv ==
    ASSUME CalInv, CalibrationAssumption, NEW r \in Runners, Dequeue(r)
    PROVE  CalInv'
<1>. DEFINE m == runner[r].model
<1>1. /\ runner[r].at = "settled" /\ runner[r].at \in WorkPlaces
      /\ UNCHANGED <<record, progress, build, owed>> /\ TurnOver(r)
      /\ queue' \in {queue, [queue EXCEPT ![m] = None]}
    BY DEF Dequeue, At, WorkPlaces
<1>2. m \in Models /\ m \notin owed
    BY <1>1 DEF CalInv, Prepared, WaitsQueued, Closing
<1>3. FileTypes'
    BY <1>1, <1>2 DEF CalInv, FileTypes
<1>4. \A k \in Models : Stamped(progress[k])' /\ Earned(record[k])'
    BY <1>1 DEF CalInv, Stamped, Earned
<1>5. \A k \in owed' : k \in owed /\ queue'[k] # None
    BY <1>1, <1>2 DEF CalInv, FileTypes, WaitsQueued
<1>. QED BY <1>1, <1>3, <1>4, <1>5, Leaves

\* Every step of the runners keeps their invariant.
LEMMA CalInvStep == CalInv /\ [Next]_vars => CalInv'
<1>. SUFFICES ASSUME CalInv, [Next]_vars PROVE CalInv'
    OBVIOUS
<1>. USE CalibrationAssumption
<1>1. CASE UNCHANGED vars
    BY <1>1 DEF vars, files, bounds, CalInv, RunnerTypes, FileTypes, Claimed,
                Prepared, Stamped, Earned, WaitsQueued, Closing
<1>2. ASSUME NEW m \in Models, Enqueue(m) \/ ForceQueue(m) \/ Unqueue(m) PROVE CalInv'
    BY <1>2, QueueKeepsCalInv
<1>3. ASSUME NEW r \in Runners, Step(r) PROVE CalInv'
    BY <1>3, ClaimKeepsCalInv, ChooseKeepsCalInv, CheckKeepsCalInv, TurnKeepsCalInv,
       LoadKeepsCalInv, MeasureKeepsCalInv, SettleKeepsCalInv, DequeueKeepsCalInv
       DEF Step
<1>4. ASSUME NEW r \in Runners, Ensure(r) \/ AskHandover(r) \/ Stop(r) \/ Die(r)
      PROVE CalInv'
    BY <1>4, EnsureKeepsCalInv, HandoverKeepsCalInv, StopKeepsCalInv, DieKeepsCalInv
<1>. QED BY <1>1, <1>2, <1>3, <1>4, UpgradeKeepsCalInv DEF Next

\* The runners and their files are as the definitions say, whatever is killed,
\* stopped, handed over, queued and removed meanwhile.
THEOREM RunnersAreTyped == Spec => [](RunnerTypes /\ FileTypes)
<1>. USE CalibrationAssumption
<1>. QED BY CalInvInit, CalInvStep, PTL DEF Spec, CalInv

\* One runner works in a config dir, and it is the one in its state file.
THEOREM OneWorks == Spec => []OneRunner
<1>1. CalInv => OneRunner
    <2>. SUFFICES ASSUME CalInv PROVE OneRunner
        OBVIOUS
    <2>1. \A r \in Working : r \in Runners /\ claimed = r
        BY DEF Working, CalInv, Claimed, WorkPlaces
    <2>2. Working \subseteq {claimed}
        BY <2>1
    <2>3. Cardinality({claimed}) = 1 /\ IsFiniteSet({claimed})
        BY FS_Singleton
    <2>4. Cardinality(Working) <= Cardinality({claimed})
        BY <2>2, <2>3, FS_Subset
    <2>. QED BY <2>1, <2>3, <2>4 DEF OneRunner
<1>. QED BY <1>1, CalInvInit, CalInvStep, PTL DEF Spec

\* A model leaves the queue through the runner only after a record was written.
THEOREM RecordsEndWaits == Spec => []RecordEndsWait
<1>1. CalInv => RecordEndsWait
    BY DEF CalInv, WaitsQueued, RecordEndsWait
<1>. QED BY <1>1, CalInvInit, CalInvStep, PTL DEF Spec

\* The ok record of a forced run rests on phases measured after its reset.
THEOREM ForceMeasuresAgain == Spec => []ForcedRemeasures
<1>1. CalInv => ForcedRemeasures
    BY DEF CalInv, Earned, ForcedRemeasures
<1>. QED BY <1>1, CalInvInit, CalInvStep, PTL DEF Spec

\* A step of one runner is not a step of another.
LEMMA OthersStay ==
    ASSUME CalInv, NEW q \in Runners, NEW r \in Runners, q # r,
           Ensure(q) \/ Step(q) \/ Stop(q) \/ Die(q)
    PROVE  runner'[r] = runner[r]
<1>1. runner \in [Runners -> RunnerStates]
    BY DEF CalInv, RunnerTypes
<1>2. ASSUME NEW where, GoTo(q, where) PROVE runner'[r] = runner[r]
    BY <1>1, <1>2 DEF GoTo
<1>3. ASSUME Quit(q) \/ TurnOver(q) \/ Again(q) PROVE runner'[r] = runner[r]
    BY <1>1, <1>3 DEF Quit, TurnOver, Again
<1>4. ASSUME NEW p, Raise(q, p) PROVE runner'[r] = runner[r]
    BY <1>2, <1>3, <1>4 DEF Raise, Write
<1>5. ASSUME NEW rec, NEW p, Finish(q, rec, p) PROVE runner'[r] = runner[r]
    BY <1>2, <1>4, <1>5 DEF Finish, Write
<1>6. CASE Ensure(q) \/ Claim(q) \/ Turn(q) \/ Settle(q) \/ Dequeue(q) \/ Check(q)
    BY <1>2, <1>3, <1>6 DEF Ensure, Claim, Turn, Settle, Dequeue, Check
<1>7. CASE Choose(q)
    BY <1>1, <1>3, <1>7 DEF Choose
<1>8. CASE Stop(q) \/ Die(q)
    BY <1>1, <1>8 DEF Stop, Die
<1>9. CASE Load(q)
    BY <1>1, <1>2, <1>4, <1>9 DEF Load, Rewritten, Write
<1>10. CASE Measure(q)
    <2>1. CASE Missing(q) = {}
        BY <1>5, <1>10, <2>1 DEF Measure, Conclude
    <2>2. CASE Missing(q) # {}
        BY <1>3, <1>4, <1>5, <1>10, <2>2 DEF Measure, Phase
    <2>. QED BY <2>1, <2>2
<1>. QED BY <1>6, <1>7, <1>8, <1>9, <1>10 DEF Step

\* What is left behind by a stopped runner.
LEMMA StoppedLeaves ==
    ASSUME CalInv, NEW r \in Runners, runner[r].stopping,
           runner[r].at \in {"loading", "measuring"}, Load(r) \/ Measure(r)
    PROVE  LET m == runner[r].model IN
           /\ progress'[m].crashes <= progress[m].crashes
           /\ record'[m] = record[m] \/ record'[m].status = "ok"
<1>. DEFINE m == runner[r].model
<1>1. m \in Models /\ progress \in [Models -> Progresses]
      /\ record \in [Models -> Records \cup {None}]
    BY DEF CalInv, Prepared, WorkPlaces, FileTypes
<1>2. progress[m] \in Progresses /\ progress[m].crashes \in Nat
    BY <1>1 DEF Progresses
<1>3. ASSUME Save(m, progress[m]), UNCHANGED record
      PROVE  progress'[m] = progress[m] /\ record'[m] = record[m]
    BY <1>1, <1>3 DEF Save
<1>4. ASSUME Raise(r, progress[m])
      PROVE  progress'[m] = progress[m] /\ record'[m] = record[m]
    BY <1>3, <1>4 DEF Raise, Stopped
<1>5. CASE Load(r)
    <2>. DEFINE start == IF ResetPending(r, progress[m])
                           THEN [Fresh EXCEPT !.forced = TRUE] ELSE progress[m]
                p == IF QuickCheck(r, m) THEN [start EXCEPT !.passed[1] = None] ELSE start
    <2>1. CASE Rewritten(r, m) /\ UNCHANGED progress
        BY <1>1, <1>2, <2>1 DEF Rewritten, Write
    <2>2. CASE Save(m, p) /\ UNCHANGED record
        <3>1. Fresh \in Progresses /\ Fresh.crashes = 0
              /\ [Fresh EXCEPT !.forced = TRUE] \in Progresses
              /\ [Fresh EXCEPT !.forced = TRUE].crashes = 0
            BY DEF Fresh, Progresses
        <3>2. start \in Progresses /\ start.crashes <= progress[m].crashes
            BY <1>2, <3>1
        <3>. HIDE DEF start
        <3>3. p.crashes = start.crashes
            BY <3>2 DEF Progresses
        <3>. HIDE DEF p
        <3>4. progress'[m] = p
            BY <1>1, <2>2 DEF Save
        <3>. QED BY <2>2, <3>2, <3>3, <3>4
    <2>. QED BY SMTT(30), <1>2, <1>4, <1>5, <2>1, <2>2 DEF Load
<1>6. CASE Measure(r)
    <2>1. CASE Missing(r) = {}
        <3>. DEFINE rec == IF runner[r].quick
                             THEN [record[m] EXCEPT !.status = "ok", !.checked = runner[r].loaded]
                             ELSE NewRecord(r, "ok")
        <3>1. Finish(r, rec, progress[m])
            BY <1>6, <2>1 DEF Measure, Conclude
        <3>2. runner[r].quick => record[m] \in Records
            BY <1>1 DEF CalInv, Prepared, RunnerTypes, RunnerStates
        <3>3. rec.status = "ok"
            BY <3>2 DEF NewRecord, Records
        <3>. HIDE DEF rec
        <3>4. CASE Write(r, rec, "recorded") /\ Save(m, progress[m])
            <4>1. record'[m] = rec /\ progress'[m] = progress[m]
                BY <1>1, <3>4 DEF Write, Save
            <4>. QED BY <1>2, <3>3, <4>1
        <3>. QED BY <1>2, <1>4, <3>1, <3>4 DEF Finish
    <2>2. CASE Missing(r) # {}
        <3>1. UNCHANGED <<progress, record>> \/ Raise(r, progress[m])
            BY <1>6, <2>2 DEF Measure, Phase, Stopped
        <3>. QED BY <1>2, <1>4, <3>1
    <2>. QED BY <2>1, <2>2
<1>. QED BY <1>5, <1>6

\* A stop never moves a model toward a failed calibration.
THEOREM StopsCountNothing == Spec => StopCountsNothing
<1>1. ASSUME CalInv, [Next]_vars, NEW r \in Runners PROVE CountsNothing(r)
    <2>. DEFINE m == runner[r].model
    <2>. SUFFICES ASSUME runner[r].stopping, runner[r].at \in {"loading", "measuring"},
                         runner'[r] # runner[r]
                  PROVE  /\ progress'[m].crashes <= progress[m].crashes
                         /\ record'[m] = record[m] \/ record'[m].status = "ok"
        BY DEF CountsNothing
    <2>1. CASE UNCHANGED runner
        BY <2>1
    <2>2. ASSUME NEW q \in Runners, Ensure(q) \/ Step(q) \/ Stop(q) \/ Die(q)
          PROVE  /\ progress'[m].crashes <= progress[m].crashes
                 /\ record'[m] = record[m] \/ record'[m].status = "ok"
        <3>1. q = r
            BY <1>1, <2>2, OthersStay
        <3>2. CASE Load(r) \/ Measure(r)
            BY <1>1, <3>2, StoppedLeaves
        <3>3. CASE Die(r)
            <4>1. UNCHANGED <<progress, record>>
                BY <3>3 DEF Die
            <4>2. progress[m].crashes \in Nat
                BY <1>1 DEF CalInv, Prepared, WorkPlaces, FileTypes, Progresses
            <4>. QED BY <4>1, <4>2
        <3>. QED BY <2>2, <3>1, <3>2, <3>3
             DEF Step, Ensure, Stop, Claim, Choose, Check, Turn, Settle, Dequeue, At
    <2>. QED BY <1>1, <2>1, <2>2 DEF Next, vars, Enqueue, ForceQueue, Unqueue, Upgrade,
                AskHandover
<1>2. CalInv /\ [Next]_vars => [\A r \in Runners : CountsNothing(r)]_vars
    BY <1>1
<1>. QED BY <1>2, CalInvInit, CalInvStep, PTL DEF Spec, StopCountsNothing

-----------------------------------------------------------------------------
(* ProfileUpdate.  The command that started the update is served by its    *)
(* child until the pass is stamped; else the child was killed before that, *)
(* or ended without the stamp.                                             *)

UpdateTypes ==
    /\ now \in Int
    /\ at \in [Commands -> Update!Places] /\ role \in [Commands -> {None, "started", "running"}]
    /\ base \in [Commands -> Int] /\ heldSeen \in [Commands -> BOOLEAN]
    /\ child \in Update!Children(Int) \cup {None}
    /\ {lastBench, lastMaint, lastFail} \subseteq Int

\* The stamp says that an update was made since the command asked.
Heard(c) == lastMaint >= base[c]

\* The child that serves the command has yet to run the maintainer pass.
Underway(c) == /\ child # None /\ child.by = c
               /\ child.at \in {"started", "updating"}
               /\ child.at = "updating" => child.since >= base[c]

\* The stamp is no later than the clock, and the next one no earlier.
StampsGrow ==
    /\ lastMaint <= now
    /\ \A c \in Commands : base[c] <= now
    /\ child # None => lastMaint <= child.since /\ child.since <= now

Served(c) ==
    /\ role[c] = "started" /\ at[c] \in {"waiting", "reading"}
         => c \in unbooked \/ Underway(c) \/ Heard(c)
    /\ role[c] = "started" /\ at[c] = "reading" /\ ~heldSeen[c]
         => c \in unbooked \/ Heard(c)
    /\ role[c] = "started" /\ at[c] = "ended" => c \in unbooked
    /\ role[c] = "started" =>
         at[c] \notin {"idle", "marking", "judging", "claiming", "refused"}

UpdateInv ==
    /\ UpdateTypes /\ StampsGrow
    /\ \A c \in Commands : Served(c)
    /\ late # {} => Update!Looking

\* Nothing was asked for, and nobody waits.
LEMMA UpdateInit == Update!Init => UpdateInv
<1>. SUFFICES ASSUME Update!Init PROVE UpdateInv
    OBVIOUS
<1>1. UpdateTypes
    BY UpdateAssumption DEF Update!Init, UpdateTypes, Update!Places, UpdateAssumption
<1>2. StampsGrow
    BY UpdateAssumption DEF Update!Init, StampsGrow, UpdateAssumption
<1>3. \A c \in Commands : Served(c)
    BY UpdateAssumption DEF Update!Init, Served, UpdateAssumption
<1>4. late = {}
    BY DEF Update!Init
<1>. QED BY <1>1, <1>2, <1>3, <1>4 DEF UpdateInv

\* A step of the command c that leaves the child and the records.
LEMMA CommandMoves ==
    ASSUME UpdateInv, NEW c \in Commands,
           UNCHANGED <<now, child, lastBench, lastMaint, lastFail, unbooked, late>>,
           NEW place \in Update!Places, at' = [at EXCEPT ![c] = place],
           base' \in {base, [base EXCEPT ![c] = now]},
           role' = role,
           heldSeen' \in {heldSeen, [heldSeen EXCEPT ![c] = (child # None)]},
           Served(c)'
    PROVE  UpdateInv'
<1>1. UpdateTypes'
    BY DEF UpdateInv, UpdateTypes
<1>2. StampsGrow'
    BY DEF UpdateInv, UpdateTypes, StampsGrow
<1>3. ASSUME NEW d \in Commands, d # c PROVE Served(d)'
    <2>1. /\ at'[d] = at[d] /\ base'[d] = base[d] /\ role'[d] = role[d]
          /\ heldSeen'[d] = heldSeen[d]
        BY <1>3 DEF UpdateInv, UpdateTypes
    <2>2. Served(d)
        BY DEF UpdateInv
    <2>. QED BY <2>1, <2>2 DEF Served, Heard, Underway
<1>4. late' # {} => Update!Looking'
    BY DEF UpdateInv, Update!Looking
<1>. QED BY <1>1, <1>2, <1>3, <1>4 DEF UpdateInv

\* A command that asks reads its baseline and starts nothing yet.
LEMMA AskKeepsUpdateInv ==
    ASSUME UpdateInv, NEW c \in Commands, Update!Ask(c)
    PROVE  UpdateInv'
<1>. DEFINE place == IF child # None THEN "marking" ELSE "judging"
<1>1. /\ at[c] = "idle" /\ at' = [at EXCEPT ![c] = place]
      /\ base' = [base EXCEPT ![c] = now]
      /\ UNCHANGED <<now, role, heldSeen, child, lastBench, lastMaint, lastFail,
                     unbooked, late>>
    BY DEF Update!Ask, Update!Baseline, Update!BaselineTaken, Update!GoTo,
           Update!records, Update!history
<1>2. role[c] # "started" /\ place \in Update!Places
    BY <1>1 DEF UpdateInv, Served, Update!Places
<1>. HIDE DEF place
<1>3. Served(c)'
    BY <1>1, <1>2 DEF Served
<1>. QED BY <1>1, <1>2, <1>3, CommandMoves

\* A command that joins marks itself and waits; a child that looks is its last.
LEMMA MarkKeepsUpdateInv ==
    ASSUME UpdateInv, NEW c \in Commands, Update!Mark(c)
    PROVE  UpdateInv'
<1>1. /\ at[c] = "marking" /\ at' = [at EXCEPT ![c] = "waiting"]
      /\ role' = [role EXCEPT ![c] = "running"]
      /\ late' = IF Update!Looking THEN late \cup {c} ELSE late
      /\ UNCHANGED <<now, base, heldSeen, child, lastBench, lastMaint, lastFail, unbooked>>
    BY DEF Update!Mark, Update!GoTo, Update!records, Update!bounds
<1>2. UpdateTypes'
    BY <1>1 DEF UpdateInv, UpdateTypes, Update!Places
<1>3. StampsGrow'
    BY <1>1 DEF UpdateInv, StampsGrow
<1>4. ASSUME NEW d \in Commands PROVE Served(d)'
    <2>1. CASE d = c
        BY <1>1, <2>1 DEF UpdateInv, UpdateTypes, Served
    <2>2. CASE d # c
        <3>1. at'[d] = at[d] /\ role'[d] = role[d] /\ Served(d)
            BY <1>1, <2>2 DEF UpdateInv, UpdateTypes
        <3>. QED BY <1>1, <3>1 DEF Served, Heard, Underway
    <2>. QED BY <2>1, <2>2
<1>5. late' # {} => Update!Looking'
    BY <1>1 DEF UpdateInv, Update!Looking
<1>. QED BY <1>2, <1>3, <1>4, <1>5 DEF UpdateInv

\* A command that judges or is refused starts nothing.
LEMMA JudgeKeepsUpdateInv ==
    ASSUME UpdateInv, NEW c \in Commands, Update!Judge(c) \/ Update!Refused(c)
    PROVE  UpdateInv'
<1>1. PICK place \in {"recent", "claiming", "marking", "unavailable"} :
      /\ at[c] \in {"judging", "refused"} /\ at' = [at EXCEPT ![c] = place]
      /\ UNCHANGED <<now, base, role, heldSeen, child, lastBench, lastMaint,
                     lastFail, unbooked, late>>
    BY DEF Update!Judge, Update!Refused, Update!GoTo, Update!records, Update!history
<1>2. role[c] # "started"
    BY <1>1 DEF UpdateInv, Served
<1>3. Served(c)'
    BY <1>1, <1>2 DEF Served
<1>. QED BY <1>1, <1>3, CommandMoves DEF Update!Places

\* The command that is answered "started" is served by the child it spawned.
LEMMA ClaimKeepsUpdateInv ==
    ASSUME UpdateInv, NEW c \in Commands, Update!Claim(c)
    PROVE  UpdateInv'
<1>. USE UpdateAssumption DEF UpdateAssumption
<1>1. CASE child = None
    <2>. DEFINE born == [at |-> "started", since |-> now, by |-> c]
    <2>1. /\ at[c] = "claiming" /\ at' = [at EXCEPT ![c] = "waiting"]
          /\ role' = [role EXCEPT ![c] = "started"] /\ child' = born
          /\ UNCHANGED <<now, base, heldSeen, lastBench, lastMaint, lastFail, unbooked, late>>
        BY <1>1 DEF Update!Claim, Update!Spawned, Update!GoTo, Update!records,
                    Update!history
    <2>2. born \in Update!Children(Int) /\ born # None
        <3>1. born \in Update!Children(Int)
            BY DEF UpdateInv, UpdateTypes, Update!Children
        <3>2. None \notin Update!Children(Int)
            OBVIOUS
        <3>. QED BY <3>1, <3>2
    <2>3. UpdateTypes'
        BY <2>1, <2>2 DEF UpdateInv, UpdateTypes, Update!Places
    <2>4. StampsGrow'
        BY <2>1 DEF UpdateInv, UpdateTypes, StampsGrow
    <2>5. ASSUME NEW d \in Commands PROVE Served(d)'
        <3>1. CASE d = c
            <4>1. at'[c] = "waiting" /\ role'[c] = "started"
                BY <2>1 DEF UpdateInv, UpdateTypes
            <4>2. Underway(c)'
                BY <2>1, <2>2 DEF Underway
            <4>. QED BY <3>1, <4>1, <4>2 DEF Served
        <3>2. CASE d # c
            <4>1. at'[d] = at[d] /\ role'[d] = role[d] /\ Served(d)
                BY <2>1, <3>2 DEF UpdateInv, UpdateTypes
            <4>2. ~Underway(d)
                BY <1>1 DEF Underway
            <4>. QED BY <2>1, <4>1, <4>2 DEF Served, Heard
        <3>. QED BY <3>1, <3>2
    <2>6. late' = {}
        BY <1>1, <2>1 DEF UpdateInv, Update!Looking
    <2>. QED BY <2>3, <2>4, <2>5, <2>6 DEF UpdateInv
<1>2. CASE child # None
    <2>1. /\ at[c] = "claiming" /\ at' = [at EXCEPT ![c] = "refused"]
          /\ UNCHANGED <<now, base, role, heldSeen, child, lastBench, lastMaint,
                         lastFail, unbooked, late>>
        BY <1>2 DEF Update!Claim, Update!GoTo, Update!records, Update!history
    <2>2. role[c] # "started"
        BY <2>1 DEF UpdateInv, Served
    <2>3. Served(c)'
        BY <2>1, <2>2 DEF Served
    <2>. QED BY <2>1, <2>3, CommandMoves DEF Update!Places
<1>. QED BY <1>1, <1>2

\* A poll that finds the lock free finds a record, or the child was cut short.
LEMMA LookKeepsUpdateInv ==
    ASSUME UpdateInv, NEW c \in Commands, Update!Look(c)
    PROVE  UpdateInv'
<1>1. /\ at[c] = "waiting" /\ at' = [at EXCEPT ![c] = "reading"]
      /\ base' = base /\ heldSeen' = [heldSeen EXCEPT ![c] = child # None]
      /\ UNCHANGED <<now, role, child, lastBench, lastMaint, lastFail, unbooked, late>>
    BY DEF Update!Look, Update!Baseline, Update!BaselineTaken, Update!GoTo,
           Update!records, Update!history
<1>2. /\ at'[c] = "reading" /\ heldSeen'[c] = (child # None) /\ Served(c)
    BY <1>1 DEF UpdateInv, UpdateTypes
<1>3. Served(c)'
    BY <1>1, <1>2 DEF Served, Heard, Underway
<1>. QED BY <1>1, <1>3, CommandMoves DEF Update!Places

\* A command that reads no outcome of its own while the child was held goes on waiting.
LEMMA ReadKeepsUpdateInv ==
    ASSUME UpdateInv, NEW c \in Commands, Update!Read(c)
    PROVE  UpdateInv'
<1>1. PICK place \in {"failed", "rebenchmarked", "waiting", "pruned", "ended", "late"} :
      /\ at[c] = "reading" /\ at' = [at EXCEPT ![c] = place]
      /\ place \in {Update!Outcome(c), "late"}
      /\ UNCHANGED <<now, base, role, heldSeen, child, lastBench, lastMaint,
                     lastFail, unbooked, late>>
    BY DEF Update!Read, Update!GoTo, Update!Outcome, Update!records, Update!history
<1>2. at'[c] = place /\ Served(c) /\ base[c] \in Int
      /\ lastBench \in Int /\ lastMaint \in Int /\ lastFail \in Int
    BY <1>1 DEF UpdateInv, UpdateTypes
<1>3. place = "ended" => ~heldSeen[c] /\ ~Heard(c)
    BY <1>1, <1>2 DEF Update!Outcome, Heard
<1>4. Served(c)'
    BY <1>1, <1>2, <1>3 DEF Served, Heard, Underway
<1>. QED BY <1>1, <1>4, CommandMoves DEF Update!Places

\* The child goes on with what it carries; the commands stay.
LEMMA ChildMoves ==
    ASSUME UpdateInv, child # None, NEW kid \in Update!Children(Int), child' = kid,
           UNCHANGED <<now, at, base, role, heldSeen>>, unbooked \subseteq unbooked',
           {lastBench', lastMaint', lastFail'} \subseteq Int, lastMaint' >= lastMaint,
           lastMaint' <= kid.since, kid.since <= now,
           \A c \in Commands :
              Underway(c) => Underway(c)' \/ Heard(c)' \/ c \in unbooked',
           late' # {} => Update!Looking'
    PROVE  UpdateInv'
<1>1. UpdateTypes'
    BY DEF UpdateInv, UpdateTypes
<1>2. StampsGrow'
    <2>1. lastMaint' \in Int /\ kid.since \in Int /\ now \in Int
        BY DEF UpdateInv, UpdateTypes, Update!Children
    <2>2. kid # None
        BY UpdateAssumption DEF UpdateAssumption
    <2>. QED BY <2>1, <2>2 DEF UpdateInv, StampsGrow
<1>3. ASSUME NEW c \in Commands PROVE Served(c)'
    <2>1. Heard(c) => Heard(c)'
        BY DEF UpdateInv, UpdateTypes, Heard
    <2>2. Served(c) /\ (Underway(c) => Underway(c)' \/ Heard(c)' \/ c \in unbooked')
        BY DEF UpdateInv
    <2>. QED BY <2>1, <2>2 DEF Served
<1>. QED BY <1>1, <1>2, <1>3 DEF UpdateInv

\* The update begins at once where the child was asked for one.
LEMMA StartKeepsUpdateInv == UpdateInv /\ Update!Start => UpdateInv'
<1>. SUFFICES ASSUME UpdateInv, Update!Start PROVE UpdateInv'
    OBVIOUS
<1>1. /\ child # None /\ child.at = "started"
      /\ UNCHANGED <<now, at, base, role, heldSeen, lastBench, lastMaint, lastFail, unbooked>>
    BY DEF Update!Start, Update!ChildAt, Update!commandVars, Update!records
<1>2. child \in Update!Children(Int) /\ now \in Int
    BY <1>1 DEF UpdateInv, UpdateTypes
<1>3. PICK kid \in Update!Children(Int) :
         /\ child' = kid /\ kid.since = now /\ late' = {}
         /\ kid.by = child.by /\ (child.by # None => kid.at = "updating")
    <2>1. CASE Update!Updating(now)
        <3>. DEFINE kid == [child EXCEPT !.at = "updating", !.since = now]
        <3>1. kid \in Update!Children(Int) /\ kid.since = now
              /\ kid.at = "updating" /\ kid.by = child.by
            BY <1>2 DEF Update!Children
        <3>. QED BY <2>1, <3>1 DEF Update!Updating
    <2>2. CASE child.by = None /\ late' = {}
               /\ child' = [child EXCEPT !.at = "detecting", !.since = now]
        <3>. DEFINE kid == [child EXCEPT !.at = "detecting", !.since = now]
        <3>1. kid \in Update!Children(Int) /\ kid.since = now /\ kid.by = child.by
            BY <1>2 DEF Update!Children
        <3>. QED BY <2>2, <3>1
    <2>. QED BY <2>1, <2>2 DEF Update!Start, Update!Take
<1>4. ASSUME NEW c \in Commands, Underway(c) PROVE Underway(c)'
    <2>1. child' # None /\ base[c] <= now
        BY <1>3, UpdateAssumption DEF UpdateInv, StampsGrow, UpdateAssumption
    <2>2. child' = kid /\ kid.at = "updating" /\ kid.by = c /\ kid.since = now
        BY <1>3, <1>4, UpdateAssumption DEF Underway, UpdateAssumption
    <2>3. base' = base /\ base[c] \in Int
        BY <1>1 DEF UpdateInv, UpdateTypes
    <2>. QED BY <1>2, <2>1, <2>2, <2>3 DEF Underway
<1>5. {lastBench, lastMaint, lastFail} \subseteq Int /\ lastMaint <= now
    BY DEF UpdateInv, UpdateTypes, StampsGrow
<1>. QED BY <1>1, <1>2, <1>3, <1>4, <1>5, ChildMoves

\* A plain detection serves nobody.
LEMMA DetectKeepsUpdateInv == UpdateInv /\ (Update!Detect \/ Update!Detected) => UpdateInv'
<1>. SUFFICES ASSUME UpdateInv, Update!Detect \/ Update!Detected PROVE UpdateInv'
    OBVIOUS
<1>1. /\ child # None /\ child.at \in {"detecting", "detected"}
      /\ UNCHANGED <<now, at, base, role, heldSeen, lastBench, lastMaint, lastFail, unbooked>>
    BY DEF Update!Detect, Update!Detected, Update!ChildAt, Update!commandVars,
           Update!records
<1>2. child \in Update!Children(Int)
    BY <1>1 DEF UpdateInv, UpdateTypes
<1>3. PICK kid \in Update!Children(Int) :
         /\ child' = kid /\ kid.since = child.since
         /\ late' # {} => kid.at = "detected" /\ kid.by = child.by /\ late' = late
    <2>1. CASE Update!Child("detected") /\ UNCHANGED late
        <3>. DEFINE kid == [child EXCEPT !.at = "detected"]
        <3>1. kid \in Update!Children(Int) /\ kid.since = child.since
              /\ kid.at = "detected" /\ kid.by = child.by
            BY <1>2 DEF Update!Children
        <3>. QED BY <2>1, <3>1 DEF Update!Child
    <2>2. CASE Update!Child("benchmark") /\ late' = {}
        <3>. DEFINE kid == [child EXCEPT !.at = "benchmark"]
        <3>1. kid \in Update!Children(Int) /\ kid.since = child.since
            BY <1>2 DEF Update!Children
        <3>. QED BY <2>2, <3>1 DEF Update!Child
    <2>3. CASE Update!Updating(child.since)
        <3>. DEFINE kid == [child EXCEPT !.at = "updating", !.since = child.since]
        <3>1. kid \in Update!Children(Int) /\ kid.since = child.since
            BY <1>2 DEF Update!Children
        <3>. QED BY <2>3, <3>1 DEF Update!Updating
    <2>4. CASE late' = {} /\ child' = [child EXCEPT !.at = "leaving", !.since = child.since]
        <3>. DEFINE kid == [child EXCEPT !.at = "leaving", !.since = child.since]
        <3>1. kid \in Update!Children(Int) /\ kid.since = child.since
            BY <1>2 DEF Update!Children
        <3>. QED BY <2>4, <3>1
    <2>. QED BY <2>1, <2>2, <2>3, <2>4
         DEF Update!Detect, Update!Detected, Update!LastLook, Update!Take
<1>4. \A c \in Commands : ~Underway(c)
    BY <1>1 DEF Underway
<1>5. late' # {} => Update!Looking'
    <2>1. late' # {} => late # {} /\ kid.at = "detected" /\ kid.by = child.by
        BY <1>3
    <2>2. late # {} => child.by = None
        BY <1>1 DEF UpdateInv, Update!Looking
    <2>3. kid # None
        BY UpdateAssumption DEF UpdateAssumption
    <2>. QED BY <1>3, <2>1, <2>2, <2>3 DEF Update!Looking
<1>6. lastMaint <= child.since /\ child.since <= now
    BY <1>1 DEF UpdateInv, StampsGrow
<1>7. lastBench \in Int /\ lastMaint \in Int /\ lastFail \in Int
    BY DEF UpdateInv, UpdateTypes
<1>. QED BY <1>1, <1>3, <1>4, <1>5, <1>6, <1>7, ChildMoves

\* The maintainer pass is booked with the time its child started.
LEMMA MaintainedKeepsUpdateInv == UpdateInv /\ Update!Maintained => UpdateInv'
<1>. SUFFICES ASSUME UpdateInv, Update!Maintained PROVE UpdateInv'
    OBVIOUS
<1>. DEFINE kid == [child EXCEPT !.at = "maintained"]
<1>1. /\ child # None /\ child.at = "updating" /\ child' = kid
      /\ lastMaint' = child.since
      /\ UNCHANGED <<now, at, base, role, heldSeen, lastBench, lastFail, unbooked, late>>
    BY DEF Update!Maintained, Update!Child, Update!ChildAt, Update!commandVars,
           Update!history
<1>2. child \in Update!Children(Int)
    BY <1>1 DEF UpdateInv, UpdateTypes
<1>3. kid \in Update!Children(Int) /\ kid.since = child.since /\ child.since \in Int
    BY <1>2 DEF Update!Children
<1>. HIDE DEF kid
<1>4. \A c \in Commands : Underway(c) => Heard(c)'
    BY <1>1 DEF Underway, Heard
<1>5. late' = {}
    BY <1>1 DEF UpdateInv, Update!Looking
<1>6. lastMaint <= child.since /\ child.since <= now
    BY <1>1 DEF UpdateInv, StampsGrow
<1>7. lastBench \in Int /\ lastMaint \in Int /\ lastFail \in Int
    BY DEF UpdateInv, UpdateTypes
<1>. QED BY <1>1, <1>3, <1>4, <1>5, <1>6, <1>7, ChildMoves

\* The pass that ends before its stamp is one of those that book nothing.
LEMMA UnstampedKeepsUpdateInv == UpdateInv /\ Update!Unstamped => UpdateInv'
<1>. SUFFICES ASSUME UpdateInv, Update!Unstamped PROVE UpdateInv'
    OBVIOUS
<1>. DEFINE kid == [child EXCEPT !.at = "leaving"]
<1>1. /\ child # None /\ child.at = "updating" /\ child' = kid
      /\ unbooked' = unbooked \cup ({child.by} \ {None})
      /\ UNCHANGED <<now, at, base, role, heldSeen, lastBench, lastMaint, lastFail, late>>
    BY DEF Update!Unstamped, Update!Child, Update!ChildAt, Update!commandVars,
           Update!records
<1>2. child \in Update!Children(Int)
    BY <1>1 DEF UpdateInv, UpdateTypes
<1>3. kid \in Update!Children(Int) /\ kid.since = child.since
    BY <1>2 DEF Update!Children
<1>. HIDE DEF kid
<1>4. \A c \in Commands : Underway(c) => c \in unbooked'
    BY <1>1, UpdateAssumption DEF Underway, UpdateAssumption
<1>5. late' = {}
    BY <1>1 DEF UpdateInv, Update!Looking
<1>6. lastMaint <= child.since /\ child.since <= now
    BY <1>1 DEF UpdateInv, StampsGrow
<1>7. lastBench \in Int /\ lastMaint \in Int /\ lastFail \in Int
    BY DEF UpdateInv, UpdateTypes
<1>. QED BY <1>1, <1>3, <1>4, <1>5, <1>6, <1>7, ChildMoves

\* The benchmark that has the lock works for nobody's stamp.
LEMMA BenchmarkKeepsUpdateInv ==
    UpdateInv /\ (Update!HandOver \/ Update!Benchmark \/ Update!Banked) => UpdateInv'
<1>. SUFFICES ASSUME UpdateInv, Update!HandOver \/ Update!Benchmark \/ Update!Banked
              PROVE  UpdateInv'
    OBVIOUS
<1>1. /\ child # None /\ child.at \in {"maintained", "benchmark", "banked"}
      /\ UNCHANGED <<now, at, base, role, heldSeen, lastMaint, unbooked, late>>
      /\ lastBench' \in {lastBench, now} /\ lastFail' \in {lastFail, now, 0}
    BY DEF Update!HandOver, Update!Benchmark, Update!Banked, Update!ChildAt,
           Update!commandVars, Update!records, Update!history
<1>2. child \in Update!Children(Int)
    BY <1>1 DEF UpdateInv, UpdateTypes
<1>3. PICK kid \in Update!Children(Int) : child' = kid /\ kid.since = child.since
    <2>1. PICK where \in {"benchmark", "banked", "leaving"} :
             child' = [child EXCEPT !.at = where]
        BY DEF Update!HandOver, Update!Benchmark, Update!Banked, Update!Child
    <2>. DEFINE kid == [child EXCEPT !.at = where]
    <2>2. kid \in Update!Children(Int) /\ kid.since = child.since
        BY <1>2 DEF Update!Children
    <2>. QED BY <2>1, <2>2
<1>4. \A c \in Commands : ~Underway(c)
    BY <1>1 DEF Underway
<1>5. late' = {}
    BY <1>1 DEF UpdateInv, Update!Looking
<1>6. lastMaint <= child.since /\ child.since <= now
    BY <1>1 DEF UpdateInv, StampsGrow
<1>7. lastBench \in Int /\ lastMaint \in Int /\ lastFail \in Int /\ now \in Int
    BY DEF UpdateInv, UpdateTypes
<1>. QED BY <1>1, <1>3, <1>4, <1>5, <1>6, <1>7, ChildMoves

\* The lock is free again: the update the child owed is booked, or counted.
LEMMA GoneKeepsUpdateInv == UpdateInv /\ (Update!Exit \/ Update!Crash) => UpdateInv'
<1>. SUFFICES ASSUME UpdateInv, Update!Exit \/ Update!Crash PROVE UpdateInv'
    OBVIOUS
<1>1. /\ child # None /\ child' = None
      /\ UNCHANGED <<now, at, base, role, heldSeen, lastBench, lastMaint, lastFail>>
    BY DEF Update!Exit, Update!Crash, Update!ChildAt, Update!commandVars, Update!records
<1>2. late' = {}
    BY DEF Update!Exit, Update!Crash, Update!ChildAt, Update!history, UpdateInv,
           Update!Looking
<1>3. UpdateTypes' /\ StampsGrow'
    BY <1>1 DEF UpdateInv, UpdateTypes, StampsGrow
<1>4. ASSUME NEW c \in Commands PROVE Served(c)'
    <2>1. c \in unbooked => c \in unbooked'
        BY DEF Update!Exit, Update!Crash, Update!history
    <2>2. Underway(c) => c \in unbooked'
        BY UpdateAssumption DEF Update!Exit, Update!Crash, Update!ChildAt, Underway,
           UpdateAssumption
    <2>3. Served(c) /\ (Heard(c) => Heard(c)')
        BY <1>1 DEF UpdateInv, Heard
    <2>. QED BY <1>1, <2>1, <2>2, <2>3 DEF Served
<1>. QED BY <1>2, <1>3, <1>4 DEF UpdateInv

\* A plain detection starts where the lock is free.
LEMMA DetectorKeepsUpdateInv == UpdateInv /\ Update!Detector => UpdateInv'
<1>. SUFFICES ASSUME UpdateInv, Update!Detector PROVE UpdateInv'
    OBVIOUS
<1>. DEFINE born == [at |-> "started", since |-> now, by |-> None]
<1>1. /\ child = None /\ child' = born
      /\ UNCHANGED <<now, at, base, role, heldSeen, lastBench, lastMaint, lastFail,
                     unbooked, late>>
    BY DEF Update!Detector, Update!Spawned, Update!commandVars, Update!records,
           Update!history
<1>2. born \in Update!Children(Int)
    BY DEF UpdateInv, UpdateTypes, Update!Children
<1>3. UpdateTypes'
    BY <1>1, <1>2 DEF UpdateInv, UpdateTypes
<1>4. StampsGrow'
    BY <1>1 DEF UpdateInv, UpdateTypes, StampsGrow
<1>5. \A c \in Commands : Served(c)'
    BY <1>1 DEF UpdateInv, Served, Heard, Underway
<1>6. late' = {}
    BY <1>1 DEF UpdateInv, Update!Looking
<1>. QED BY <1>3, <1>4, <1>5, <1>6 DEF UpdateInv

\* Time passes: only the clock moves.
LEMMA TickKeepsUpdateInv == UpdateInv /\ Update!Tick => UpdateInv'
<1>. SUFFICES ASSUME UpdateInv, Update!Tick PROVE UpdateInv'
    OBVIOUS
<1>1. /\ now' = now + 1
      /\ UNCHANGED <<at, base, role, heldSeen, child, lastBench, lastMaint, lastFail,
                     unbooked, late>>
    BY DEF Update!Tick, Update!commandVars, Update!records, Update!history
<1>2. UpdateTypes'
    BY <1>1 DEF UpdateInv, UpdateTypes
<1>3. StampsGrow'
    BY <1>1 DEF UpdateInv, UpdateTypes, Update!Children, StampsGrow
<1>4. \A c \in Commands : Served(c)'
    BY <1>1 DEF UpdateInv, Served, Heard, Underway
<1>5. late' # {} => Update!Looking'
    BY <1>1 DEF UpdateInv, Update!Looking
<1>. QED BY <1>2, <1>3, <1>4, <1>5 DEF UpdateInv

\* Every step of the update keeps its invariant.
LEMMA UpdateStep == UpdateInv /\ [Update!Next]_(Update!vars) => UpdateInv'
<1>. SUFFICES ASSUME UpdateInv, [Update!Next]_(Update!vars) PROVE UpdateInv'
    OBVIOUS
<1>1. CASE UNCHANGED Update!vars
    BY <1>1 DEF Update!vars, Update!commandVars, Update!records, Update!history,
                UpdateInv, UpdateTypes, StampsGrow, Served, Heard, Underway,
                Update!Looking
<1>2. ASSUME NEW c \in Commands, Update!Step(c) PROVE UpdateInv'
    BY <1>2, AskKeepsUpdateInv, MarkKeepsUpdateInv, JudgeKeepsUpdateInv,
       ClaimKeepsUpdateInv, LookKeepsUpdateInv, ReadKeepsUpdateInv DEF Update!Step
<1>3. CASE Update!ChildStep
    BY <1>3, StartKeepsUpdateInv, DetectKeepsUpdateInv, MaintainedKeepsUpdateInv,
       UnstampedKeepsUpdateInv, BenchmarkKeepsUpdateInv, GoneKeepsUpdateInv DEF Update!ChildStep
<1>. QED BY <1>1, <1>2, <1>3, DetectorKeepsUpdateInv, GoneKeepsUpdateInv,
            TickKeepsUpdateInv DEF Update!Next

\* Who started the update hears its outcome: "ended" is answered only where that
\* update was killed before its stamp, or ended without one.
THEOREM StartersHear == Update!Spec => []StarterHearsOutcome
<1>1. UpdateInv => StarterHearsOutcome
    BY DEF UpdateInv, Served, StarterHearsOutcome, Update!StarterHearsOutcome
<1>. QED BY <1>1, UpdateInit, UpdateStep, PTL DEF Update!Spec

\* The lock is free only when the requests left for a detection are honoured.
THEOREM RequestsAreHonoured == Update!Spec => []RequestHonoured
<1>1. UpdateInv => RequestHonoured
    BY DEF UpdateInv, Update!Looking, RequestHonoured, Update!RequestHonoured
<1>. QED BY <1>1, UpdateInit, UpdateStep, PTL DEF Update!Spec

-----------------------------------------------------------------------------
(* FallbackWalk.  What is on the walk is what FlattenSeq joins, a function *)
(* defined by recursion: it exists, and holds what its parts hold, because *)
(* a least number for which that fails cannot be found.                    *)

\* A set of numbers has a least one.
LEMMA Least ==
    ASSUME NEW T, T \subseteq Nat, T # {}
    PROVE  \E x \in T : \A y \in T : x <= y
<1>1. \E x \in T : \A y \in T : <<y, x>> \notin OpToRel(<, Nat)
    BY NatLessThanWellFounded, WFMin
<1>2. ASSUME NEW x \in Nat, NEW y \in Nat, y < x PROVE <<y, x>> \in OpToRel(<, Nat)
    <2>1. <<y, x>> \in Nat \X Nat /\ <<y, x>>[1] < <<y, x>>[2]
        BY <1>2
    <2>. QED BY <2>1 DEF OpToRel
<1>. DEFINE below == OpToRel(<, Nat)
<1>3. PICK x \in T : \A y \in T : <<y, x>> \notin below
    BY <1>1, Zenon
<1>4. ASSUME NEW y \in T, y < x PROVE FALSE
    <2>1. <<y, x>> \in below
        BY <1>2, <1>4, Zenon
    <2>. HIDE DEF below
    <2>. QED BY <1>3, <2>1
<1>5. \A y \in T : x <= y
    BY <1>4
<1>. QED BY <1>3, <1>5, Zenon

\* f joins the first parts of s, one after the other.
Joins(s, f, n) == f = [i \in 1..n |-> IF i = 1 THEN s[i] ELSE f[i - 1] \o s[i]]

\* Such a function exists for every number of parts.
LEMMA JoinsExist ==
    ASSUME NEW s, NEW n \in Nat
    PROVE  \E f : Joins(s, f, n)
<1>. DEFINE Bad == {k \in Nat : ~\E f : Joins(s, f, k)}
<1>1. SUFFICES ASSUME Bad # {} PROVE FALSE
    OBVIOUS
<1>2. PICK k \in Bad : \A j \in Bad : k <= j
    BY <1>1, Least
<1>3. k # 0
    <2>. DEFINE f == [i \in {} |-> 0]
    <2>1. Joins(s, f, 0)
        BY DEF Joins
    <2>. QED BY <2>1
<1>4. PICK f : Joins(s, f, k - 1)
    BY <1>2, <1>3
<1>. DEFINE g == [i \in 1..k |-> IF i = 1 THEN s[i] ELSE f[i - 1] \o s[i]]
<1>5. ASSUME NEW i \in 1..(k - 1) PROVE g[i] = f[i]
    <2>1. f[i] = IF i = 1 THEN s[i] ELSE f[i - 1] \o s[i]
        BY <1>4, Zenon DEF Joins
    <2>2. i \in 1..k
        BY <1>2
    <2>3. g[i] = IF i = 1 THEN s[i] ELSE f[i - 1] \o s[i]
        BY <2>2, Zenon
    <2>. QED BY <2>1, <2>3
<1>6. Joins(s, g, k)
    <2>1. ASSUME NEW i \in 1..k, i # 1 PROVE g[i - 1] = f[i - 1]
        <3>1. i - 1 \in 1..(k - 1)
            BY <1>2, <2>1
        <3>. QED BY <1>5, <3>1
    <2>. QED BY <2>1 DEF Joins
<1>. QED BY <1>2, <1>6

\* FlattenSeq is its last value.
LEMMA FlattenJoins ==
    ASSUME NEW s, Len(s) \in Nat \ {0}
    PROVE  \E f : Joins(s, f, Len(s)) /\ Walk!FlattenSeq(s) = f[Len(s)]
<1>. DEFINE chosen == CHOOSE f : Joins(s, f, Len(s))
<1>1. Joins(s, chosen, Len(s))
    BY JoinsExist
<1>2. Walk!FlattenSeq(s) = chosen[Len(s)]
    BY DEF Walk!FlattenSeq, Joins
<1>. QED BY <1>1, <1>2

\* What is joined is a sequence, and holds what its parts hold.
LEMMA FlattenHolds ==
    ASSUME NEW S, NEW s, Len(s) \in Nat \ {0},
           \A i \in 1..Len(s) : s[i] \in Seq(S)
    PROVE  /\ Walk!FlattenSeq(s) \in Seq(S)
           /\ \A i \in 1..Len(s) : \A j \in 1..Len(s[i]) :
                \E k \in 1..Len(Walk!FlattenSeq(s)) : Walk!FlattenSeq(s)[k] = s[i][j]
<1>. DEFINE n == Len(s)
<1>. HIDE DEF n
<1>1. n = Len(s) /\ n \in Nat \ {0} /\ \A i \in 1..n : s[i] \in Seq(S)
    BY DEF n
<1>. USE <1>1
<1>2. PICK f : Joins(s, f, n) /\ Walk!FlattenSeq(s) = f[n]
    BY FlattenJoins DEF n
<1>. DEFINE Good(m) == /\ f[m] \in Seq(S)
                       /\ \A i \in 1..m : \A j \in 1..Len(s[i]) :
                            \E k \in 1..Len(f[m]) : f[m][k] = s[i][j]
            Bad == {m \in 1..n : ~Good(m)}
<1>3. SUFFICES ASSUME Bad # {} PROVE FALSE
    <2>1. n \notin Bad => Good(n)
        <3>1. n \in 1..n
            BY <1>1
        <3>. HIDE DEF Good
        <3>. QED BY <3>1, Zenon
    <2>2. n \notin Bad
        BY <1>3
    <2>. QED BY <1>2, <2>1, <2>2
<1>4. Bad \subseteq 1..n /\ Bad \subseteq Nat
    OBVIOUS
<1>5. PICK m \in Bad : \A j \in Bad : m <= j
    <2>. HIDE DEF Bad
    <2>. QED BY <1>4, <1>3, Least
<1>6. f[1] = s[1]
    BY <1>2 DEF Joins
<1>7. m # 1
    <2>1. Good(1)
        BY <1>6
    <2>. QED BY <2>1
<1>8. Good(m - 1) /\ m \in 1..n /\ m - 1 \in 1..n
    <2>1. m \in 1..n /\ m - 1 \in 1..n
        BY <1>5, <1>7
    <2>2. m - 1 \notin Bad
        <3>. HIDE DEF Bad
        <3>. QED BY <1>4, <1>5
    <2>3. Good(m - 1)
        <3>. HIDE DEF Good
        <3>. QED BY <2>1, <2>2
    <2>. QED BY <2>1, <2>3
<1>9. f[m] = f[m - 1] \o s[m]
    BY <1>2, <1>7, <1>8 DEF Joins
<1>. DEFINE a == f[m - 1]  b == s[m]
<1>10. a \in Seq(S) /\ b \in Seq(S)
    BY <1>8
<1>11. f[m] = a \o b
    BY <1>9
<1>12. \A i \in 1..(m - 1) : \A j \in 1..Len(s[i]) : \E k \in 1..Len(a) : a[k] = s[i][j]
    BY <1>8
<1>. HIDE DEF a
<1>13. f[m] \in Seq(S) /\ Len(f[m]) = Len(a) + Len(b)
    BY <1>10, <1>11
<1>14. \A k \in 1..Len(a) : k \in 1..Len(f[m]) /\ f[m][k] = a[k]
    BY <1>10, <1>11, <1>13
<1>15. \A k \in 1..Len(b) : Len(a) + k \in 1..Len(f[m]) /\ f[m][Len(a) + k] = b[k]
    BY <1>10, <1>11, <1>13
<1>16. ASSUME NEW i \in 1..m, NEW j \in 1..Len(s[i])
              PROVE  \E k \in 1..Len(f[m]) : f[m][k] = s[i][j]
    <2>1. CASE i = m
        BY <1>15, <2>1
    <2>2. CASE i # m
        <3>1. i \in 1..(m - 1)
            BY <2>2, <1>8
        <3>. QED BY <1>12, <1>14, <3>1
    <2>. QED BY <2>1, <2>2
<1>17. Good(m)
    BY <1>13, <1>16
<1>. QED BY <1>5, <1>17

\* The groups that serve a model are entries of the model, at least one.
LEMMA EntriesOfModels ==
    ASSUME NEW m \in ProfileModels
    PROVE  /\ Walk!EntriesOf(m) \in Seq(Walk!AllEntries)
           /\ Len(Walk!EntriesOf(m)) >= 1
           /\ \A i \in 1..Len(Walk!EntriesOf(m)) : Walk!EntriesOf(m)[i].model = m
<1>. DEFINE es == Walk!EntriesOf(m)  gs == RoutesOf[m]
<1>1. gs \in Seq(Walk!Range(gs))
    BY WalkAssumption DEF WalkAssumption
<1>2. PICK S : es \in Seq(S) /\ Len(es) >= 1 /\ \A i \in 1..Len(es) : es[i].model = m
    <2>1. CASE gs = <<>>
        <3>. DEFINE e == [model |-> m, url |-> Home, key |-> NoKey]
        <3>1. es = <<e>>
            BY <2>1 DEF Walk!EntriesOf
        <3>2. es \in Seq({e}) /\ Len(es) = 1 /\ es[1] = e /\ e.model = m
            BY <3>1
        <3>. QED BY <3>2
    <2>2. CASE gs # <<>>
        <3>. DEFINE e(i) == [model |-> m, url |-> gs[i].url, key |-> gs[i].key]
                    S == {e(i) : i \in 1..Len(gs)}
        <3>1. Len(gs) \in Nat /\ Len(gs) >= 1 /\ DOMAIN gs = 1..Len(gs)
            BY <1>1, <2>2
        <3>2. es = [i \in 1..Len(gs) |-> e(i)]
            BY <2>2, <3>1 DEF Walk!EntriesOf
        <3>3. es \in Seq(S) /\ Len(es) = Len(gs)
            <4>1. \A i \in 1..Len(gs) : e(i) \in S
                OBVIOUS
            <4>. HIDE DEF e, S, es
            <4>. QED BY <3>1, <3>2, <4>1
        <3>4. \A i \in 1..Len(gs) : es[i].model = m
            BY <3>2
        <3>. QED BY <3>1, <3>3, <3>4
    <2>. QED BY <2>1, <2>2
<1>3. \A i \in 1..Len(es) : es[i] \in Walk!AllEntries
    BY <1>2 DEF Walk!AllEntries, Walk!Range
<1>4. es \in Seq(Walk!AllEntries)
    BY <1>2, <1>3
<1>. QED BY <1>2, <1>4

\* The walk meets entries of the profile, and each model of the chain.
LEMMA EntriesHold ==
    ASSUME world.chain \in Chains
    PROVE  /\ Walk!Entries \in Seq(Walk!AllEntries)
           /\ world.chain \in Seq(ProfileModels) /\ Len(world.chain) >= 1
           /\ \A i \in 1..Len(world.chain) :
                \E k \in 1..Len(Walk!Entries) : Walk!Entries[k].model = world.chain[i]
<1>. DEFINE c == world.chain
            s == [i \in DOMAIN c |-> Walk!EntriesOf(c[i])]
<1>1. c \in Seq(ProfileModels) /\ c # <<>>
    BY WalkAssumption DEF WalkAssumption
<1>2. Len(c) \in Nat \ {0} /\ DOMAIN c = 1..Len(c) /\ \A i \in 1..Len(c) : c[i] \in ProfileModels
    BY <1>1
<1>3. Len(s) = Len(c) /\ \A i \in 1..Len(c) : s[i] = Walk!EntriesOf(c[i])
    BY <1>2
<1>4. \A i \in 1..Len(c) : s[i] \in Seq(Walk!AllEntries) /\ Len(s[i]) >= 1
                           /\ \A j \in 1..Len(s[i]) : s[i][j].model = c[i]
    BY <1>2, <1>3, EntriesOfModels
<1>5. Walk!Entries = Walk!FlattenSeq(s)
    BY DEF Walk!Entries
<1>. HIDE DEF s
<1>6. /\ Walk!Entries \in Seq(Walk!AllEntries)
      /\ \A i \in 1..Len(c) : \A j \in 1..Len(s[i]) :
           \E k \in 1..Len(Walk!Entries) : Walk!Entries[k] = s[i][j]
    <2>1. \A i \in 1..Len(c) : s[i] \in Seq(Walk!AllEntries)
        BY <1>4
    <2>. HIDE DEF c
    <2>2. Len(s) \in Nat \ {0} /\ \A i \in 1..Len(s) : s[i] \in Seq(Walk!AllEntries)
        BY <1>2, <1>3, <2>1
    <2>3. PICK parts : parts = s /\ Walk!FlattenSeq(parts) = Walk!FlattenSeq(s)
        BY Zenon
    <2>4. /\ Len(parts) \in Nat \ {0}
          /\ \A i \in 1..Len(parts) : parts[i] \in Seq(Walk!AllEntries)
        BY <2>2, <2>3
    <2>5. /\ Walk!FlattenSeq(parts) \in Seq(Walk!AllEntries)
          /\ \A i \in 1..Len(parts) : \A j \in 1..Len(parts[i]) :
               \E k \in 1..Len(Walk!FlattenSeq(parts)) :
                 Walk!FlattenSeq(parts)[k] = parts[i][j]
        BY ONLY <2>4, FlattenHolds
    <2>. QED BY <1>3, <1>5, <2>3, <2>5
<1>7. ASSUME NEW i \in 1..Len(c)
      PROVE  \E k \in 1..Len(Walk!Entries) : Walk!Entries[k].model = c[i]
    <2>1. s[i] \in Seq(Walk!AllEntries) /\ Len(s[i]) >= 1
        BY <1>4
    <2>2. 1 \in 1..Len(s[i])
        BY <2>1
    <2>3. PICK k \in 1..Len(Walk!Entries) : Walk!Entries[k] = s[i][1]
        BY <1>6, <2>2
    <2>4. s[i][1].model = c[i]
        BY <1>4, <2>2
    <2>. QED BY <2>3, <2>4
<1>. QED BY <1>1, <1>2, <1>6, <1>7

\* What an entry of the walk comes to, when it fails.
WalkFailures == {[entry |-> Walk!Entries[k], cause |-> Walk!Answer(Walk!Entries[k])] :
                   k \in 1..Len(Walk!Entries)}

FailedAs(kind) == {i \in 1..Len(failed) : Walk!Kind(failed[i].cause) = kind}

\* What the walk skips is what failed, each by its kind.
Remembered ==
    dead = [url |-> {failed[i].entry.url : i \in FailedAs("endpoint")},
            pair |-> {<<failed[i].entry.url, failed[i].entry.model>> :
                        i \in FailedAs("endpoint-model")},
            credential |-> {Walk!Credential(failed[i].entry) : i \in FailedAs("credit")},
            model |-> {failed[i].entry.model : i \in FailedAs("model")}]

\* Every entry the walk has passed is one it would skip now.
PassedIsSkipped == \A k \in 1..(next - 1) : /\ k \in 1..Len(Walk!Entries)
                                            /\ Walk!Skipped(Walk!Entries[k])

WalkInv ==
    /\ world.chain \in Chains
    /\ world.key \in [Walk!Keys -> {"good", "refused", "unfunded"}]
    /\ world.says \in [Walk!AllEntries -> {"ok"} \cup Refusals]
    /\ next \in Nat \ {0}
    /\ failed \in Seq(WalkFailures) /\ \A i \in 1..Len(failed) : failed[i].cause # "ok"
    /\ Remembered /\ PassedIsSkipped
    /\ WalkIsThorough /\ VerdictFits

\* A walk that begins has passed and asked nobody.
LEMMA WalkInit == Walk!Init => WalkInv
<1>. SUFFICES ASSUME Walk!Init PROVE WalkInv
    OBVIOUS
<1>1. /\ world.chain \in Chains
      /\ world.key \in [Walk!Keys -> {"good", "refused", "unfunded"}]
      /\ world.says \in [Walk!AllEntries -> {"ok"} \cup Refusals]
    <2>1. PICK w \in Walk!Worlds({[e \in Walk!AllEntries |-> "ok"]}) :
            \E said \in [Walk!Reached(w) -> {"ok"} \cup Refusals] :
              world = [w EXCEPT !.says = [e \in Walk!AllEntries |->
                                            IF e \in Walk!Reached(w) THEN said[e] ELSE "ok"]]
        BY DEF Walk!Init
    <2>2. PICK said \in [Walk!Reached(w) -> {"ok"} \cup Refusals] :
              world = [w EXCEPT !.says = [e \in Walk!AllEntries |->
                                            IF e \in Walk!Reached(w) THEN said[e] ELSE "ok"]]
        BY <2>1
    <2>3. \A e \in Walk!Reached(w) : said[e] \in {"ok"} \cup Refusals
        OBVIOUS
    <2>. QED BY <2>1, <2>2, <2>3 DEF Walk!Worlds
<1>2. failed = <<>> /\ next = 1 /\ outcome = "walking"
      /\ dead = [url |-> {}, pair |-> {}, credential |-> {}, model |-> {}]
    BY DEF Walk!Init
<1>3. failed \in Seq(WalkFailures) /\ Len(failed) = 0 /\ DOMAIN failed = {}
    BY <1>2
<1>4. \A kind : FailedAs(kind) = {}
    BY <1>3 DEF FailedAs
<1>5. Remembered
    BY <1>2, <1>4 DEF Remembered
<1>6. PassedIsSkipped /\ WalkIsThorough
    BY <1>2, <1>3 DEF PassedIsSkipped, WalkIsThorough, Walk!WalkIsThorough
<1>7. VerdictFits
    BY <1>2 DEF VerdictFits, Walk!VerdictFits
<1>. QED BY <1>1, <1>2, <1>3, <1>5, <1>6, <1>7 DEF WalkInv

\* Entries that share the URL, the key or the broker that made one of them fail
\* do not work either.
LEMMA SameAnswer ==
    ASSUME world.says \in [Walk!AllEntries -> {"ok"} \cup Refusals],
           NEW e, NEW f \in Walk!AllEntries, Walk!Answer(e) = "ok"
    PROVE  /\ Walk!Answer(f) = "network" => e.url # f.url
           /\ Walk!Answer(f) = "broker" => e.url # f.url \/ e.model # f.model
           /\ Walk!Answer(f) = "402" => f.key # NoKey /\ (e.url # f.url \/ e.key # f.key)
<1>1. world.says[f] \notin {"network", "broker", "402"}
    BY WalkAssumption DEF WalkAssumption
<1>. QED BY <1>1 DEF Walk!Answer

\* A failure is one of an entry of the walk.
LEMMA FailuresAreEntries ==
    ASSUME failed \in Seq(WalkFailures), NEW i \in 1..Len(failed)
    PROVE  \E k \in 1..Len(Walk!Entries) :
             /\ failed[i].entry = Walk!Entries[k]
             /\ failed[i].cause = Walk!Answer(failed[i].entry)
<1>1. failed[i] \in WalkFailures
    OBVIOUS
<1>. QED BY <1>1 DEF WalkFailures

\* What a walk skips is skipped for a failure it saw, by its kind.
LEMMA SkippedByFailure ==
    ASSUME WalkInv, NEW e, Walk!Skipped(e)
    PROVE  \E i \in 1..Len(failed) :
             \/ failed[i].cause = "network" /\ failed[i].entry.url = e.url
             \/ failed[i].cause = "broker" /\ failed[i].entry.url = e.url
                /\ failed[i].entry.model = e.model
             \/ failed[i].cause = "402" /\ failed[i].entry.url = e.url
                /\ failed[i].entry.key = e.key
             \/ failed[i].cause \notin {"network", "broker", "402", "ok"}
                /\ failed[i].entry.model = e.model
<1>1. dead = [url |-> {failed[i].entry.url : i \in FailedAs("endpoint")},
            pair |-> {<<failed[i].entry.url, failed[i].entry.model>> :
                        i \in FailedAs("endpoint-model")},
            credential |-> {Walk!Credential(failed[i].entry) : i \in FailedAs("credit")},
            model |-> {failed[i].entry.model : i \in FailedAs("model")}]
    BY DEF WalkInv, Remembered
<1>2. \/ e.model \in {failed[i].entry.model : i \in FailedAs("model")}
      \/ e.url \in {failed[i].entry.url : i \in FailedAs("endpoint")}
      \/ <<e.url, e.model>> \in {<<failed[i].entry.url, failed[i].entry.model>> :
                                   i \in FailedAs("endpoint-model")}
      \/ Walk!Credential(e) \in {Walk!Credential(failed[i].entry) : i \in FailedAs("credit")}
    BY <1>1 DEF Walk!Skipped
<1>3. \A i \in 1..Len(failed) : failed[i].cause # "ok"
    BY DEF WalkInv
<1>. QED BY <1>2, <1>3 DEF FailedAs, Walk!Kind, Walk!Credential

\* A working entry is skipped only for what another group said of its model.
LEMMA SkippedWorking ==
    ASSUME WalkInv, NEW e, Walk!Skipped(e), Walk!Answer(e) = "ok"
    PROVE  \E i \in 1..Len(failed) : /\ failed[i].entry.model = e.model
                                     /\ failed[i].cause \notin {"network", "402", "broker"}
<1>1. PICK i \in 1..Len(failed) :
             \/ failed[i].cause = "network" /\ failed[i].entry.url = e.url
             \/ failed[i].cause = "broker" /\ failed[i].entry.url = e.url
                /\ failed[i].entry.model = e.model
             \/ failed[i].cause = "402" /\ failed[i].entry.url = e.url
                /\ failed[i].entry.key = e.key
             \/ failed[i].cause \notin {"network", "broker", "402", "ok"}
                /\ failed[i].entry.model = e.model
    BY SkippedByFailure
<1>2. /\ world.says \in [Walk!AllEntries -> {"ok"} \cup Refusals]
      /\ Walk!Entries \in Seq(Walk!AllEntries)
    BY EntriesHold DEF WalkInv
<1>3. PICK f \in Walk!AllEntries : f = failed[i].entry /\ Walk!Answer(f) = failed[i].cause
    <2>1. PICK k \in 1..Len(Walk!Entries) : /\ failed[i].entry = Walk!Entries[k]
                                            /\ failed[i].cause = Walk!Answer(failed[i].entry)
        BY FailuresAreEntries DEF WalkInv
    <2>2. PICK f : f = failed[i].entry /\ Walk!Answer(f) = failed[i].cause
        BY <2>1
    <2>. QED BY <1>2, <2>1, <2>2
<1>. QED BY <1>1, <1>2, <1>3, SameAnswer

\* The world stays as it is for the length of a walk.
LEMMA WorldStays ==
    ASSUME world' = world
    PROVE  /\ Walk!Entries' = Walk!Entries
           /\ \A e : Walk!Answer(e)' = Walk!Answer(e)
           /\ WalkFailures' = WalkFailures
<1>1. Walk!Entries' = Walk!Entries
    BY DEF Walk!Entries
<1>2. \A e : Walk!Answer(e)' = Walk!Answer(e)
    BY DEF Walk!Answer
<1>3. WalkFailures' = {[entry |-> Walk!Entries'[k], cause |-> Walk!Answer(Walk!Entries[k])'] :
                         k \in 1..Len(Walk!Entries')}
    BY DEF WalkFailures
<1>4. \A k \in 1..Len(Walk!Entries) : Walk!Answer(Walk!Entries[k])' = Walk!Answer(Walk!Entries[k])
    BY <1>1 DEF Walk!Answer
<1>. QED BY <1>1, <1>2, <1>3, <1>4 DEF WalkFailures

\* Passing an entry by keeps the invariant of the walk.
LEMMA SkipKeepsWalkInv == WalkInv /\ Walk!Skip => WalkInv'
<1>. SUFFICES ASSUME WalkInv, Walk!Skip PROVE WalkInv'
    OBVIOUS
<1>1. /\ UNCHANGED <<world, failed, dead, outcome>> /\ next' = next + 1
      /\ outcome = "walking" /\ next <= Len(Walk!Entries)
      /\ Walk!Skipped(Walk!Entries[next])
    BY DEF Walk!Skip, Walk!Walking
<1>2. /\ Walk!Entries' = Walk!Entries /\ WalkFailures' = WalkFailures
      /\ \A e : Walk!Answer(e)' = Walk!Answer(e)
    BY <1>1, WorldStays
<1>3. world.chain \in Chains /\ next \in Nat \ {0}
    BY DEF WalkInv
<1>4. Walk!Entries \in Seq(Walk!AllEntries)
    BY <1>3, EntriesHold
<1>5. failed' \in Seq(WalkFailures') /\ \A i \in 1..Len(failed') : failed'[i].cause # "ok"
    BY <1>1, <1>2 DEF WalkInv
<1>6. Remembered'
    BY <1>1 DEF WalkInv, Remembered, FailedAs, Walk!Credential, Walk!Kind
<1>7. PassedIsSkipped'
    <2>. SUFFICES ASSUME NEW k \in 1..next
                  PROVE  k \in 1..Len(Walk!Entries) /\ Walk!Skipped(Walk!Entries[k])'
        BY <1>1, <1>2, <1>3 DEF PassedIsSkipped
    <2>1. k \in 1..Len(Walk!Entries) /\ Walk!Skipped(Walk!Entries[k])
        <3>1. k = next \/ k \in 1..(next - 1)
            BY <1>3
        <3>2. next \in 1..Len(Walk!Entries)
            BY <1>1, <1>3, <1>4
        <3>3. PassedIsSkipped
            BY DEF WalkInv
        <3>. QED BY <1>1, <3>1, <3>2, <3>3 DEF PassedIsSkipped
    <2>. QED BY <1>1, <1>2, <2>1 DEF Walk!Skipped, Walk!Credential
<1>8. WalkIsThorough'
    <2>1. ASSUME NEW k \in 1..next, Walk!Answer(Walk!Entries[k]) = "ok"
          PROVE  \E i \in DOMAIN failed :
                   /\ failed[i].entry.model = Walk!Entries[k].model
                   /\ failed[i].cause \notin {"network", "402", "broker"}
        <3>1. CASE k = next
            <4>1. PICK e : e = Walk!Entries[k] /\ Walk!Skipped(e) /\ Walk!Answer(e) = "ok"
                BY <1>1, <2>1, <3>1
            <4>. QED BY <4>1, SkippedWorking DEF WalkInv
        <3>2. CASE k # next
            <4>1. k \in 1..(next - 1)
                BY <1>3, <3>2
            <4>. QED BY <2>1, <4>1 DEF WalkInv, WalkIsThorough, Walk!WalkIsThorough
        <3>. QED BY <3>1, <3>2
    <2>2. \A k \in 1..(next' - 1) : Walk!Answer(Walk!Entries[k])' = Walk!Answer(Walk!Entries[k])
        BY <1>1 DEF Walk!Answer, Walk!Entries
    <2>3. next' - 1 = next
        BY <1>1, <1>3
    <2>. QED BY <1>1, <1>2, <2>1, <2>2, <2>3 DEF WalkInv, WalkIsThorough, Walk!WalkIsThorough
<1>9. VerdictFits'
    BY <1>1 DEF VerdictFits, Walk!VerdictFits
<1>. QED BY <1>1, <1>3, <1>5, <1>6, <1>7, <1>8, <1>9 DEF WalkInv

\* The verdict is the end of the walk.
LEMMA EndKeepsWalkInv ==
    ASSUME WalkInv, UNCHANGED <<world, next, failed, dead>>, VerdictFits'
    PROVE  WalkInv'
<1>1. /\ Walk!Entries' = Walk!Entries /\ WalkFailures' = WalkFailures
      /\ \A e : Walk!Answer(e)' = Walk!Answer(e)
    BY WorldStays
<1>2. failed' \in Seq(WalkFailures') /\ \A i \in 1..Len(failed') : failed'[i].cause # "ok"
    BY <1>1 DEF WalkInv
<1>3. Remembered'
    BY DEF WalkInv, Remembered, FailedAs, Walk!Credential, Walk!Kind
<1>4. PassedIsSkipped'
    BY <1>1 DEF WalkInv, PassedIsSkipped, Walk!Skipped, Walk!Credential
<1>5. WalkIsThorough'
    <2>1. \A k \in 1..(next - 1) : Walk!Answer(Walk!Entries[k])' = Walk!Answer(Walk!Entries[k])
        BY DEF Walk!Answer, Walk!Entries
    <2>. QED BY <1>1, <2>1 DEF WalkInv, WalkIsThorough, Walk!WalkIsThorough
<1>. QED BY <1>2, <1>3, <1>4, <1>5 DEF WalkInv

\* What failed for a cause is not asked again.
Parted(cause, e, f) ==
    CASE cause = "network" -> e.url # f.url
      [] cause = "402" -> e.url # f.url \/ e.key # f.key
      [] cause = "broker" -> e.url # f.url \/ e.model # f.model
      [] OTHER -> e.model # f.model

\* The failure of the entry the walk comes to is remembered, by its kind.
LEMMA FailsKeepsWalkInv == WalkInv /\ Walk!Fails => WalkInv'
<1>. SUFFICES ASSUME WalkInv, Walk!Fails PROVE WalkInv'
    OBVIOUS
<1>1. PICK e : /\ e = Walk!Entries[next] /\ Walk!Answer(e) = Walk!Answer(Walk!Entries[next])
               /\ Walk!Skipped(e) = Walk!Skipped(Walk!Entries[next])
               /\ Walk!Marked(e, Walk!Kind(Walk!Answer(e)))
                    = Walk!Marked(Walk!Entries[next], Walk!Kind(Walk!Answer(Walk!Entries[next])))
    BY Zenon
<1>2. PICK f : f = [entry |-> e, cause |-> Walk!Answer(e)]
    OBVIOUS
<1>3. /\ UNCHANGED <<world, outcome>> /\ next' = next + 1
      /\ outcome = "walking" /\ next <= Len(Walk!Entries)
      /\ ~Walk!Skipped(e) /\ Walk!Answer(e) # "ok"
      /\ failed' = Append(failed, f) /\ dead' = Walk!Marked(e, Walk!Kind(Walk!Answer(e)))
    BY <1>1, <1>2 DEF Walk!Fails, Walk!Walking
<1>4. /\ Walk!Entries' = Walk!Entries /\ WalkFailures' = WalkFailures
      /\ \A x : Walk!Answer(x)' = Walk!Answer(x)
    BY <1>3, WorldStays
<1>5. world.chain \in Chains /\ next \in Nat \ {0} /\ failed \in Seq(WalkFailures)
    BY DEF WalkInv
<1>6. Walk!Entries \in Seq(Walk!AllEntries) /\ next \in 1..Len(Walk!Entries)
    BY <1>3, <1>5, EntriesHold
<1>7. f \in WalkFailures /\ f.entry = e /\ f.cause = Walk!Answer(e)
    BY <1>1, <1>2, <1>6 DEF WalkFailures
<1>. DEFINE n == Len(failed)
<1>8. /\ failed' \in Seq(WalkFailures) /\ Len(failed') = n + 1 /\ n \in Nat
      /\ failed'[n + 1] = f /\ \A i \in 1..n : failed'[i] = failed[i]
    BY <1>3, <1>5, <1>7
<1>9. \A i \in 1..Len(failed') : failed'[i].cause # "ok"
    BY <1>3, <1>7, <1>8 DEF WalkInv
<1>. DEFINE kind == Walk!Kind(Walk!Answer(e))
<1>10. kind \in {"endpoint", "endpoint-model", "credit", "model"}
    BY DEF Walk!Kind
<1>11. \A i \in 1..n : Walk!Kind(failed'[i].cause) = Walk!Kind(failed[i].cause)
    BY <1>8
<1>12. Walk!Kind(failed'[n + 1].cause) = kind
    BY <1>7, <1>8
<1>13. \A k : FailedAs(k)' = FailedAs(k) \cup {i \in {n + 1} : kind = k}
    BY <1>8, <1>11, <1>12 DEF FailedAs, Walk!Kind
<1>14. \A k : FailedAs(k) \subseteq 1..n
    BY DEF FailedAs
<1>. DEFINE urls(s) == {failed[i].entry.url : i \in s}
            pairs(s) == {<<failed[i].entry.url, failed[i].entry.model>> : i \in s}
            credentials(s) == {Walk!Credential(failed[i].entry) : i \in s}
            models(s) == {failed[i].entry.model : i \in s}
<1>. HIDE DEF kind
<1>15. dead = [url |-> urls(FailedAs("endpoint")), pair |-> pairs(FailedAs("endpoint-model")),
               credential |-> credentials(FailedAs("credit")),
               model |-> models(FailedAs("model"))]
    BY DEF WalkInv, Remembered
<1>16. dead' = [url |-> dead.url \cup (IF kind = "endpoint" THEN {e.url} ELSE {}),
                pair |-> dead.pair \cup
                           (IF kind = "endpoint-model" THEN {<<e.url, e.model>>} ELSE {}),
                credential |-> dead.credential \cup
                                 (IF kind = "credit" THEN {Walk!Credential(e)} ELSE {}),
                model |-> dead.model \cup (IF kind = "model" THEN {e.model} ELSE {})]
    <2>1. dead' = Walk!Marked(e, kind)
        BY <1>3 DEF kind
    <2>. HIDE DEF urls, pairs, credentials, models
    <2>. QED BY <1>10, <1>15, <2>1 DEF Walk!Marked
<1>17. Remembered'
    <2>1. {failed'[i].entry.url : i \in FailedAs("endpoint")'}
            = urls(FailedAs("endpoint")) \cup (IF kind = "endpoint" THEN {e.url} ELSE {})
        BY <1>7, <1>8, <1>13, <1>14
    <2>2. {<<failed'[i].entry.url, failed'[i].entry.model>> : i \in FailedAs("endpoint-model")'}
            = pairs(FailedAs("endpoint-model")) \cup
                (IF kind = "endpoint-model" THEN {<<e.url, e.model>>} ELSE {})
        BY <1>7, <1>8, <1>13, <1>14
    <2>3. {Walk!Credential(failed'[i].entry) : i \in FailedAs("credit")'}
            = credentials(FailedAs("credit")) \cup
                (IF kind = "credit" THEN {Walk!Credential(e)} ELSE {})
        BY <1>7, <1>8, <1>13, <1>14 DEF Walk!Credential
    <2>4. {failed'[i].entry.model : i \in FailedAs("model")'}
            = models(FailedAs("model")) \cup (IF kind = "model" THEN {e.model} ELSE {})
        BY <1>7, <1>8, <1>13, <1>14
    <2>5. Remembered' = (dead' =
            [url |-> {failed'[i].entry.url : i \in FailedAs("endpoint")'},
             pair |-> {<<failed'[i].entry.url, failed'[i].entry.model>> :
                         i \in FailedAs("endpoint-model")'},
             credential |-> {Walk!Credential(failed'[i].entry) : i \in FailedAs("credit")'},
             model |-> {failed'[i].entry.model : i \in FailedAs("model")'}])
        BY DEF Remembered, Walk!Credential
    <2>. HIDE DEF urls, pairs, credentials, models
    <2>. QED BY <1>15, <1>16, <2>1, <2>2, <2>3, <2>4, <2>5
<1>18. \A x : Walk!Skipped(x) => Walk!Skipped(x)'
    BY <1>16 DEF Walk!Skipped, Walk!Credential
<1>19. Walk!Skipped(e)'
    <2>1. kind = "credit" => e.key # NoKey
        <3>1. e \in Walk!AllEntries
            BY <1>1, <1>6
        <3>2. world.says[e] # "402"
            BY <3>1, WalkAssumption DEF WalkInv, WalkAssumption
        <3>. QED BY <3>2 DEF kind, Walk!Kind, Walk!Answer
    <2>. QED BY <1>10, <1>16, <2>1 DEF Walk!Skipped, Walk!Credential
<1>20. PassedIsSkipped'
    <2>. SUFFICES ASSUME NEW k \in 1..next
                  PROVE  k \in 1..Len(Walk!Entries) /\ Walk!Skipped(Walk!Entries[k])'
        BY <1>3, <1>4, <1>5 DEF PassedIsSkipped
    <2>1. PICK x : x = Walk!Entries[k] /\ Walk!Skipped(x) = Walk!Skipped(Walk!Entries[k])
        BY Zenon
    <2>2. k \in 1..Len(Walk!Entries)
        BY <1>5, <1>6
    <2>3. Walk!Skipped(x)'
        <3>1. CASE k = next
            BY <1>1, <1>19, <2>1, <3>1
        <3>2. CASE k # next
            <4>1. k \in 1..(next - 1)
                BY <1>5, <3>2
            <4>. QED BY <1>18, <2>1, <4>1 DEF WalkInv, PassedIsSkipped
        <3>. QED BY <3>1, <3>2
    <2>4. Walk!Entries[k]' = x
        BY <1>4, <2>1
    <2>. QED BY <2>2, <2>3, <2>4 DEF Walk!Skipped, Walk!Credential
<1>21. WalkIsThorough'
    <2>1. ASSUME NEW k \in 1..next, Walk!Answer(Walk!Entries[k]) = "ok"
          PROVE  \E i \in DOMAIN failed' :
                   /\ failed'[i].entry.model = Walk!Entries[k].model
                   /\ failed'[i].cause \notin {"network", "402", "broker"}
        <3>1. k \in 1..(next - 1)
            BY <1>1, <1>3, <1>5, <2>1
        <3>2. PICK i \in DOMAIN failed : /\ failed[i].entry.model = Walk!Entries[k].model
                                         /\ failed[i].cause \notin {"network", "402", "broker"}
            BY <2>1, <3>1 DEF WalkInv, WalkIsThorough, Walk!WalkIsThorough
        <3>3. i \in 1..n /\ i \in DOMAIN failed'
            BY <1>5, <1>8
        <3>. QED BY <1>8, <3>2, <3>3
    <2>2. ASSUME NEW i \in 1..n, NEW x, x = failed[i].entry
          PROVE  Parted(failed[i].cause, x, e)
        <3>1. Walk!Answer(x) = failed[i].cause
            <4>1. PICK y : y = failed[i].entry /\ Walk!Answer(y) = failed[i].cause
                BY <1>5, FailuresAreEntries
            <4>. QED BY <2>2, <4>1
        <3>2. i \in FailedAs(Walk!Kind(failed[i].cause))
            BY DEF FailedAs
        <3>3. failed[i].cause = "402" => x.key # NoKey
            <4>1. PICK k \in 1..Len(Walk!Entries) : failed[i].entry = Walk!Entries[k]
                BY <1>5, FailuresAreEntries
            <4>2. x \in Walk!AllEntries
                BY <1>6, <2>2, <4>1
            <4>3. world.says[x] # "402"
                BY <4>2, WalkAssumption DEF WalkInv, WalkAssumption
            <4>. QED BY <3>1, <4>3 DEF Walk!Answer
        <3>. QED BY <1>3, <1>15, <2>2, <3>2, <3>3
                 DEF Parted, Walk!Kind, Walk!Skipped, Walk!Credential
    <2>3. ASSUME NEW i \in DOMAIN failed', NEW j \in DOMAIN failed', i < j
          PROVE  Parted(failed'[i].cause, failed'[i].entry, failed'[j].entry)
        <3>1. i \in 1..n /\ (j \in 1..n \/ j = n + 1)
            BY <1>8, <2>3
        <3>2. CASE j \in 1..n
            <4>1. i \in DOMAIN failed /\ j \in DOMAIN failed
                BY <1>5, <3>1, <3>2
            <4>2. Parted(failed[i].cause, failed[i].entry, failed[j].entry)
                BY <2>3, <4>1 DEF Parted, WalkInv, WalkIsThorough, Walk!WalkIsThorough
            <4>. QED BY <1>8, <3>1, <3>2, <4>2
        <3>3. CASE j = n + 1
            <4>1. Parted(failed[i].cause, failed[i].entry, e)
                BY <2>2, <3>1
            <4>2. failed'[i] = failed[i] /\ failed'[j].entry = e
                BY <1>7, <1>8, <3>1, <3>3
            <4>. QED BY <4>1, <4>2
        <3>. QED BY <3>1, <3>2, <3>3
    <2>4. \A k \in 1..next : Walk!Answer(Walk!Entries[k])' = Walk!Answer(Walk!Entries[k])
        BY <1>3 DEF Walk!Answer, Walk!Entries
    <2>5. next' - 1 = next
        BY <1>3, <1>5
    <2>. HIDE DEF n
    <2>. QED BY <1>4, <2>1, <2>3, <2>4, <2>5 DEF Parted, WalkIsThorough, Walk!WalkIsThorough
<1>22. VerdictFits'
    BY <1>3 DEF VerdictFits, Walk!VerdictFits
<1>. QED BY <1>3, <1>4, <1>5, <1>8, <1>9, <1>17, <1>20, <1>21, <1>22 DEF WalkInv

\* When the chain is exhausted, something has failed, and what failed was asked.
LEMMA ExhaustedHasFailed ==
    ASSUME WalkInv, next > Len(Walk!Entries)
    PROVE  1 \in 1..Len(failed)
<1>1. Walk!Entries \in Seq(Walk!AllEntries) /\ Len(world.chain) >= 1
      /\ world.chain \in Seq(ProfileModels)
      /\ \A i \in 1..Len(world.chain) : \E k \in 1..Len(Walk!Entries) :
           Walk!Entries[k].model = world.chain[i]
    BY EntriesHold DEF WalkInv
<1>2. PICK k \in 1..Len(Walk!Entries) : Walk!Entries[k].model = world.chain[1]
    BY <1>1
<1>3. k \in 1..(next - 1)
    BY <1>1, <1>2 DEF WalkInv
<1>4. PICK e : e = Walk!Entries[k] /\ Walk!Skipped(e)
    BY <1>3 DEF WalkInv, PassedIsSkipped
<1>5. \E i \in 1..Len(failed) : TRUE
    BY <1>4, SkippedByFailure
<1>. QED BY <1>5 DEF WalkInv

\* The failures are numbered.
LEMMA FailedIsSequence == WalkInv => DOMAIN failed = 1..Len(failed)
<1>. SUFFICES ASSUME failed \in Seq(WalkFailures) PROVE DOMAIN failed = 1..Len(failed)
    BY DEF WalkInv
<1>. QED OBVIOUS

\* A failure is the answer of an entry that was asked.
LEMMA FailedWasAsked ==
    ASSUME WalkInv, NEW i \in 1..Len(failed)
    PROVE  \E e \in Walk!AllEntries :
             /\ e = failed[i].entry /\ Walk!Asked(e)
             /\ failed[i].cause = Walk!Answer(e) /\ failed[i].cause # "ok"
<1>1. Walk!Entries \in Seq(Walk!AllEntries)
    BY EntriesHold DEF WalkInv
<1>2. PICK k \in 1..Len(Walk!Entries) : /\ failed[i].entry = Walk!Entries[k]
                                        /\ failed[i].cause = Walk!Answer(failed[i].entry)
    BY FailuresAreEntries DEF WalkInv
<1>3. PICK e : e = failed[i].entry /\ Walk!Answer(e) = failed[i].cause
    BY <1>2
<1>4. e \in Walk!AllEntries /\ Walk!Asked(e)
    BY <1>1, <1>2, <1>3 DEF Walk!Asked
<1>. QED BY <1>3, <1>4 DEF WalkInv

\* What no new list of models can mend is told from what one can.
LEMMA UpdateIsOfUse ==
    ASSUME WalkInv, next > Len(Walk!Entries), world.profile # "static",
           ~Walk!Outage, ~Walk!KeyError, ~Walk!NoCredit, ~Walk!ThisRequest
    PROVE  ~(Walk!KeysRefused \/ Walk!KeysEmpty \/ Walk!RequestTooMuch
             \/ Walk!OneProviderSick)
<1>1. 1 \in 1..Len(failed) /\ DOMAIN failed = 1..Len(failed)
    BY ExhaustedHasFailed DEF WalkInv
<1>2. failed[1].cause \in Walk!Causes
    BY <1>1 DEF Walk!Causes
<1>3. ASSUME NEW c \in Walk!Causes
      PROVE  \E e \in Walk!AllEntries : Walk!Asked(e) /\ c = Walk!Answer(e) /\ c # "ok"
    <2>1. PICK i \in 1..Len(failed) : c = failed[i].cause
        BY <1>1, <1>3 DEF Walk!Causes
    <2>. QED BY <2>1, FailedWasAsked
<1>4. ASSUME Walk!KeysRefused PROVE FALSE
    <2>1. ASSUME NEW c \in Walk!Causes PROVE c = "401"
        <3>1. PICK e \in Walk!AllEntries : Walk!Asked(e) /\ c = Walk!Answer(e)
            BY <1>3, <2>1
        <3>. QED BY <1>4, <3>1 DEF Walk!KeysRefused, Walk!AllUp, Walk!Answer
    <2>. QED BY <1>2, <2>1 DEF Walk!KeyError
<1>5. ASSUME Walk!KeysEmpty PROVE FALSE
    <2>1. ASSUME NEW c \in Walk!Causes PROVE c \in {"401", "402"}
        <3>1. PICK e \in Walk!AllEntries : Walk!Asked(e) /\ c = Walk!Answer(e)
            BY <1>3, <2>1
        <3>2. world.url[e.url] = "up" /\ e.key # NoKey /\ world.key[e.key] # "good"
            BY <1>5, <3>1 DEF Walk!KeysEmpty, Walk!AllUp
        <3>3. world.key[e.key] \in {"refused", "unfunded"}
            <4>1. e.key \in Walk!Keys
                BY <3>1, <3>2 DEF Walk!Keys
            <4>. QED BY <3>2, <4>1 DEF WalkInv
        <3>. QED BY <3>1, <3>2, <3>3 DEF Walk!Answer
    <2>. QED BY <1>2, <1>5, <2>1 DEF Walk!KeysEmpty, Walk!KeyError, Walk!NoCredit
<1>6. ASSUME Walk!RequestTooMuch PROVE FALSE
    <2>1. ASSUME NEW c \in Walk!Causes PROVE c \in {"400", "413"}
        BY <1>3, <1>6, <2>1 DEF Walk!RequestTooMuch
    <2>. QED BY <1>2, <2>1 DEF Walk!ThisRequest, Walk!NonTransient, Walk!ServiceLevel
<1>7. ASSUME Walk!OneProviderSick PROVE FALSE
    <2>1. PICK u \in Walk!Urls : /\ world.url[u] = "sick"
                                 /\ \A e \in Walk!AllEntries : Walk!Asked(e) => e.url = u
        BY <1>7 DEF Walk!OneProviderSick
    <2>2. ASSUME NEW i \in 1..Len(failed)
          PROVE  failed[i].cause = "5xx" /\ failed[i].entry.url = u
        <3>1. PICK e \in Walk!AllEntries : /\ e = failed[i].entry /\ Walk!Asked(e)
                                           /\ failed[i].cause = Walk!Answer(e)
            BY FailedWasAsked
        <3>. QED BY <2>1, <3>1 DEF Walk!Answer
    <2>3. Walk!Causes = {"5xx"}
        BY <1>1, <2>2 DEF Walk!Causes
    <2>4. Walk!FailedUrls = {u}
        BY <1>1, <2>2 DEF Walk!FailedUrls
    <2>5. /\ world.chain \in Seq(ProfileModels) /\ Walk!Entries \in Seq(Walk!AllEntries)
          /\ \A i \in 1..Len(world.chain) : \E k \in 1..Len(Walk!Entries) :
               Walk!Entries[k].model = world.chain[i]
        BY EntriesHold DEF WalkInv
    <2>6. ASSUME NEW i \in 1..Len(world.chain) PROVE world.chain[i] \in Walk!FailedModels
        <3>1. PICK k \in 1..Len(Walk!Entries) : Walk!Entries[k].model = world.chain[i]
            BY <2>5
        <3>2. k \in 1..(next - 1)
            BY <2>5 DEF WalkInv
        <3>3. PICK e : e = Walk!Entries[k] /\ Walk!Skipped(e)
            BY <3>2 DEF WalkInv, PassedIsSkipped
        <3>4. PICK j \in 1..Len(failed) : failed[j].entry.model = e.model
            BY <2>2, <3>3, SkippedByFailure
        <3>. QED BY <1>1, <3>1, <3>3, <3>4 DEF Walk!FailedModels
    <2>7. PICK i, j \in DOMAIN world.chain : world.chain[i] # world.chain[j]
        BY <1>7 DEF Walk!OneProviderSick
    <2>8. i \in 1..Len(world.chain) /\ j \in 1..Len(world.chain)
        BY <2>5, <2>7
    <2>9. Walk!OutagePattern
        BY <2>1, <2>3, <2>4, <2>6, <2>7, <2>8 DEF Walk!OutagePattern
    <2>. QED BY <2>1, <2>4, <2>9 DEF Walk!Outage
<1>. QED BY <1>4, <1>5, <1>6, <1>7

\* The end of the chain keeps the invariant of the walk.
LEMMA ExhaustKeepsWalkInv == WalkInv /\ Walk!Exhaust => WalkInv'
<1>. SUFFICES ASSUME WalkInv, Walk!Exhaust PROVE WalkInv'
    OBVIOUS
<1>1. /\ UNCHANGED <<world, next, failed, dead>> /\ next > Len(Walk!Entries)
    BY DEF Walk!Exhaust, Walk!walkVars
<1>2. PICK stopped \in BOOLEAN, retry \in BOOLEAN, updater \in BOOLEAN :
         outcome' = Walk!Verdict(stopped, retry, updater)
    BY DEF Walk!Exhaust
<1>3. outcome' = "update" =>
        ~(Walk!KeysRefused \/ Walk!KeysEmpty \/ Walk!RequestTooMuch \/ Walk!OneProviderSick)
    <2>1. outcome' = "update" =>
            /\ world.profile # "static"
            /\ ~Walk!Outage /\ ~Walk!KeyError /\ ~Walk!NoCredit /\ ~Walk!ThisRequest
        BY <1>2 DEF Walk!Verdict
    <2>. QED BY <1>1, <2>1, UpdateIsOfUse
<1>4. outcome' = "outage" => \E u \in Walk!Urls : world.url[u] # "up"
    <2>. SUFFICES ASSUME outcome' = "outage" PROVE \E u \in Walk!Urls : world.url[u] # "up"
        OBVIOUS
    <2>1. Walk!Outage
        BY <1>2 DEF Walk!Verdict
    <2>2. PICK u \in Walk!FailedUrls : world.url[u] # "up"
        BY <2>1 DEF Walk!Outage
    <2>3. PICK i \in 1..Len(failed) : u = failed[i].entry.url
        BY <2>2 DEF Walk!FailedUrls, WalkInv
    <2>4. PICK e \in Walk!AllEntries : e = failed[i].entry
        BY FailedWasAsked
    <2>5. u \in Walk!Urls
        BY <2>3, <2>4 DEF Walk!Urls
    <2>. QED BY <2>2, <2>5
<1>5. outcome' = "this request" =>
        \E e \in Walk!AllEntries : Walk!Asked(e) /\ Walk!Answer(e) \in {"400", "413"}
    <2>. SUFFICES ASSUME outcome' = "this request"
                  PROVE  \E e \in Walk!AllEntries :
                           Walk!Asked(e) /\ Walk!Answer(e) \in {"400", "413"}
        OBVIOUS
    <2>1. PICK c \in Walk!Causes : c \in {"400", "413"}
        <3>1. Walk!ThisRequest
            BY <1>2 DEF Walk!Verdict
        <3>. QED BY <3>1 DEF Walk!ThisRequest, Walk!NonTransient, Walk!ServiceLevel
    <2>2. PICK i \in 1..Len(failed) : failed[i].cause = c
        <3>1. DOMAIN failed = 1..Len(failed)
            BY FailedIsSequence
        <3>. QED BY <2>1, <3>1 DEF Walk!Causes
    <2>3. PICK e \in Walk!AllEntries : Walk!Asked(e) /\ failed[i].cause = Walk!Answer(e)
        BY <2>2, FailedWasAsked
    <2>. QED BY <2>1, <2>2, <2>3
<1>6. VerdictFits'
    <2>1. /\ Walk!KeysRefused' = Walk!KeysRefused /\ Walk!KeysEmpty' = Walk!KeysEmpty
          /\ Walk!RequestTooMuch' = Walk!RequestTooMuch
          /\ Walk!OneProviderSick' = Walk!OneProviderSick
        BY <1>1 DEF Walk!KeysRefused, Walk!KeysEmpty, Walk!RequestTooMuch,
                    Walk!OneProviderSick, Walk!AllUp, Walk!Asked, Walk!Entries, Walk!Answer
    <2>2. \A e : Walk!Asked(e)' = Walk!Asked(e) /\ Walk!Answer(e)' = Walk!Answer(e)
        BY <1>1 DEF Walk!Asked, Walk!Entries, Walk!Answer
    <2>. QED BY <1>1, <1>3, <1>4, <1>5, <2>1, <2>2 DEF VerdictFits, Walk!VerdictFits
<1>. QED BY <1>1, <1>6, EndKeepsWalkInv

\* Every step of a walk keeps its invariant.
LEMMA WalkStep == WalkInv /\ [Walk!Next]_(Walk!vars) => WalkInv'
<1>. SUFFICES ASSUME WalkInv, [Walk!Next]_(Walk!vars) PROVE WalkInv'
    OBVIOUS
<1>1. CASE Walk!Answered \/ Walk!CutShort
    <2>1. /\ UNCHANGED <<world, next, failed, dead>>
          /\ outcome' \in {"answered", "out of time", "stopped"}
        BY <1>1 DEF Walk!Answered, Walk!CutShort, Walk!walkVars
    <2>2. VerdictFits'
        BY <2>1 DEF VerdictFits, Walk!VerdictFits
    <2>. QED BY <2>1, <2>2, EndKeepsWalkInv
<1>2. CASE UNCHANGED Walk!vars
    <2>1. UNCHANGED <<world, next, failed, dead, outcome>>
        BY <1>2 DEF Walk!vars, Walk!walkVars
    <2>2. /\ Walk!KeysRefused' = Walk!KeysRefused /\ Walk!KeysEmpty' = Walk!KeysEmpty
          /\ Walk!RequestTooMuch' = Walk!RequestTooMuch
          /\ Walk!OneProviderSick' = Walk!OneProviderSick
        BY <2>1 DEF Walk!KeysRefused, Walk!KeysEmpty, Walk!RequestTooMuch,
                    Walk!OneProviderSick, Walk!AllUp, Walk!Asked, Walk!Entries, Walk!Answer
    <2>3. \A e : Walk!Asked(e)' = Walk!Asked(e) /\ Walk!Answer(e)' = Walk!Answer(e)
        BY <2>1 DEF Walk!Asked, Walk!Entries, Walk!Answer
    <2>4. VerdictFits'
        BY <2>1, <2>2, <2>3 DEF WalkInv, VerdictFits, Walk!VerdictFits
    <2>. QED BY <2>1, <2>4, EndKeepsWalkInv
<1>. QED BY <1>1, <1>2, SkipKeepsWalkInv, FailsKeepsWalkInv, ExhaustKeepsWalkInv
         DEF Walk!Next

\* The walk leaves no working entry behind but of a model that another of its
\* groups refused, and asks nothing again of what has failed.
THEOREM TheWalkIsThorough == Walk!Spec => []WalkIsThorough
<1>1. WalkInv => WalkIsThorough
    BY DEF WalkInv
<1>. QED BY <1>1, WalkInit, WalkStep, PTL DEF Walk!Spec

\* An update is started only for what new models can mend, and what is said
\* instead is so.
THEOREM TheVerdictFits == Walk!Spec => []VerdictFits
<1>1. WalkInv => VerdictFits
    BY DEF WalkInv
<1>. QED BY <1>1, WalkInit, WalkStep, PTL DEF Walk!Spec
=============================================================================
