------------------------- MODULE RequestPathProofs --------------------------
(*****************************************************************************)
(* Proofs about three of the structures of RequestPath, the fourth being the *)
(* registry of module ServerRegistryProofs.                                  *)
(*                                                                           *)
(* Of RetryLoop, for any number of calls, any threshold, ladder, window and  *)
(* budgets: the epochs of the breaker tell a sleeper whether it was reset    *)
(* under it, its two counters are those of one streak, and a retry window    *)
(* that is closed stays closed.                                              *)
(*****************************************************************************)
EXTENDS RequestPath, CommandQueueProofs

\* What the constants are: a window and a threshold above zero.
Parameters ==
    /\ Threshold \in Nat \ {0} /\ Window \in Nat \ {0}
    /\ Rungs \in Seq(Nat) /\ MaxRetries \in Nat /\ MaxBlanks \in Nat
    /\ PaidBudget \in Nat /\ None \notin Int

\* Numbers, and who may be where.
Types ==
    /\ shared \in BOOLEAN
    /\ calls \in [Calls -> {"enter", "wait", "request", "pause", "ok", "labelled",
                         "aborted", "closed", "failed"}]
    /\ tries \in [Calls -> Nat] /\ blanks \in [Calls -> Nat]
    /\ wait \in [Calls -> [left : Nat, epoch : Nat]]
    /\ clock \in [Calls -> 0..Window \cup {None}]
    /\ expired \subseteq Calls /\ resetUnder \subseteq Calls
    /\ failures \in Nat /\ rung \in 0..Len(Rungs)
    /\ epoch \in Nat /\ successEpoch \in Int
    /\ billed \in Nat /\ beyond \in [Calls -> Nat] /\ proven \in BOOLEAN

\* No wait is of a later epoch, and one through a reset is of an earlier one.
Epochs ==
    /\ successEpoch <= epoch
    /\ successEpoch = epoch => proven
    /\ \A c \in Calls : wait[c].epoch <= epoch
    /\ \A c \in resetUnder : calls[c] = "wait" => wait[c].epoch < epoch

\* The breaker counts what happened in this streak, and nothing else.
Streak == failures = outages /\ rung = waits

\* A clock is closed by a refusal only after it was started; one dispatch has
\* one clock.
Clocks ==
    /\ \A c \in expired : clock[c] # None
    /\ shared => \A c, d \in Calls : clock[c] = clock[d]

\* Who paid beyond the budget has returned.
Paid == \A c \in Calls : beyond[c] \in {0, 1} /\ (beyond[c] = 1 => calls[c] = "labelled")

RetryInv == Types /\ Epochs /\ Streak /\ Clocks /\ Paid

\* Nothing has happened yet.
LEMMA RetryInitially == ASSUME Parameters PROVE Retry!Init => RetryInv
<1>. SUFFICES ASSUME Retry!Init PROVE RetryInv
    OBVIOUS
<1>1. Len(Rungs) \in Nat
    BY DEF Parameters
<1>2. Types
    BY <1>1 DEF Retry!Init, Types, Retry!Awake
<1>. QED BY <1>2 DEF Retry!Init, RetryInv, Epochs, Streak, Clocks, Paid, Retry!Awake

\* startRetryClock keeps one clock per dispatch, and starts it.
LEMMA ClockStarts ==
    ASSUME Parameters, Types, Clocks, NEW c \in Calls, clock' = Retry!Started(c)
    PROVE  /\ clock' \in [Calls -> 0..Window \cup {None}]
           /\ \A d \in Retry!SameClock(c) : clock'[d] # None
           /\ \A d \in Calls : clock[d] # None => clock'[d] = clock[d]
           /\ clock[c] = None => clock'[c] = Window
           /\ shared => \A d, e \in Calls : clock'[d] = clock'[e]
           /\ c \in Retry!SameClock(c) /\ Retry!SameClock(c) \subseteq Calls
           /\ \A d \in expired : clock'[d] # None
<1>1. Window \in 0..Window /\ Window # None
    BY DEF Parameters
<1>2. c \in Retry!SameClock(c) /\ Retry!SameClock(c) \subseteq Calls
    BY DEF Retry!SameClock
<1>3. \A d \in Calls : clock'[d] = IF d \in Retry!SameClock(c) /\ clock[d] = None
                                   THEN Window ELSE clock[d]
    BY DEF Retry!Started
<1>4. clock' \in [Calls -> 0..Window \cup {None}]
    BY <1>1 DEF Retry!Started, Types
<1>5. shared => \A d, e \in Calls : clock'[d] = clock'[e]
    BY <1>3 DEF Retry!SameClock, Clocks
<1>. QED BY <1>1, <1>2, <1>3, <1>4, <1>5 DEF Clocks, Types

\* The places of a call after a step of c.
LEMMA Moves ==
    ASSUME Types, NEW c \in Calls, NEW where, Retry!GoTo(c, where)
    PROVE  calls'[c] = where /\ \A d \in Calls : d # c => calls'[d] = calls[d]
<1>. QED BY DEF Types, Retry!GoTo

\* The breaker, asked by a call that just failed or just began.
LEMMA HealthKeeps ==
    ASSUME Parameters, Types, Epochs, Streak, Clocks,
           NEW c \in Calls, calls[c] \in {"enter", "request"},
           NEW f \in Nat, Retry!CheckHealth(c, f, clock'[c], f),
           UNCHANGED shared, clock' \in [Calls -> 0..Window \cup {None}],
           \A d \in expired : clock'[d] # None,
           shared => \A d, e \in Calls : clock'[d] = clock'[e]
    PROVE  /\ \A d \in Calls : d # c => calls'[d] = calls[d]
           /\ calls' \in [Calls -> {"enter", "wait", "request", "pause", "ok",
                                 "labelled", "aborted", "closed", "failed"}]
           /\ wait' \in [Calls -> [left : Nat, epoch : Nat]]
           /\ expired' \subseteq Calls /\ resetUnder' \subseteq Calls
           /\ failures' \in Nat /\ rung' \in 0..Len(Rungs)
           /\ epoch' \in Nat /\ successEpoch' \in Int /\ proven' \in BOOLEAN
           /\ Epochs' /\ Streak' /\ Clocks'
<1>. DEFINE Goal ==
           /\ \A d \in Calls : d # c => calls'[d] = calls[d]
           /\ calls' \in [Calls -> {"enter", "wait", "request", "pause", "ok",
                                 "labelled", "aborted", "closed", "failed"}]
           /\ wait' \in [Calls -> [left : Nat, epoch : Nat]]
           /\ expired' \subseteq Calls /\ resetUnder' \subseteq Calls
           /\ failures' \in Nat /\ rung' \in 0..Len(Rungs)
           /\ epoch' \in Nat /\ successEpoch' \in Int /\ proven' \in BOOLEAN
           /\ Epochs' /\ Streak' /\ Clocks'
<1>. SUFFICES Goal
    OBVIOUS
<1>1. Len(Rungs) \in Nat /\ \A i \in 1..Len(Rungs) : Rungs[i] \in Nat
    BY DEF Parameters
<1>2. ASSUME f < Threshold,
             Retry!GoTo(c, IF Retry!Closed(c) THEN "closed" ELSE "request"),
             failures' = f, outages' = f,
             UNCHANGED <<rung, epoch, successEpoch, expired, wait, resetUnder,
                         proven, waits>>
      PROVE  Goal
    <2>1. Epochs'
        BY <1>2 DEF Types, Epochs, Retry!GoTo
    <2>2. Streak' /\ Clocks'
        BY <1>2 DEF Streak, Clocks
    <2>. QED BY <1>2, <2>1, <2>2 DEF Types, Retry!GoTo
<1>3. ASSUME rung >= Len(Rungs), Retry!GoTo(c, "aborted"), Retry!Reset,
             resetUnder' = resetUnder \cup Retry!Waiting, proven' = FALSE,
             outages' = 0, waits' = 0, UNCHANGED <<expired, wait>>
      PROVE  Goal
    <2>1. \A d \in Calls : wait[d].epoch \in Nat
        BY DEF Types
    <2>2. Epochs'
        BY SMTT(30), <1>3, <2>1 DEF Types, Epochs, Retry!Reset, Retry!Waiting, Retry!GoTo
    <2>3. Streak' /\ Clocks'
        BY <1>3 DEF Streak, Clocks, Retry!Reset
    <2>4. /\ \A d \in Calls : d # c => calls'[d] = calls[d]
          /\ calls' \in [Calls -> {"enter", "wait", "request", "pause", "ok",
                                "labelled", "aborted", "closed", "failed"}]
        BY <1>3 DEF Types, Retry!GoTo
    <2>5. /\ wait' \in [Calls -> [left : Nat, epoch : Nat]]
          /\ expired' \subseteq Calls /\ resetUnder' \subseteq Calls
        BY <1>3 DEF Types, Retry!Waiting
    <2>6. /\ failures' \in Nat /\ rung' \in 0..Len(Rungs)
          /\ epoch' \in Nat /\ successEpoch' \in Int /\ proven' \in BOOLEAN
        <3>1. failures' = 0 /\ rung' = 0 /\ epoch' = epoch + 1
            BY <1>3 DEF Retry!Reset
        <3>2. UNCHANGED successEpoch
            BY <1>3 DEF Retry!Reset
        <3>3. proven' \in BOOLEAN
            BY <1>3
        <3>. QED BY <1>1, <3>1, <3>2, <3>3 DEF Types
    <2>. QED BY <2>2, <2>3, <2>4, <2>5, <2>6
<1>4. ASSUME rung < Len(Rungs), ~Retry!Fits(c, Rungs[rung + 1], clock'[c]),
             Retry!GoTo(c, "closed"), expired' = expired \cup Retry!SameClock(c),
             failures' = f, outages' = f,
             UNCHANGED <<rung, epoch, successEpoch, wait, resetUnder, proven,
                         waits>>
      PROVE  Goal
    <2>1. clock'[c] # None
        BY <1>4 DEF Retry!Fits
    <2>2. \A d \in Retry!SameClock(c) : clock'[d] # None /\ d \in Calls
        BY <2>1 DEF Retry!SameClock
    <2>3. Epochs'
        BY <1>4 DEF Types, Epochs, Retry!GoTo
    <2>4. Streak' /\ Clocks'
        BY <1>4, <2>2 DEF Streak, Clocks
    <2>. QED BY <1>4, <2>2, <2>3, <2>4 DEF Types, Retry!GoTo
<1>5. ASSUME rung < Len(Rungs), Retry!GoTo(c, "wait"),
             wait' = [wait EXCEPT ![c] = [left |-> Rungs[rung + 1],
                                          epoch |-> epoch]],
             rung' = rung + 1, failures' = f, outages' = f, waits' = waits + 1,
             resetUnder' = resetUnder \ {c},
             UNCHANGED <<epoch, successEpoch, expired, proven>>
      PROVE  Goal
    <2>0. rung + 1 \in 1..Len(Rungs)
        BY <1>1, <1>5 DEF Types
    <2>1. Rungs[rung + 1] \in Nat
        BY <1>1, <2>0
    <2>2. /\ wait' \in [Calls -> [left : Nat, epoch : Nat]]
          /\ wait'[c].epoch = epoch /\ \A d \in Calls : d # c => wait'[d] = wait[d]
        BY <1>5, <2>1 DEF Types
    <2>3. Epochs'
        BY <1>5, <2>2 DEF Types, Epochs, Retry!GoTo
    <2>4. Streak' /\ Clocks'
        BY <1>5 DEF Streak, Clocks
    <2>5. /\ \A d \in Calls : d # c => calls'[d] = calls[d]
          /\ calls' \in [Calls -> {"enter", "wait", "request", "pause", "ok",
                                "labelled", "aborted", "closed", "failed"}]
        BY <1>5 DEF Types, Retry!GoTo
    <2>6. /\ failures' \in Nat /\ rung' \in 0..Len(Rungs)
          /\ epoch' \in Nat /\ successEpoch' \in Int
        BY <1>1, <1>5, <2>0 DEF Types
    <2>7. proven' \in BOOLEAN /\ expired' \subseteq Calls /\ resetUnder' \subseteq Calls
        BY <1>5 DEF Types
    <2>. QED BY <2>2, <2>3, <2>4, <2>5, <2>6, <2>7
<1>. HIDE DEF Goal
<1>. QED BY <1>2, <1>3, <1>4, <1>5 DEF Retry!CheckHealth

\* A reply ends the streak.
LEMMA SuccessKeeps ==
    ASSUME Parameters, Types, Epochs, Retry!RecordSuccess, NEW c \in Calls, NEW where,
           where # "wait", Retry!GoTo(c, where), UNCHANGED wait
    PROVE  /\ Epochs' /\ Streak'
           /\ failures' \in Nat /\ rung' \in 0..Len(Rungs) /\ proven' \in BOOLEAN
           /\ epoch' \in Nat /\ successEpoch' \in Int /\ resetUnder' \subseteq Calls
<1>1. Len(Rungs) \in Nat
    BY DEF Parameters
<1>2. /\ calls'[c] # "wait" /\ \A d \in Calls : d # c => calls'[d] = calls[d]
      /\ resetUnder \subseteq Calls /\ epoch \in Nat
    BY Moves DEF Types
<1>3. Epochs'
    BY <1>2 DEF Retry!RecordSuccess, Epochs
<1>. QED BY <1>1, <1>3 DEF Retry!RecordSuccess, Streak, Types

\* A reply that asks for a retry.
LEMMA RetryKeeps ==
    ASSUME Parameters, Types, Clocks, UNCHANGED shared, NEW c \in Calls,
           NEW left \in BOOLEAN, NEW where \in {"request", "pause", "labelled"},
           Retry!RetryReply(c, left, where)
    PROVE  /\ clock' \in [Calls -> 0..Window \cup {None}]
           /\ expired' \subseteq Calls /\ Clocks'
           /\ Retry!GoTo(c, where) \/ Retry!GoTo(c, "labelled")
           /\ calls'[c] = "request" => ~Retry!Closed(c)'
<1>1. CASE ~left
    <2>1. Retry!GoTo(c, "labelled") /\ UNCHANGED <<clock, expired>>
        BY <1>1 DEF Retry!RetryReply
    <2>. QED BY <2>1, Moves DEF Clocks, Types
<1>2. CASE left
    <2>1. clock' = Retry!Started(c)
        BY <1>2 DEF Retry!RetryReply
    <2>2. /\ clock' \in [Calls -> 0..Window \cup {None}]
          /\ shared => \A d, e \in Calls : clock'[d] = clock'[e]
          /\ \A d \in Retry!SameClock(c) : clock'[d] # None
          /\ c \in Retry!SameClock(c) /\ Retry!SameClock(c) \subseteq Calls
          /\ \A d \in expired : clock'[d] # None
        BY <2>1, ClockStarts
    <2>3. CASE Retry!Fits(c, 0, clock'[c])
        <3>1. UNCHANGED expired /\ Retry!GoTo(c, where)
            BY <1>2, <2>3 DEF Retry!RetryReply
        <3>2. ~Retry!Closed(c)'
            BY <2>2, <2>3, <3>1 DEF Retry!Fits, Retry!Closed
        <3>. QED BY <2>2, <3>1, <3>2 DEF Clocks, Types
    <2>4. CASE ~Retry!Fits(c, 0, clock'[c])
        <3>1. expired' = expired \cup Retry!SameClock(c) /\ Retry!GoTo(c, "labelled")
            BY <1>2, <2>4 DEF Retry!RetryReply
        <3>. QED BY SMTT(30), <2>2, <3>1, Moves DEF Clocks, Types
    <2>. QED BY <2>3, <2>4
<1>. QED BY <1>1, <1>2

\* One step keeps the invariant.
LEMMA RetryStep == ASSUME Parameters PROVE RetryInv /\ [Retry!Next]_(Retry!vars) => RetryInv'
<1>. SUFFICES ASSUME RetryInv, [Retry!Next]_(Retry!vars) PROVE RetryInv'
    OBVIOUS
<1>. USE DEF RetryInv
<1>. DEFINE RetryPlaces == {"enter", "wait", "request", "pause", "ok", "labelled",
                       "aborted", "closed", "failed"}
<1>a. calls \in [Calls -> RetryPlaces]
    BY DEF Types
<1>b. None \notin 0..Window /\ resetUnder \subseteq Calls
    BY DEF Types, Parameters
<1>0. ASSUME NEW c \in Calls, NEW where \in RetryPlaces, Retry!GoTo(c, where)
      PROVE  calls' \in [Calls -> RetryPlaces]
    <2>. HIDE DEF RetryPlaces
    <2>. QED BY <1>a, <1>0 DEF Retry!GoTo
<1>1. ASSUME NEW c \in Calls, Retry!Enter(c) PROVE RetryInv'
    <2>1. Retry!CheckHealth(c, failures, clock'[c], failures) /\ failures \in Nat
        BY <1>1 DEF Retry!Enter, Streak, Types
    <2>2. /\ UNCHANGED <<shared, Retry!callVars, clock, Retry!money>>
          /\ calls[c] = "enter"
          /\ \A d \in expired : clock'[d] # None
          /\ shared => \A d, e \in Calls : clock'[d] = clock'[e]
          /\ clock' \in [Calls -> 0..Window \cup {None}]
        BY <1>1 DEF Retry!Enter, Clocks, Types
    <2>3. /\ \A d \in Calls : d # c => calls'[d] = calls[d]
          /\ calls' \in [Calls -> RetryPlaces]
          /\ wait' \in [Calls -> [left : Nat, epoch : Nat]]
          /\ expired' \subseteq Calls /\ resetUnder' \subseteq Calls
          /\ failures' \in Nat /\ rung' \in 0..Len(Rungs)
          /\ epoch' \in Nat /\ successEpoch' \in Int /\ proven' \in BOOLEAN
          /\ Epochs' /\ Streak' /\ Clocks'
        BY <2>1, <2>2, HealthKeeps
    <2>4. Types'
        BY <2>2, <2>3 DEF Types, Retry!callVars, Retry!money
    <2>5. Paid'
        BY <2>2, <2>3 DEF Paid, Retry!money
    <2>. QED BY <2>3, <2>4, <2>5
<1>2. ASSUME NEW c \in Calls, Retry!Wake(c) PROVE RetryInv'
    <2>1. /\ UNCHANGED <<shared, Retry!callVars, Retry!clocks, failures, rung, epoch,
                         successEpoch, Retry!money, Retry!history>>
          /\ calls[c] = "wait" /\ wait' = [wait EXCEPT ![c] = Retry!Awake]
          /\ \E where \in {"aborted", "request", "closed"} : Retry!GoTo(c, where)
        BY <1>2 DEF Retry!Wake
    <2>2. /\ calls' \in [Calls -> RetryPlaces] /\ calls'[c] # "wait"
          /\ \A d \in Calls : d # c => calls'[d] = calls[d]
        BY <1>0, <2>1, Moves
    <2>3. /\ wait' \in [Calls -> [left : Nat, epoch : Nat]]
          /\ wait'[c].epoch = 0 /\ \A d \in Calls : d # c => wait'[d] = wait[d]
        BY <2>1 DEF Types, Retry!Awake
    <2>4. Types'
        BY <2>1, <2>2, <2>3 DEF Types, Retry!callVars, Retry!clocks, Retry!money, Retry!history
    <2>5. Epochs'
        <3>1. UNCHANGED <<epoch, successEpoch, proven, resetUnder>> /\ epoch \in Nat
            BY <2>1 DEF Retry!history, Types
        <3>2. /\ successEpoch <= epoch /\ (successEpoch = epoch => proven)
              /\ \A d \in Calls : wait'[d].epoch <= epoch
            BY <2>3, <3>1 DEF Epochs
        <3>3. \A d \in resetUnder : calls'[d] = "wait" => wait'[d].epoch < epoch
            BY <1>b, <2>2, <2>3 DEF Epochs
        <3>. QED BY <3>1, <3>2, <3>3 DEF Epochs
    <2>6. Streak' /\ Clocks' /\ Paid'
        BY <2>1, <2>2 DEF Streak, Clocks, Paid, Retry!clocks, Retry!money, Retry!history
    <2>. QED BY <2>4, <2>5, <2>6
<1>3. ASSUME NEW c \in Calls, Retry!Answer(c) PROVE RetryInv'
    <2>1. /\ UNCHANGED <<shared, Retry!callVars, wait, Retry!clocks, Retry!money>>
          /\ calls[c] = "request" /\ Retry!RecordSuccess /\ Retry!GoTo(c, "ok")
        BY <1>3 DEF Retry!Answer
    <2>2. calls' \in [Calls -> RetryPlaces] /\ \A d \in Calls : d # c => calls'[d] = calls[d]
        BY <1>0, <2>1, Moves
    <2>3. Types' /\ Epochs' /\ Streak'
        BY <2>1, <2>2, SuccessKeeps DEF Types, Retry!callVars, Retry!clocks, Retry!money
    <2>4. Clocks' /\ Paid'
        BY <2>1, <2>2 DEF Clocks, Paid, Retry!clocks, Retry!money
    <2>. QED BY <2>3, <2>4
<1>4. ASSUME NEW c \in Calls, Retry!Glitch(c) PROVE RetryInv'
    <2>1. /\ UNCHANGED <<shared, blanks, paymentRetried, wait, Retry!money>>
          /\ calls[c] = "request" /\ Retry!RecordSuccess
          /\ tries' = [tries EXCEPT ![c] = @ + 1]
          /\ Retry!RetryReply(c, tries[c] < MaxRetries, "request")
        BY <1>4 DEF Retry!Glitch
    <2>2. /\ clock' \in [Calls -> 0..Window \cup {None}]
          /\ expired' \subseteq Calls /\ Clocks'
          /\ Retry!GoTo(c, "request") \/ Retry!GoTo(c, "labelled")
        <3>1. (tries[c] < MaxRetries) \in BOOLEAN
            OBVIOUS
        <3>. QED BY <2>1, <3>1, RetryKeeps
    <2>3. calls' \in [Calls -> RetryPlaces] /\ \A d \in Calls : d # c => calls'[d] = calls[d]
        BY <1>0, <2>2, Moves
    <2>4. tries' \in [Calls -> Nat]
        BY <2>1 DEF Types
    <2>5. Types' /\ Epochs' /\ Streak'
        BY <2>1, <2>2, <2>3, <2>4, SuccessKeeps DEF Types, Retry!money
    <2>6. Paid'
        BY <2>1, <2>3 DEF Paid, Retry!money
    <2>. QED BY <2>2, <2>5, <2>6
<1>5. ASSUME NEW c \in Calls, Retry!Blank(c) PROVE RetryInv'
    <2>1. /\ UNCHANGED <<shared, tries, paymentRetried, wait>>
          /\ calls[c] = "request" /\ Retry!RecordSuccess
          /\ blanks' = [blanks EXCEPT ![c] = @ + 1] /\ billed' = billed + 1
          /\ beyond' = [beyond EXCEPT ![c] = IF billed >= PaidBudget THEN @ + 1 ELSE @]
        BY <1>5 DEF Retry!Blank
    <2>2. /\ clock' \in [Calls -> 0..Window \cup {None}]
          /\ expired' \subseteq Calls /\ Clocks'
          /\ Retry!GoTo(c, "pause") \/ Retry!GoTo(c, "labelled")
          /\ billed >= PaidBudget => Retry!GoTo(c, "labelled")
        <3>1. CASE billed >= PaidBudget
            <4>1. Retry!GoTo(c, "labelled") /\ UNCHANGED Retry!clocks
                BY <1>5, <3>1 DEF Retry!Blank, Retry!OverBudget
            <4>. QED BY <2>1, <4>1 DEF Retry!clocks, Types, Clocks
        <3>2. CASE ~(billed >= PaidBudget)
            <4>1. \/ Retry!RetryReply(c, blanks[c] < MaxBlanks, "pause")
                  \/ Retry!RetryReply(c, blanks[c] < MaxBlanks, "labelled")
                BY <1>5, <3>2 DEF Retry!Blank, Retry!OverBudget
            <4>2. (blanks[c] < MaxBlanks) \in BOOLEAN
                OBVIOUS
            <4>. QED BY <2>1, <3>2, <4>1, <4>2, RetryKeeps
        <3>. QED BY <3>1, <3>2
    <2>3. calls' \in [Calls -> RetryPlaces] /\ \A d \in Calls : d # c => calls'[d] = calls[d]
        BY <1>0, <2>2, Moves
    <2>4. /\ blanks' \in [Calls -> Nat] /\ billed' \in Nat
          /\ beyond' \in [Calls -> Nat]
        BY SMTT(30), <2>1 DEF Types
    <2>5. Types' /\ Epochs' /\ Streak'
        BY <2>1, <2>2, <2>3, <2>4, SuccessKeeps DEF Types
    <2>6. beyond[c] = 0
        BY <2>1 DEF Paid
    <2>7. Paid'
        <3>. SUFFICES ASSUME NEW d \in Calls
                      PROVE  /\ beyond'[d] \in {0, 1}
                             /\ beyond'[d] = 1 => calls'[d] = "labelled"
            BY DEF Paid
        <3>1. CASE d # c
            BY <2>1, <2>3, <3>1 DEF Paid, Types
        <3>2. CASE d = c /\ billed >= PaidBudget
            BY <2>1, <2>2, <2>6, <3>2, Moves DEF Types
        <3>3. CASE d = c /\ ~(billed >= PaidBudget)
            BY <2>1, <2>6, <3>3 DEF Types
        <3>. QED BY <3>1, <3>2, <3>3
    <2>. QED BY <2>2, <2>5, <2>7
<1>6. ASSUME NEW c \in Calls, Retry!Resume(c) PROVE RetryInv'
    <2>1. /\ UNCHANGED <<shared, Retry!callVars, wait, Retry!clocks, Retry!health, Retry!money, Retry!history>>
          /\ calls[c] = "pause" /\ \E where \in {"labelled", "request"} : Retry!GoTo(c, where)
        BY <1>6 DEF Retry!Resume
    <2>2. /\ calls' \in [Calls -> RetryPlaces] /\ calls'[c] # "wait"
          /\ \A d \in Calls : d # c => calls'[d] = calls[d]
        BY <1>0, <2>1, Moves
    <2>. USE DEF Retry!callVars, Retry!clocks, Retry!health, Retry!money, Retry!history
    <2>3. Types'
        BY <2>1, <2>2 DEF Types
    <2>4. Epochs' /\ Streak'
        BY <1>b, <2>1, <2>2 DEF Epochs, Streak
    <2>5. Clocks' /\ Paid'
        BY <2>1, <2>2 DEF Clocks, Paid
    <2>. QED BY <2>3, <2>4, <2>5
<1>7. ASSUME NEW c \in Calls, Retry!Error(c) PROVE RetryInv'
    <2>1. /\ UNCHANGED <<shared, blanks, paymentRetried, Retry!money>>
          /\ calls[c] = "request" /\ tries' = [tries EXCEPT ![c] = @ + 1]
          /\ clock' = Retry!Started(c)
        BY <1>7 DEF Retry!Error
    <2>2. /\ clock' \in [Calls -> 0..Window \cup {None}]
          /\ shared => \A d, e \in Calls : clock'[d] = clock'[e]
          /\ \A d \in expired : clock'[d] # None
        BY <2>1, ClockStarts
    <2>t. tries' \in [Calls -> Nat]
        BY <2>1 DEF Types
    <2>3. PICK f \in Nat : \/ Retry!CheckHealth(c, f, clock'[c], f)
                           \/ /\ \E where \in {"closed", "failed"} : Retry!GoTo(c, where)
                              /\ failures' = f /\ outages' = f
                              /\ UNCHANGED <<rung, epoch, successEpoch, expired,
                                             wait, resetUnder, proven, waits>>
        <3>1. PICK e \in Retry!Errors :
                 LET counted == IF e \in Retry!Counted THEN 1 ELSE 0
                 IN IF e \in Retry!Retried /\ tries[c] < MaxRetries /\ ~Retry!Closed(c)
                    THEN Retry!CheckHealth(c, failures + counted, clock'[c],
                                     outages + counted)
                    ELSE /\ Retry!GoTo(c, IF e # "fatal" /\ (e = "retryAt" \/ Retry!Closed(c))
                                    THEN "closed" ELSE "failed")
                         /\ failures' = failures + counted
                         /\ outages' = outages + counted
                         /\ UNCHANGED <<rung, epoch, successEpoch, expired,
                                        wait, resetUnder, proven, waits>>
            BY <1>7 DEF Retry!Error
        <3>. DEFINE f == failures + (IF e \in Retry!Counted THEN 1 ELSE 0)
        <3>2. f \in Nat /\ f = outages + (IF e \in Retry!Counted THEN 1 ELSE 0)
            BY DEF Types, Streak
        <3>. QED BY <3>1, <3>2
    <2>4. CASE Retry!CheckHealth(c, f, clock'[c], f)
        <3>1. /\ \A d \in Calls : d # c => calls'[d] = calls[d]
              /\ calls' \in [Calls -> RetryPlaces]
              /\ wait' \in [Calls -> [left : Nat, epoch : Nat]]
              /\ expired' \subseteq Calls /\ resetUnder' \subseteq Calls
              /\ failures' \in Nat /\ rung' \in 0..Len(Rungs)
              /\ epoch' \in Nat /\ successEpoch' \in Int /\ proven' \in BOOLEAN
              /\ Epochs' /\ Streak' /\ Clocks'
            BY <2>1, <2>2, <2>4, HealthKeeps
        <3>2. Types'
            BY <2>1, <2>2, <2>t, <3>1 DEF Types, Retry!money
        <3>3. Paid'
            BY <2>1, <3>1 DEF Paid, Retry!money
        <3>. QED BY <3>1, <3>2, <3>3
    <2>5. ASSUME NEW where \in {"closed", "failed"}, Retry!GoTo(c, where),
                 failures' = f, outages' = f,
                 UNCHANGED <<rung, epoch, successEpoch, expired, wait, resetUnder,
                             proven, waits>>
          PROVE  RetryInv'
        <3>1. /\ calls' \in [Calls -> RetryPlaces] /\ calls'[c] = where
              /\ \A d \in Calls : d # c => calls'[d] = calls[d]
            BY <1>0, <2>5, Moves
        <3>2. Types'
            BY <2>1, <2>2, <2>5, <2>t, <3>1 DEF Types, Retry!money
        <3>3. Epochs' /\ Streak'
            BY <1>b, <2>5, <3>1 DEF Epochs, Streak
        <3>4. Clocks' /\ Paid'
            BY <2>1, <2>2, <2>5, <3>1 DEF Clocks, Paid, Retry!money
        <3>. QED BY <3>2, <3>3, <3>4
    <2>. QED BY <2>3, <2>4, <2>5
<1>8. ASSUME NEW c \in Calls, Retry!PaymentError(c) PROVE RetryInv'
    <2>1. /\ UNCHANGED <<shared, blanks, wait, expired, Retry!health, Retry!money, Retry!history>>
          /\ calls[c] = "request" /\ tries' = [tries EXCEPT ![c] = @ + 1]
          /\ clock' = Retry!Started(c)
          /\ \E where \in {"failed", "request"} : Retry!GoTo(c, where)
        BY <1>8 DEF Retry!PaymentError
    <2>2. /\ clock' \in [Calls -> 0..Window \cup {None}]
          /\ shared => \A d, e \in Calls : clock'[d] = clock'[e]
          /\ \A d \in expired : clock'[d] # None
        BY <2>1, ClockStarts
    <2>t. tries' \in [Calls -> Nat]
        BY <2>1 DEF Types
    <2>3. /\ calls' \in [Calls -> RetryPlaces] /\ calls'[c] # "wait"
          /\ \A d \in Calls : d # c => calls'[d] = calls[d]
        BY <1>0, <2>1, Moves
    <2>. USE DEF Retry!health, Retry!money, Retry!history
    <2>4. Types'
        BY <2>1, <2>2, <2>3, <2>t DEF Types
    <2>5. Epochs' /\ Streak'
        BY <1>b, <2>1, <2>3 DEF Epochs, Streak
    <2>6. Clocks' /\ Paid'
        BY <2>1, <2>2, <2>3 DEF Clocks, Paid
    <2>. QED BY <2>4, <2>5, <2>6
<1>9. CASE Retry!Minute
    <2>1. /\ UNCHANGED <<shared, calls, Retry!callVars, expired, Retry!health, Retry!money, Retry!history>>
          /\ \A c \in Retry!Waiting : wait[c].left > 0
          /\ wait' = [c \in Calls |-> IF c \in Retry!Waiting
                         THEN [wait[c] EXCEPT !.left = @ - 1] ELSE wait[c]]
          /\ clock' = [c \in Calls |-> IF clock[c] \in {None, 0} THEN clock[c]
                                       ELSE clock[c] - 1]
        BY <1>9 DEF Retry!Minute
    <2>2. /\ wait' \in [Calls -> [left : Nat, epoch : Nat]]
          /\ \A c \in Calls : wait'[c].epoch = wait[c].epoch
        <3>1. ASSUME NEW c \in Calls
              PROVE  /\ wait'[c] \in [left : Nat, epoch : Nat]
                     /\ wait'[c].epoch = wait[c].epoch
            <4>1. wait[c] \in [left : Nat, epoch : Nat]
                BY DEF Types
            <4>2. CASE c \in Retry!Waiting
                <5>1. wait[c].left - 1 \in Nat
                    BY <2>1, <4>1, <4>2
                <5>2. wait'[c] = [wait[c] EXCEPT !.left = @ - 1]
                    BY <2>1, <4>2
                <5>. QED BY <4>1, <5>1, <5>2
            <4>3. CASE c \notin Retry!Waiting
                BY <2>1, <4>1, <4>3
            <4>. QED BY <4>2, <4>3
        <3>. QED BY <2>1, <3>1
    <2>3. /\ clock' \in [Calls -> 0..Window \cup {None}]
          /\ \A c \in Calls : clock[c] # None => clock'[c] # None
          /\ \A c, d \in Calls : clock[c] = clock[d] => clock'[c] = clock'[d]
        <3>1. \A c \in Calls : clock[c] # None => clock[c] \in 0..Window
            BY DEF Types
        <3>2. \A k \in 0..Window : k # 0 => k - 1 \in 0..Window
            BY DEF Parameters
        <3>3. \A c \in Calls : clock'[c] = IF clock[c] \in {None, 0} THEN clock[c]
                                           ELSE clock[c] - 1
            BY <2>1
        <3>. QED BY <1>b, <2>1, <3>1, <3>2, <3>3
    <2>. USE DEF Retry!callVars, Retry!health, Retry!money, Retry!history
    <2>4. Types'
        BY <2>1, <2>2, <2>3 DEF Types
    <2>5. Epochs' /\ Streak'
        BY <1>b, <2>1, <2>2 DEF Epochs, Streak
    <2>6. Clocks' /\ Paid'
        BY <2>1, <2>3 DEF Clocks, Paid, Types
    <2>. QED BY <2>4, <2>5, <2>6
<1>10. CASE UNCHANGED Retry!vars
    <2>. USE DEF Retry!vars, Retry!callVars, Retry!clocks, Retry!health, Retry!money, Retry!history
    <2>1. Types'
        BY <1>10 DEF Types
    <2>2. Epochs' /\ Streak'
        BY <1>10 DEF Epochs, Streak
    <2>3. Clocks' /\ Paid'
        BY <1>10 DEF Clocks, Paid
    <2>. QED BY <2>1, <2>2, <2>3
<1>. QED BY <1>1, <1>2, <1>3, <1>4, <1>5, <1>6, <1>7, <1>8, <1>9, <1>10
         DEF Retry!Next, Retry!Step

\* The inductive invariant holds in every reachable state.
LEMMA RetryInvariance == Retry!Spec => []RetryInv
<1>1. Parameters
    BY PathAssumption DEF Parameters
<1>. QED BY <1>1, RetryInitially, RetryStep, PTL DEF Retry!Spec

-----------------------------------------------------------------------------

\* However many calls are in flight, one that waited when the breaker was reset
\* starts no attempt, unless a success healed it and it has not tripped again.
THEOREM SleepersKeepOut == Retry!Spec => SleepersAbort
<1>1. ASSUME RetryInv, [Retry!Next]_(Retry!vars), NEW c \in resetUnder,
             calls[c] = "wait", calls'[c] = "request"
      PROVE  proven /\ ~Retry!Tripped
    <2>1. c \in Calls
        BY <1>1 DEF RetryInv, Types
    <2>2. Retry!Wake(c)
        <3>1. ASSUME NEW d \in Calls, Retry!Step(d), d # c PROVE FALSE
            <4>1. ASSUME NEW where, Retry!GoTo(d, where) PROVE FALSE
                BY <1>1, <2>1, <3>1, <4>1 DEF Retry!GoTo, RetryInv, Types
            <4>2. \E where : Retry!GoTo(d, where)
                BY <3>1 DEF Retry!Step, Retry!Enter, Retry!Wake, Retry!Answer, Retry!Glitch, Retry!Blank, Retry!Resume, Retry!Error,
                            Retry!PaymentError, Retry!CheckHealth, Retry!RetryReply
            <4>. QED BY <4>1, <4>2
        <3>2. ~Retry!Minute /\ ~UNCHANGED Retry!vars
            BY <1>1 DEF Retry!Minute, Retry!vars
        <3>3. Retry!Step(c)
            BY <1>1, <3>1, <3>2 DEF Retry!Next
        <3>. QED BY <1>1, <3>3 DEF Retry!Step, Retry!Enter, Retry!Answer, Retry!Glitch, Retry!Blank, Retry!Resume, Retry!Error,
                                   Retry!PaymentError
    <2>3. ~Retry!Stale(c)
        BY <1>1, <2>1, <2>2 DEF Retry!Wake, Retry!GoTo, RetryInv, Types
    <2>4. wait[c].epoch # epoch
        BY <1>1, <2>1 DEF RetryInv, Epochs, Types
    <2>. QED BY <1>1, <2>3, <2>4 DEF Retry!Stale, RetryInv, Epochs
<1>2. RetryInv /\ [Retry!Next]_(Retry!vars) =>
        [\A c \in resetUnder : calls[c] = "wait" /\ calls'[c] = "request"
                               => proven /\ ~Retry!Tripped]_(Retry!vars)
    BY <1>1
<1>. QED BY <1>2, RetryInvariance, PTL DEF Retry!Spec, SleepersAbort, Retry!SleepersAbort

\* When a call says that the server is at fault, the failures of this streak
\* trip the breaker, and every wait of the ladder was made in this streak.
THEOREM VerdictHasItsReasons == Retry!Spec => VerdictIsEarned
<1>0. Parameters
    BY PathAssumption DEF Parameters
<1>1. ASSUME RetryInv, [Retry!Next]_(Retry!vars), NEW c \in Calls \ Retry!Waiting,
             calls'[c] = "aborted", calls[c] # "aborted"
      PROVE  /\ outages + (IF calls[c] = "request" THEN 1 ELSE 0) >= Threshold
             /\ waits = Len(Rungs)
    <2>1. Retry!Step(c)
        <3>1. ASSUME NEW d \in Calls, Retry!Step(d), d # c PROVE FALSE
            <4>1. ASSUME NEW where, Retry!GoTo(d, where) PROVE FALSE
                BY <1>1, <3>1, <4>1 DEF Retry!GoTo, RetryInv, Types
            <4>2. \E where : Retry!GoTo(d, where)
                BY <3>1 DEF Retry!Step, Retry!Enter, Retry!Wake, Retry!Answer, Retry!Glitch, Retry!Blank, Retry!Resume, Retry!Error,
                            Retry!PaymentError, Retry!CheckHealth, Retry!RetryReply
            <4>. QED BY <4>1, <4>2
        <3>2. ~Retry!Minute /\ ~UNCHANGED Retry!vars
            BY <1>1 DEF Retry!Minute, Retry!vars
        <3>. QED BY <1>1, <3>1, <3>2 DEF Retry!Next
    <2>2. calls \in [Calls -> {"enter", "wait", "request", "pause", "ok", "labelled",
                            "aborted", "closed", "failed"}]
        BY <1>1 DEF RetryInv, Types
    <2>3. PICK f : /\ \E time : Retry!CheckHealth(c, f, time, f)
                   /\ f \in Nat
                   /\ \/ calls[c] = "enter" /\ f = outages
                      \/ calls[c] = "request" /\ f \in {outages, outages + 1}
        <3>1. CASE Retry!Enter(c)
            BY <1>1, <3>1 DEF Retry!Enter, RetryInv, Streak, Types
        <3>2. CASE Retry!Error(c)
            <4>1. PICK e \in Retry!Errors :
                     LET counted == IF e \in Retry!Counted THEN 1 ELSE 0
                     IN \/ Retry!CheckHealth(c, failures + counted, clock'[c],
                                       outages + counted)
                        \/ Retry!GoTo(c, "closed") \/ Retry!GoTo(c, "failed")
                BY <3>2 DEF Retry!Error
            <4>2. ~Retry!GoTo(c, "closed") /\ ~Retry!GoTo(c, "failed")
                BY <1>1, <2>2 DEF Retry!GoTo
            <4>. DEFINE n == outages + (IF e \in Retry!Counted THEN 1 ELSE 0)
            <4>3. /\ Retry!CheckHealth(c, n, clock'[c], n) /\ n \in Nat
                  /\ n \in {outages, outages + 1}
                BY <1>1, <4>1, <4>2 DEF RetryInv, Streak, Types
            <4>4. calls[c] = "request"
                BY <3>2 DEF Retry!Error
            <4>. HIDE DEF n
            <4>. QED BY <4>3, <4>4
        <3>3. CASE \/ Retry!Wake(c) \/ Retry!Answer(c) \/ Retry!Glitch(c) \/ Retry!Blank(c) \/ Retry!Resume(c)
                   \/ Retry!PaymentError(c)
            <4>1. ~Retry!Wake(c)
                BY <1>1 DEF Retry!Wake, Retry!Waiting
            <4>2. \E where \in {"ok", "request", "labelled", "pause", "failed"} :
                     Retry!GoTo(c, where)
                BY <3>3, <4>1 DEF Retry!Answer, Retry!Glitch, Retry!Blank, Retry!Resume, Retry!PaymentError, Retry!RetryReply
            <4>. QED BY <1>1, <2>2, <4>2 DEF Retry!GoTo
        <3>. QED BY <2>1, <3>1, <3>2, <3>3 DEF Retry!Step
    <2>4. ~Retry!GoTo(c, "closed") /\ ~Retry!GoTo(c, "request") /\ ~Retry!GoTo(c, "wait")
        BY <1>1, <2>2 DEF Retry!GoTo
    <2>5. f >= Threshold /\ rung >= Len(Rungs)
        BY <2>3, <2>4 DEF Retry!CheckHealth
    <2>6. waits = Len(Rungs)
        BY <1>0, <1>1, <2>5 DEF RetryInv, Streak, Types, Parameters
    <2>. QED BY <1>0, <1>1, <2>3, <2>5, <2>6 DEF RetryInv, Streak, Types, Parameters
<1>2. RetryInv /\ [Retry!Next]_(Retry!vars) =>
        [\A c \in Calls \ Retry!Waiting :
           calls'[c] = "aborted" /\ calls[c] # "aborted"
           => /\ outages + (IF calls[c] = "request" THEN 1 ELSE 0) >= Threshold
              /\ waits = Len(Rungs)]_(Retry!vars)
    BY <1>1
<1>. QED BY <1>2, RetryInvariance, PTL DEF Retry!Spec, VerdictIsEarned, Retry!VerdictIsEarned

\* Once the run has paid for its empty replies, a call pays for at most one.
THEOREM OneEachBeyond == Retry!Spec => []OneBilledBeyond
<1>1. ASSUME RetryInv, NEW c \in Calls PROVE beyond[c] <= 1
    <2>1. beyond[c] = 0 \/ beyond[c] = 1
        BY <1>1 DEF RetryInv, Paid
    <2>. QED BY <2>1
<1>2. RetryInv => OneBilledBeyond
    BY <1>1 DEF OneBilledBeyond, Retry!OneBilledBeyond
<1>. QED BY <1>2, RetryInvariance, PTL

\* After a failure the clock runs, and what closed it stays: whoever starts an
\* attempt finds its window open.
THEOREM ClosedWindowsStayClosed == Retry!Spec => WindowStaysClosed
<1>0. Parameters
    BY PathAssumption DEF Parameters
<1>1. ASSUME RetryInv, [Retry!Next]_(Retry!vars), NEW c \in Calls, calls'[c] = "request",
             calls[c] # "request" \/ tries'[c] # tries[c]
      PROVE  ~Retry!Closed(c)'
    <2>1. /\ calls \in [Calls -> {"enter", "wait", "request", "pause", "ok", "labelled",
                               "aborted", "closed", "failed"}]
          /\ tries \in [Calls -> Nat]
          /\ \A d \in expired : clock[d] # None
        BY <1>1 DEF RetryInv, Types, Clocks
    <2>2. \A where : Retry!GoTo(c, where) => where = "request"
        BY <1>1, <2>1 DEF Retry!GoTo
    <2>3. Retry!Step(c)
        <3>1. ASSUME NEW d \in Calls, Retry!Step(d), d # c PROVE FALSE
            <4>1. ASSUME NEW where, Retry!GoTo(d, where) PROVE calls'[c] = calls[c]
                BY <2>1, <3>1, <4>1 DEF Retry!GoTo
            <4>2. \E where : Retry!GoTo(d, where)
                BY <3>1 DEF Retry!Step, Retry!Enter, Retry!Wake, Retry!Answer, Retry!Glitch, Retry!Blank, Retry!Resume, Retry!Error,
                            Retry!PaymentError, Retry!CheckHealth, Retry!RetryReply
            <4>3. UNCHANGED tries \/ tries' = [tries EXCEPT ![d] = @ + 1]
                BY <3>1 DEF Retry!Step, Retry!Enter, Retry!Wake, Retry!Answer, Retry!Glitch, Retry!Blank, Retry!Resume, Retry!Error,
                            Retry!PaymentError, Retry!callVars
            <4>4. tries'[c] = tries[c]
                BY <2>1, <3>1, <4>3
            <4>. QED BY <1>1, <4>1, <4>2, <4>4
        <3>2. ~Retry!Minute /\ ~UNCHANGED Retry!vars
            BY <1>1 DEF Retry!Minute, Retry!vars, Retry!callVars
        <3>. QED BY <1>1, <3>1, <3>2 DEF Retry!Next
    <2>4. CASE Retry!Enter(c)
        <3>1. PICK time : Retry!CheckHealth(c, failures, time, outages) /\ UNCHANGED clock
            BY <2>4 DEF Retry!Enter
        <3>2. ~Retry!Closed(c) /\ UNCHANGED expired
            BY <2>2, <3>1 DEF Retry!CheckHealth
        <3>. QED BY <3>1, <3>2 DEF Retry!Closed
    <2>5. CASE Retry!Wake(c)
        <3>1. ~Retry!Closed(c) /\ UNCHANGED <<clock, expired>>
            BY <2>2, <2>5 DEF Retry!Wake, Retry!StillOpen, Retry!clocks
        <3>. QED BY <3>1 DEF Retry!Closed
    <2>6. CASE Retry!Answer(c)
        BY <2>2, <2>6 DEF Retry!Answer
    <2>7. CASE Retry!Glitch(c)
        <3>1. UNCHANGED shared /\ (tries[c] < MaxRetries) \in BOOLEAN
            BY <2>7 DEF Retry!Glitch
        <3>2. Retry!RetryReply(c, tries[c] < MaxRetries, "request")
            BY <2>7 DEF Retry!Glitch
        <3>. QED BY <1>0, <1>1, <3>1, <3>2, RetryKeeps DEF RetryInv
    <2>8. CASE Retry!Blank(c)
        BY <2>2, <2>8 DEF Retry!Blank, Retry!RetryReply
    <2>9. CASE Retry!Resume(c)
        <3>1. ~Retry!Closed(c) /\ UNCHANGED <<clock, expired>>
            BY <2>2, <2>9 DEF Retry!Resume, Retry!clocks
        <3>. QED BY <3>1 DEF Retry!Closed
    \* The clock of this call may have been started by this very failure.
    <2>10. ASSUME clock' = Retry!Started(c), ~Retry!Closed(c), UNCHANGED expired
           PROVE  ~Retry!Closed(c)'
        <3>1. /\ clock[c] # None => clock'[c] = clock[c]
              /\ clock[c] = None => clock'[c] = Window
            BY <1>0, <1>1, <2>10, ClockStarts DEF RetryInv
        <3>. QED BY <1>0, <2>1, <2>10, <3>1 DEF Retry!Closed, Parameters
    <2>11. CASE Retry!Error(c)
        <3>1. PICK f, time, seen : ~Retry!Closed(c) /\ Retry!CheckHealth(c, f, time, seen)
            BY <2>2, <2>11 DEF Retry!Error
        <3>2. UNCHANGED expired /\ clock' = Retry!Started(c)
            BY <2>2, <2>11, <3>1 DEF Retry!Error, Retry!CheckHealth
        <3>. QED BY <2>10, <3>1, <3>2
    <2>12. CASE Retry!PaymentError(c)
        BY <2>2, <2>10, <2>12 DEF Retry!PaymentError
    <2>. QED BY <2>3, <2>4, <2>5, <2>6, <2>7, <2>8, <2>9, <2>11, <2>12 DEF Retry!Step
<1>2. RetryInv /\ [Retry!Next]_(Retry!vars) =>
        [\A c \in Calls :
           calls'[c] = "request" /\ (calls[c] # "request" \/ tries'[c] # tries[c])
           => ~Retry!Closed(c)']_(Retry!vars)
    BY <1>1
<1>. QED BY <1>2, RetryInvariance, PTL DEF Retry!Spec, WindowStaysClosed, Retry!WindowStaysClosed

-----------------------------------------------------------------------------
(*****************************************************************************)
(* Of FreeRotation, for any number of slots and any pool: no model is asked  *)
(* twice, and a slot that reports the pool exhausted is right.  Both come    *)
(* from what the counter means: the fallbacks that were asked are the first  *)
(* nextFallback of the order, each by one slot.                              *)
(*****************************************************************************)

Ends == {"answered", "exhausted", "defect", "out of time"}

RotationTypes ==
    /\ order \in Seq(Rotation!Range(Fallbacks))
    /\ nextFallback \in 0..Len(order)
    /\ windowClosed \in BOOLEAN
    /\ slot \in [Slots -> Ends \cup {"start", "calling"}]
    /\ probe \in [Slots -> Rotation!Range(Primary) \cup {NoModel}]
    /\ tried \in [Slots -> Seq(Rotation!Models)]

\* The order is one of the fallbacks, and leaves none of them out.
Complete ==
    /\ \A i, j \in 1..Len(order) : order[i] = order[j] => i = j
    /\ \A m \in Rotation!Range(Fallbacks) : \E k \in 1..Len(order) : order[k] = m

Asked(s, m) == \E i \in 1..Len(tried[s]) : tried[s][i] = m

\* What a slot asked is its primary, or a fallback that was claimed ...
AskedWasClaimed ==
    \A s \in Slots : \A i \in 1..Len(tried[s]) :
       \/ tried[s][i] = Primary[s]
       \/ \E k \in 1..nextFallback : tried[s][i] = order[k]

\* ... and every claimed fallback was asked.
ClaimedWasAsked ==
    \A k \in 1..nextFallback : \E s \in Slots : Asked(s, order[k])

AskedOnce ==
    \A s, t \in Slots : \A i \in 1..Len(tried[s]), j \in 1..Len(tried[t]) :
       tried[s][i] = tried[t][j] => s = t /\ i = j

\* Where a slot's primary is: not asked yet, set aside, or asked.
PrimaryKept ==
    \A s \in Slots :
       /\ probe[s] # NoModel => probe[s] = Primary[s] /\ ~Asked(s, Primary[s])
       /\ slot[s] = "start" => tried[s] = <<>> /\ probe[s] = NoModel
       /\ slot[s] = "calling" => probe[s] = Primary[s] \/ Asked(s, Primary[s])

AllAsked ==
    \A s \in Slots : slot[s] = "exhausted" =>
       nextFallback = Len(order) /\ Asked(s, Primary[s])

RotationInv == /\ RotationTypes /\ Complete /\ AskedWasClaimed /\ ClaimedWasAsked
        /\ AskedOnce /\ PrimaryKept /\ AllAsked

\* A primary is no fallback, nor the primary of another slot.
LEMMA PrimaryIsOwn ==
    ASSUME Rotation!Distinct, NEW s \in Slots
    PROVE  /\ Primary[s] \in Rotation!Models /\ Primary[s] \in Rotation!Range(Primary)
           /\ Primary[s] # NoModel /\ Primary[s] \notin Rotation!Range(Fallbacks)
           /\ \A t \in Slots : Primary[t] = Primary[s] => t = s
<1>1. DOMAIN Primary = Slots
    BY DEF Rotation!Distinct
<1>2. Primary[s] \in Rotation!Range(Primary)
    BY <1>1 DEF Rotation!Range
<1>. QED BY <1>1, <1>2 DEF Rotation!Distinct, Rotation!Models, Rotation!IsInjective, Rotation!Range

\* A permutation of the fallbacks, as Orders has them, is a complete order.
LEMMA OrdersAreComplete ==
    ASSUME Rotation!Distinct, NEW S, NEW q \in Rotation!Orders(S)
    PROVE  /\ q \in Seq(Rotation!Range(Fallbacks))
           /\ \A i, j \in 1..Len(q) : q[i] = q[j] => i = j
           /\ \A m \in Rotation!Range(Fallbacks) : \E k \in 1..Len(q) : q[k] = m
<1>1. DOMAIN Fallbacks = 1..Len(Fallbacks) /\ Len(Fallbacks) \in Nat
    BY DEF Rotation!Distinct
<1>2. /\ q \in [1..Len(Fallbacks) -> Rotation!Range(Fallbacks)]
      /\ Rotation!Range(q) = Rotation!Range(Fallbacks) /\ Rotation!IsInjective(q)
    BY <1>1 DEF Rotation!Orders
<1>3. q \in Seq(Rotation!Range(Fallbacks)) /\ Len(q) = Len(Fallbacks)
    BY <1>1, <1>2
<1>4. DOMAIN q = 1..Len(q)
    BY <1>2, <1>3
<1>5. \A i, j \in 1..Len(q) : q[i] = q[j] => i = j
    BY <1>2, <1>4 DEF Rotation!IsInjective
<1>6. \A m \in Rotation!Range(q) : \E k \in 1..Len(q) : q[k] = m
    BY <1>4 DEF Rotation!Range
<1>. QED BY <1>2, <1>3, <1>5, <1>6

\* A dispatch starts with nothing claimed and nothing asked.
LEMMA RotationInitially == ASSUME Rotation!Distinct PROVE Rotation!Init => RotationInv
<1>. SUFFICES ASSUME Rotation!Init PROVE RotationInv
    OBVIOUS
<1>1. order \in Seq(Rotation!Range(Fallbacks)) /\ Complete
    BY OrdersAreComplete DEF Rotation!Init, Complete
<1>2. nextFallback = 0 /\ Len(order) \in Nat
    BY <1>1 DEF Rotation!Init
<1>3. \A s \in Slots : tried[s] = <<>> /\ probe[s] = NoModel /\ slot[s] = "start"
    BY DEF Rotation!Init
<1>4. /\ tried \in [Slots -> Seq(Rotation!Models)]
      /\ probe \in [Slots -> Rotation!Range(Primary) \cup {NoModel}]
    BY DEF Rotation!Init
<1>5. slot \in [Slots -> Ends \cup {"start", "calling"}] /\ windowClosed \in BOOLEAN
    BY DEF Rotation!Init
<1>6. RotationTypes
    BY <1>1, <1>2, <1>4, <1>5 DEF RotationTypes
<1>. QED BY <1>1, <1>2, <1>3, <1>6
    DEF RotationInv, AskedWasClaimed, ClaimedWasAsked, AskedOnce, PrimaryKept,
        AllAsked, Asked

\* A slot that ends otherwise than exhausted disturbs nothing.
LEMMA EndKeeps ==
    ASSUME RotationInv, NEW s \in Slots, NEW how \in Ends, Rotation!End(s, how),
           UNCHANGED order, windowClosed' \in BOOLEAN,
           how = "exhausted" => nextFallback = Len(order) /\ Asked(s, Primary[s])
    PROVE  RotationInv'
<1>1. /\ UNCHANGED <<order, nextFallback, probe, tried>>
      /\ slot' = [slot EXCEPT ![s] = how]
    BY DEF Rotation!End
<1>2. RotationTypes'
    BY <1>1 DEF RotationInv, RotationTypes
<1>3. Complete' /\ AskedWasClaimed' /\ ClaimedWasAsked' /\ AskedOnce'
    BY <1>1 DEF RotationInv, Complete, AskedWasClaimed, ClaimedWasAsked, AskedOnce, Asked
<1>4. \A t \in Slots : slot'[t] = IF t = s THEN how ELSE slot[t]
    BY <1>1 DEF RotationInv, RotationTypes
<1>5. \A t \in Slots : Asked(t, Primary[t])' <=> Asked(t, Primary[t])
    BY <1>1 DEF Asked
<1>6. PrimaryKept'
    BY ZenonT(30), <1>1, <1>4, <1>5 DEF RotationInv, PrimaryKept, Ends
<1>7. AllAsked'
    BY <1>1, <1>4, <1>5 DEF RotationInv, AllAsked
<1>. QED BY <1>2, <1>3, <1>6, <1>7 DEF RotationInv

\* What a slot asked stays asked, and only m is new.
LEMMA CallAdds ==
    ASSUME RotationTypes, NEW s \in Slots, NEW m \in Rotation!Models, Rotation!Call(s, m)
    PROVE  /\ tried' \in [Slots -> Seq(Rotation!Models)]
           /\ slot' \in [Slots -> Ends \cup {"start", "calling"}]
           /\ \A t \in Slots : t # s => tried'[t] = tried[t] /\ slot'[t] = slot[t]
           /\ slot'[s] = "calling"
           /\ Len(tried'[s]) = Len(tried[s]) + 1 /\ Len(tried[s]) \in Nat
           /\ \A i \in 1..Len(tried[s]) : tried'[s][i] = tried[s][i]
           /\ tried'[s][Len(tried[s]) + 1] = m
<1>1. tried[s] \in Seq(Rotation!Models) /\ tried'[s] = Append(tried[s], m)
    BY DEF RotationTypes, Rotation!Call
<1>2. /\ tried' \in [Slots -> Seq(Rotation!Models)]
      /\ slot' \in [Slots -> Ends \cup {"start", "calling"}]
    BY <1>1 DEF RotationTypes, Rotation!Call
<1>3. \A t \in Slots : t # s => tried'[t] = tried[t] /\ slot'[t] = slot[t]
    BY DEF RotationTypes, Rotation!Call
<1>4. slot'[s] = "calling"
    BY DEF RotationTypes, Rotation!Call
<1>. QED BY <1>1, <1>2, <1>3, <1>4

\* A call of a model that nobody asked adds that model, and nothing twice.
LEMMA FreshCall ==
    ASSUME RotationTypes, AskedOnce, NEW s \in Slots, NEW m \in Rotation!Models, Rotation!Call(s, m),
           \A t \in Slots : ~Asked(t, m)
    PROVE  /\ AskedOnce'
           /\ \A t \in Slots : \A x : Asked(t, x)' <=> Asked(t, x) \/ (t = s /\ x = m)
<1>. DEFINE n == Len(tried[s])
<1>1. /\ \A t \in Slots : t # s => tried'[t] = tried[t]
      /\ n \in Nat /\ Len(tried'[s]) = n + 1
      /\ \A i \in 1..n : tried'[s][i] = tried[s][i]
      /\ tried'[s][n + 1] = m
    BY CallAdds
<1>2. \A t \in Slots : \A x : Asked(t, x)' <=> Asked(t, x) \/ (t = s /\ x = m)
    <2>. SUFFICES ASSUME NEW t \in Slots, NEW x
                  PROVE  Asked(t, x)' <=> Asked(t, x) \/ (t = s /\ x = m)
        OBVIOUS
    <2>1. CASE t # s
        BY <1>1, <2>1 DEF Asked
    <2>2. CASE t = s
        <3>1. 1..Len(tried'[s]) = 1..n \cup {n + 1}
            BY <1>1
        <3>. QED BY <1>1, <2>2, <3>1 DEF Asked
    <2>. QED BY <2>1, <2>2
<1>3. AskedOnce'
    <2>. SUFFICES ASSUME NEW t \in Slots, NEW u \in Slots,
                         NEW i \in 1..Len(tried'[t]), NEW j \in 1..Len(tried'[u]),
                         tried'[t][i] = tried'[u][j]
                  PROVE  t = u /\ i = j
        BY DEF AskedOnce
    <2>. DEFINE Old(v, k) == k \in 1..Len(tried[v]) /\ tried'[v][k] = tried[v][k]
                New(v, k) == v = s /\ k = n + 1 /\ tried'[v][k] = m
    <2>1. \A v \in Slots : \A k \in 1..Len(tried'[v]) : Old(v, k) \/ New(v, k)
        BY <1>1
    <2>2. \A v \in Slots : \A k : Old(v, k) => tried'[v][k] # m
        BY DEF Asked
    <2>3. CASE Old(t, i) /\ Old(u, j)
        <3>1. tried[t][i] = tried[u][j] /\ i \in 1..Len(tried[t]) /\ j \in 1..Len(tried[u])
            BY <2>3
        <3>. HIDE DEF Old, New
        <3>. QED BY <3>1 DEF AskedOnce
    <2>4. CASE New(t, i) /\ New(u, j)
        BY <2>4
    <2>. QED BY <2>1, <2>2, <2>3, <2>4
<1>. QED BY <1>2, <1>3

\* The first call of a slot, or the last resort of one whose primary cooled.
LEMMA CallPrimaryKeeps ==
    ASSUME Rotation!Distinct, RotationInv, NEW s \in Slots, Rotation!Call(s, Primary[s]),
           ~Asked(s, Primary[s]), slot[s] \in {"start", "calling"},
           UNCHANGED <<order, nextFallback>>, windowClosed' \in BOOLEAN,
           probe' = [probe EXCEPT ![s] = NoModel]
    PROVE  RotationInv'
<1>. DEFINE m == Primary[s]
<1>1. m \in Rotation!Models /\ \A t \in Slots : Primary[t] = m => t = s
    BY PrimaryIsOwn
<1>2. \A k \in 1..nextFallback : order[k] \in Rotation!Range(Fallbacks) /\ order[k] # m
    BY PrimaryIsOwn DEF RotationInv, RotationTypes
<1>3. \A t \in Slots : ~Asked(t, m)
    BY <1>1, <1>2 DEF RotationInv, AskedWasClaimed, Asked
<1>4. /\ AskedOnce'
      /\ \A t \in Slots : \A x : Asked(t, x)' <=> Asked(t, x) \/ (t = s /\ x = m)
    BY <1>1, <1>3, FreshCall DEF RotationInv
<1>5. /\ tried' \in [Slots -> Seq(Rotation!Models)]
      /\ slot' \in [Slots -> Ends \cup {"start", "calling"}]
      /\ \A t \in Slots : t # s => tried'[t] = tried[t] /\ slot'[t] = slot[t]
      /\ slot'[s] = "calling"
    BY <1>1, CallAdds DEF RotationInv
<1>6. /\ probe' \in [Slots -> Rotation!Range(Primary) \cup {NoModel}]
      /\ probe'[s] = NoModel /\ \A t \in Slots : t # s => probe'[t] = probe[t]
    BY DEF RotationInv, RotationTypes
<1>7. RotationTypes'
    BY <1>5, <1>6 DEF RotationInv, RotationTypes
<1>8. AskedWasClaimed'
    <2>. SUFFICES ASSUME NEW t \in Slots, NEW i \in 1..Len(tried'[t])
                  PROVE  \/ tried'[t][i] = Primary[t]
                         \/ \E k \in 1..nextFallback : tried'[t][i] = order[k]
        BY DEF AskedWasClaimed
    <2>1. PICK x : x = tried'[t][i]
        OBVIOUS
    <2>2. Asked(t, x) \/ (t = s /\ x = m)
        BY ZenonT(30), <1>4, <2>1 DEF Asked
    <2>. QED BY <2>1, <2>2 DEF RotationInv, AskedWasClaimed, Asked
<1>9. ClaimedWasAsked'
    BY <1>4 DEF RotationInv, ClaimedWasAsked
<1>10. PrimaryKept'
    BY <1>1, <1>4, <1>5, <1>6 DEF RotationInv, PrimaryKept
<1>11. AllAsked'
    BY <1>4, <1>5 DEF RotationInv, AllAsked
<1>12. Complete'
    BY DEF RotationInv, Complete
<1>. QED BY <1>4, <1>7, <1>8, <1>9, <1>10, <1>11, <1>12 DEF RotationInv

\* A claim: the next fallback of the order, which nobody asked.
LEMMA CallFallbackKeeps ==
    ASSUME Rotation!Distinct, RotationInv, NEW s \in Slots, NEW aside \in {NoModel, Primary[s]},
           nextFallback < Len(order), Rotation!Call(s, order[nextFallback + 1]),
           slot[s] \in {"start", "calling"},
           aside = NoModel <=> Asked(s, Primary[s]),
           UNCHANGED order, nextFallback' = nextFallback + 1,
           windowClosed' \in BOOLEAN, probe' = [probe EXCEPT ![s] = aside]
    PROVE  RotationInv'
<1>. DEFINE m == order[nextFallback + 1]
<1>0. nextFallback \in Nat /\ Len(order) \in Nat
    BY DEF RotationInv, RotationTypes
<1>1. m \in Rotation!Range(Fallbacks) /\ m \in Rotation!Models
    BY <1>0 DEF RotationInv, RotationTypes, Rotation!Models
<1>2. /\ \A k \in 1..nextFallback : order[k] # m
      /\ 1..nextFallback' = 1..nextFallback \cup {nextFallback + 1}
    BY <1>0 DEF RotationInv, Complete
<1>3. \A t \in Slots : ~Asked(t, m)
    BY <1>1, <1>2, PrimaryIsOwn DEF RotationInv, AskedWasClaimed, Asked
<1>4. /\ AskedOnce'
      /\ \A t \in Slots : \A x : Asked(t, x)' <=> Asked(t, x) \/ (t = s /\ x = m)
    BY <1>1, <1>3, FreshCall DEF RotationInv
<1>5. /\ tried' \in [Slots -> Seq(Rotation!Models)]
      /\ slot' \in [Slots -> Ends \cup {"start", "calling"}]
      /\ \A t \in Slots : t # s => tried'[t] = tried[t] /\ slot'[t] = slot[t]
      /\ slot'[s] = "calling"
    BY <1>1, CallAdds DEF RotationInv
<1>6. /\ probe' \in [Slots -> Rotation!Range(Primary) \cup {NoModel}]
      /\ probe'[s] = aside /\ \A t \in Slots : t # s => probe'[t] = probe[t]
    BY PrimaryIsOwn DEF RotationInv, RotationTypes
<1>7. RotationTypes'
    BY <1>0, <1>5, <1>6 DEF RotationInv, RotationTypes
<1>8. AskedWasClaimed'
    <2>. SUFFICES ASSUME NEW t \in Slots, NEW i \in 1..Len(tried'[t])
                  PROVE  \/ tried'[t][i] = Primary[t]
                         \/ \E k \in 1..nextFallback' : tried'[t][i] = order[k]
        BY DEF AskedWasClaimed
    <2>1. PICK x : x = tried'[t][i]
        OBVIOUS
    <2>2. Asked(t, x) \/ (t = s /\ x = m)
        BY ZenonT(30), <1>4, <2>1 DEF Asked
    <2>3. CASE Asked(t, x)
        <3>1. x = Primary[t] \/ \E k \in 1..nextFallback : x = order[k]
            BY <2>3 DEF RotationInv, AskedWasClaimed, Asked
        <3>. QED BY <1>2, <2>1, <3>1
    <2>4. CASE t = s /\ x = m
        BY <1>2, <2>1, <2>4
    <2>. QED BY <2>2, <2>3, <2>4
<1>9. ClaimedWasAsked'
    <2>. SUFFICES ASSUME NEW k \in 1..nextFallback'
                  PROVE  \E t \in Slots : Asked(t, order[k])'
        BY DEF ClaimedWasAsked
    <2>. QED BY <1>2, <1>4 DEF RotationInv, ClaimedWasAsked
<1>10. PrimaryKept'
    <2>1. \A t \in Slots : Asked(t, Primary[t])' <=> Asked(t, Primary[t])
        BY <1>1, <1>4, PrimaryIsOwn
    <2>2. /\ probe'[s] # NoModel => probe'[s] = Primary[s] /\ ~Asked(s, Primary[s])
          /\ probe'[s] = Primary[s] \/ Asked(s, Primary[s])
        BY <1>6
    <2>3. \A t \in Slots : t # s =>
             /\ probe'[t] # NoModel => probe'[t] = Primary[t] /\ ~Asked(t, Primary[t])
             /\ slot'[t] = "start" => tried'[t] = <<>> /\ probe'[t] = NoModel
             /\ slot'[t] = "calling" => probe'[t] = Primary[t] \/ Asked(t, Primary[t])
        BY <1>5, <1>6 DEF RotationInv, PrimaryKept
    <2>. QED BY <1>5, <2>1, <2>2, <2>3 DEF PrimaryKept
<1>11. AllAsked'
    <2>. SUFFICES ASSUME NEW t \in Slots, slot'[t] = "exhausted"
                  PROVE  nextFallback' = Len(order') /\ Asked(t, Primary[t])'
        BY DEF AllAsked
    <2>1. t # s /\ slot[t] = "exhausted"
        BY <1>5
    <2>2. nextFallback = Len(order) /\ Asked(t, Primary[t])
        BY <2>1 DEF RotationInv, AllAsked
    <2>3. FALSE
        BY <1>0, <2>2
    <2>. QED BY <2>3
<1>12. Complete'
    BY DEF RotationInv, Complete
<1>. QED BY <1>4, <1>7, <1>8, <1>9, <1>10, <1>11, <1>12 DEF RotationInv

\* A slot that goes on, for whatever reason its model is passed over.
LEMMA GoOnKeeps ==
    ASSUME Rotation!Distinct, RotationInv, NEW s \in Slots, NEW aside \in {NoModel, Primary[s]},
           Rotation!GoOn(s, aside), slot[s] \in {"start", "calling"},
           aside = NoModel <=> Asked(s, Primary[s]),
           UNCHANGED <<order, windowClosed>>
    PROVE  RotationInv'
<1>1. windowClosed \in BOOLEAN /\ nextFallback \in 0..Len(order) /\ Len(order) \in Nat
    BY DEF RotationInv, RotationTypes
<1>2. CASE windowClosed
    BY <1>1, <1>2, EndKeeps DEF Rotation!GoOn, Ends
<1>3. CASE ~windowClosed /\ nextFallback < Len(order)
    BY <1>1, <1>3, CallFallbackKeeps DEF Rotation!GoOn, Rotation!Claimed
<1>4. CASE ~windowClosed /\ ~(nextFallback < Len(order)) /\ aside # NoModel
    BY <1>1, <1>4, CallPrimaryKeeps DEF Rotation!GoOn, Rotation!Claimed
<1>5. CASE ~windowClosed /\ ~(nextFallback < Len(order)) /\ aside = NoModel
    <2>1. Rotation!End(s, "exhausted") /\ nextFallback = Len(order)
        BY <1>1, <1>5 DEF Rotation!GoOn, Rotation!Claimed
    <2>. QED BY <1>1, <1>5, <2>1, EndKeeps DEF Ends
<1>. QED BY <1>2, <1>3, <1>4, <1>5

\* One step keeps the invariant.
LEMMA RotationStep == ASSUME Rotation!Distinct PROVE RotationInv /\ [Rotation!Next]_(Rotation!vars) => RotationInv'
<1>. SUFFICES ASSUME RotationInv, [Rotation!Next]_(Rotation!vars) PROVE RotationInv'
    OBVIOUS
<1>. USE DEF Ends
<1>0. windowClosed \in BOOLEAN
    BY DEF RotationInv, RotationTypes
<1>1. ASSUME NEW s \in Slots, Rotation!Start(s) PROVE RotationInv'
    <2>1. ~Asked(s, Primary[s]) /\ probe[s] = NoModel
        <3>1. tried[s] = <<>> /\ probe[s] = NoModel
            BY <1>1 DEF RotationInv, PrimaryKept, Rotation!Start
        <3>. QED BY <3>1 DEF Asked
    <2>2. Primary[s] # NoModel
        BY PrimaryIsOwn
    <2>3. CASE Primary[s] \in cooling /\ order # <<>>
        BY <1>1, <2>1, <2>2, <2>3, GoOnKeeps DEF Rotation!Start
    <2>4. CASE ~(Primary[s] \in cooling /\ order # <<>>) /\ windowClosed
        BY <1>0, <1>1, <2>4, EndKeeps DEF Rotation!Start
    <2>5. CASE ~(Primary[s] \in cooling /\ order # <<>>) /\ ~windowClosed
        <3>1. probe' = [probe EXCEPT ![s] = NoModel]
            BY <1>1, <2>1, <2>5 DEF Rotation!Start, RotationInv, RotationTypes
        <3>. QED BY <1>0, <1>1, <2>1, <2>5, <3>1, CallPrimaryKeeps DEF Rotation!Start
    <2>. QED BY <2>3, <2>4, <2>5
<1>2. ASSUME NEW s \in Slots, Rotation!Answered(s) PROVE RotationInv'
    BY <1>0, <1>2, EndKeeps DEF Rotation!Answered
<1>3. ASSUME NEW s \in Slots, Rotation!Unavailable(s) PROVE RotationInv'
    <2>1. /\ probe[s] \in {NoModel, Primary[s]}
          /\ probe[s] = NoModel <=> Asked(s, Primary[s])
        BY <1>3, PrimaryIsOwn DEF RotationInv, PrimaryKept, Rotation!Unavailable
    <2>. QED BY <1>3, <2>1, GoOnKeeps DEF Rotation!Unavailable
<1>4. ASSUME NEW s \in Slots, Rotation!Defect(s) PROVE RotationInv'
    BY <1>0, <1>4, EndKeeps DEF Rotation!Defect
<1>5. ASSUME NEW s \in Slots, Rotation!OutOfTime(s) PROVE RotationInv'
    BY <1>0, <1>5, EndKeeps DEF Rotation!OutOfTime
<1>6. ASSUME UNCHANGED <<order, nextFallback, slot, probe, tried>>,
             windowClosed' \in BOOLEAN
      PROVE  RotationInv'
    <2>1. RotationTypes'
        BY <1>6 DEF RotationInv, RotationTypes
    <2>2. Complete' /\ AskedWasClaimed' /\ ClaimedWasAsked' /\ AskedOnce'
        BY SMTT(30), <1>6 DEF RotationInv, Complete, AskedWasClaimed, ClaimedWasAsked, AskedOnce, Asked
    <2>3. PrimaryKept' /\ AllAsked'
        BY <1>6 DEF RotationInv, PrimaryKept, AllAsked, Asked
    <2>. QED BY <2>1, <2>2, <2>3 DEF RotationInv
<1>7. CASE Rotation!WindowCloses
    BY <1>6, <1>7 DEF Rotation!WindowCloses
<1>8. ASSUME NEW m \in Rotation!Models, Rotation!Elsewhere(m) PROVE RotationInv'
    BY <1>0, <1>6, <1>8 DEF Rotation!Elsewhere
<1>9. CASE UNCHANGED Rotation!vars
    BY <1>0, <1>6, <1>9 DEF Rotation!vars
<1>. QED BY <1>1, <1>2, <1>3, <1>4, <1>5, <1>7, <1>8, <1>9 DEF Rotation!Next

\* The invariant says what callWithFreeRotation promises.
LEMMA RotationInvCovers == ASSUME Rotation!Distinct PROVE RotationInv => RotationCovers
<1>. SUFFICES ASSUME RotationInv PROVE RotationCovers
    OBVIOUS
<1>1. \A s \in Slots : DOMAIN tried[s] = 1..Len(tried[s])
    BY DEF RotationInv, RotationTypes
<1>2. \A s \in Slots : \A m : Asked(s, m) => m \in Rotation!Range(tried[s])
    BY <1>1 DEF Asked, Rotation!Range
<1>3. ASSUME NEW s \in Slots, slot[s] = "exhausted"
      PROVE  /\ Primary[s] \in Rotation!Range(tried[s])
             /\ \A m \in Rotation!Range(Fallbacks) : \E t \in Slots : m \in Rotation!Range(tried[t])
    <2>1. nextFallback = Len(order) /\ Asked(s, Primary[s])
        BY <1>3 DEF RotationInv, AllAsked
    <2>2. ASSUME NEW m \in Rotation!Range(Fallbacks)
          PROVE  \E t \in Slots : m \in Rotation!Range(tried[t])
        <3>1. PICK k \in 1..Len(order) : order[k] = m
            BY DEF RotationInv, Complete
        <3>. QED BY <1>2, <2>1, <3>1 DEF RotationInv, ClaimedWasAsked
    <2>. QED BY <1>2, <2>1, <2>2
<1>. QED BY <1>1, <1>3 DEF RotationInv, AskedOnce, RotationCovers, Rotation!RotationCovers

\* However many slots share a pool of any size, and whatever cools, recovers or
\* runs out of time meanwhile: no model is asked twice, and "exhausted" is said
\* only when the slot's primary and every fallback of the pool were asked.
THEOREM PoolIsCovered == Rotation!Spec => []RotationCovers
<1>1. Rotation!Distinct
    BY PathAssumption
<1>. QED BY <1>1, RotationInitially, RotationStep, RotationInvCovers, PTL DEF Rotation!Spec

-----------------------------------------------------------------------------
(*****************************************************************************)
(* Of CommandRing, for any jobs and finitely many commands: how often a      *)
(* waiting command is passed.  The promise is kept place by place: Turns     *)
(* says how many takes of others a place of the ring may still wait for,     *)
(* each take of another lowers it by one, and an arrival does not raise it.  *)
(*****************************************************************************)

\* The round robin's queue operations are those of CommandQueue.
LEMMA SameOperators ==
    /\ \A s, x : Ring!Contains(s, x) <=> Contains(s, x)
    /\ \A s : Ring!ToSet(s) = ToSet(s)
    /\ \A s : Ring!IsInjective(s) <=> IsInjective(s)
    /\ \A s, x : Ring!RemoveFirst(s, x) = RemoveFirst(s, x)
<1>1. \A S : Ring!Min(S) = Min(S)
    BY DEF Ring!Min, Min
<1>2. \A s, x : Ring!Contains(s, x) <=> Contains(s, x)
    BY DEF Ring!Contains, Contains
<1>3. \A s : Ring!ToSet(s) = ToSet(s)
    BY DEF Ring!ToSet, ToSet
<1>4. \A s : Ring!IsInjective(s) <=> IsInjective(s)
    BY DEF Ring!IsInjective, IsInjective
<1>5. \A s, x : Ring!RemoveFirst(s, x) = RemoveFirst(s, x)
    BY <1>1, <1>2 DEF Ring!RemoveFirst, RemoveFirst, Ring!RemoveAt, RemoveAt, Ring!SelectInSeq, SelectInSeq, Ring!Contains, Contains
<1>. QED BY <1>2, <1>3, <1>4, <1>5

LEMMA SameQueue ==
    /\ Ring!EmptyQueue = EmptyQueue
    /\ \A q : Ring!WellFormed(q) <=> WellFormed(q)
    /\ \A q : Ring!Queued(q) = Queued(q)
    /\ \A q, j : Ring!Enqueue(q, j) = Enqueue(q, j)
    /\ \A q, j : Ring!RemoveJob(q, j) = RemoveJob(q, j)
    /\ \A q : Ring!NextCommand(q) = NextCommand(q)
    /\ \A q : Ring!TakeNext(q) = TakeNext(q)
<1>1. Ring!EmptyQueue = EmptyQueue
    BY DEF Ring!EmptyQueue, EmptyQueue
<1>2. \A q : Ring!WellFormed(q) <=> WellFormed(q)
    BY SameOperators DEF Ring!WellFormed, WellFormed, Ring!Queue, Queue
<1>3. \A q : Ring!Queued(q) = Queued(q)
    BY SameOperators DEF Ring!Queued, Queued
<1>4. \A q, j : Ring!Enqueue(q, j) = Enqueue(q, j)
    BY SameOperators DEF Ring!Enqueue, Enqueue
<1>5. \A q, c, f : Ring!WithFifo(q, c, f) = WithFifo(q, c, f)
    BY SameOperators DEF Ring!WithFifo, WithFifo
<1>6. \A q, j : Ring!RemoveJob(q, j) = RemoveJob(q, j)
    BY <1>5, SameOperators DEF Ring!RemoveJob, RemoveJob
<1>7. \A q : Ring!LastIndex(q) = LastIndex(q)
    BY DEF Ring!LastIndex, LastIndex, Ring!SelectInSeq, SelectInSeq, Ring!Min, Min
<1>8. \A q : Ring!NextCommand(q) = NextCommand(q)
    BY <1>7 DEF Ring!NextCommand, NextCommand
<1>9. \A q : Ring!TakeNext(q) = TakeNext(q)
    BY <1>5, <1>8 DEF Ring!TakeNext, TakeNext
<1>. QED BY <1>1, <1>2, <1>3, <1>4, <1>6, <1>8, <1>9

-----------------------------------------------------------------------------
(* How many takes of others are still to come. *)

Total == Cardinality(Commands)

\* 0 + 1 + ... + m
Triangle(m) == (m * (m + 1)) \div 2

\* What a command is passed at most.
Most == Triangle(Total - 1) + Total - 2

\* The turns the command in place p of a ring of len may still wait for, when
\* place last was served last: every command before it can leave, enter again
\* behind it and so send the round back to the start once.
Turns(len, last, p) ==
    IF last < p THEN Triangle(p - 1) + Total - 2 - (len - p) - last
    ELSE IF p = Total THEN Triangle(p - 1) + Total - 2
    ELSE Triangle(p - 1) + Total - 1 - (last - p)

\* The numbers 0, 1, 3, 6, 10, ...
LEMMA Triangles ==
    /\ Triangle(0) = 0
    /\ \A m \in Nat : Triangle(m) \in Nat /\ m <= Triangle(m)
    /\ \A m \in Nat \ {0} : Triangle(m) = Triangle(m - 1) + m
    /\ \A k \in Nat : \A m \in 0..k : Triangle(m) <= Triangle(k)
<1>1. ASSUME NEW m \in Nat PROVE m * (m + 1) = 2 * Triangle(m) /\ Triangle(m) \in Nat
    <2>1. PICK a \in Nat : m = 2 * a \/ m = 2 * a + 1
        <3>1. m = 2 * (m \div 2) + (m % 2) /\ m % 2 \in {0, 1} /\ m \div 2 \in Nat
            OBVIOUS
        <3>. QED BY <3>1
    <2>2. CASE m = 2 * a
        <3>1. m * (m + 1) = 2 * (a * (2 * a + 1)) /\ a * (2 * a + 1) \in Nat
            BY <2>2
        <3>. QED BY <3>1 DEF Triangle
    <2>3. CASE m = 2 * a + 1
        <3>1. m * (m + 1) = 2 * ((2 * a + 1) * (a + 1)) /\ (2 * a + 1) * (a + 1) \in Nat
            BY <2>3
        <3>. QED BY <3>1 DEF Triangle
    <2>. QED BY <2>1, <2>2, <2>3
<1>2. Triangle(0) = 0
    BY DEF Triangle
<1>3. ASSUME NEW m \in Nat PROVE m <= Triangle(m)
    <2>1. m * (m + 1) >= 2 * m
        OBVIOUS
    <2>2. m * (m + 1) = 2 * Triangle(m) /\ Triangle(m) \in Nat
        BY <1>1
    <2>3. 2 * Triangle(m) >= 2 * m
        BY <2>1, <2>2
    <2>. QED BY <2>2, <2>3
<1>4. ASSUME NEW m \in Nat \ {0} PROVE Triangle(m) = Triangle(m - 1) + m
    <2>1. m * (m + 1) = 2 * Triangle(m) /\ (m - 1) * m = 2 * Triangle(m - 1)
        <3>1. (m - 1) + 1 = m /\ m - 1 \in Nat
            OBVIOUS
        <3>. QED BY <1>1, <3>1
    <2>2. m * (m + 1) = (m - 1) * m + 2 * m
        OBVIOUS
    <2>3. 2 * Triangle(m) = 2 * Triangle(m - 1) + 2 * m
        BY <2>1, <2>2
    <2>4. Triangle(m) \in Nat /\ Triangle(m - 1) \in Nat
        BY <1>1
    <2>. QED BY <2>3, <2>4
<1>5. ASSUME NEW k \in Nat, NEW m \in 0..k PROVE Triangle(m) <= Triangle(k)
    <2>1. m * (m + 1) <= k * (k + 1)
        <3>1. m * (m + 1) <= m * (k + 1) /\ m * (k + 1) <= k * (k + 1)
            OBVIOUS
        <3>. QED BY <3>1
    <2>. QED BY <1>1, <2>1
<1>. QED BY <1>1, <1>2, <1>3, <1>4, <1>5

\* The bound, as the property states it.
LEMMA MostIs ==
    ASSUME Total \in Nat \ {0}
    PROVE  Most = (Total * (Total + 1)) \div 2 - 2 /\ Most \in Int
<1>1. Triangle(Total) = Triangle(Total - 1) + Total /\ Triangle(Total) \in Nat
    BY Triangles
<1>. QED BY <1>1, Triangles DEF Most, Triangle

\* Enqueue: a ring that grows by a command at its end, be it the one served last
\* that returns, costs the others no turn.
LEMMA TurnsGrow ==
    ASSUME Total \in Nat, NEW len \in 0..Total - 1, NEW last \in 0..len, NEW p \in 1..len
    PROVE  /\ Turns(len + 1, last, p) <= Turns(len, last, p)
           /\ Turns(len + 1, len + 1, p) <= Turns(len, 0, p)
BY Triangles DEF Turns

\* And the command that enters waits for no more turns than the bound.
LEMMA TurnsEnter ==
    ASSUME Total \in Nat, Total >= 2, NEW len \in 0..Total - 1, NEW last \in 0..len + 1
    PROVE  Turns(len + 1, last, len + 1) <= Most
<1>1. Triangle(len) <= Triangle(Total - 1) /\ Triangle(len) \in Nat /\ Triangle(Total - 1) \in Nat
    BY Triangles
<1>2. len < Total - 1 => Triangle(len) + Total - 1 <= Most
    <2>1. Triangle(Total - 1) = Triangle(Total - 2) + Total - 1
        BY Triangles
    <2>2. len < Total - 1 => Triangle(len) <= Triangle(Total - 2)
        BY Triangles
    <2>. QED BY <1>1, <2>1, <2>2, Triangles DEF Most
<1>. QED BY <1>1, <1>2 DEF Turns, Most

\* The command that was just served and has more jobs likewise.
LEMMA TurnsOwn ==
    ASSUME Total \in Nat, Total >= 2, NEW len \in 1..Total, NEW p \in 1..len
    PROVE  Turns(len, p, p) <= Most
<1>1. Triangle(p - 1) \in Nat /\ Triangle(Total - 1) \in Nat
    BY Triangles
<1>2. p < Total => Triangle(p - 1) + Total - 1 <= Most
    <2>1. Triangle(Total - 1) = Triangle(Total - 2) + Total - 1
        BY Triangles
    <2>2. p < Total => Triangle(p - 1) <= Triangle(Total - 2)
        BY Triangles
    <2>. QED BY <1>1, <2>1, <2>2, Triangles DEF Most
<1>. QED BY <1>1, <1>2 DEF Turns, Most

\* Where take goes on.
After(len, last) == IF last < len THEN last + 1 ELSE 1

\* Where place p is once place x left.
Closed(x, p) == IF p < x THEN p ELSE p - 1

\* take: the turn of another command is one turn less to wait for, whether that
\* one stays in the ring or leaves it.
LEMMA TurnsTake ==
    ASSUME Total \in Nat, Total >= 2, NEW len \in 1..Total, NEW last \in 0..len,
           NEW p \in 1..len, p # After(len, last)
    PROVE  LET x == After(len, last)
               stays == Turns(len, x, p)
               leaves == Turns(len - 1, 0, Closed(x, p)) IN
           /\ stays \in Nat /\ stays + 1 <= Turns(len, last, p)
           /\ leaves \in Nat /\ leaves + 1 <= Turns(len, last, p)
<1>1. Triangle(p - 1) \in Nat /\ p - 1 <= Triangle(p - 1)
    BY Triangles
<1>2. p > 1 => /\ Triangle(p - 1) = Triangle(p - 2) + p - 1
              /\ Triangle(p - 2) \in Nat /\ p - 2 <= Triangle(p - 2)
    BY Triangles
<1>3. p - 1 - 1 = p - 2
    OBVIOUS
<1>. QED BY <1>1, <1>2, <1>3 DEF Turns, After, Closed

\* remove: a command that leaves unserved costs the others a turn at most.
LEMMA TurnsLeave ==
    ASSUME Total \in Nat, Total >= 2, NEW len \in 1..Total, NEW last \in 0..len,
           NEW p \in 1..len, NEW x \in 1..len, p # x
    PROVE  Turns(len - 1, IF last = x THEN 0 ELSE IF last < x THEN last ELSE last - 1, Closed(x, p))
             <= Turns(len, last, p) + 1
<1>1. Triangle(p - 1) \in Nat /\ p - 1 <= Triangle(p - 1)
    BY Triangles
<1>2. p > 1 => /\ Triangle(p - 1) = Triangle(p - 2) + p - 1
              /\ Triangle(p - 2) \in Nat /\ p - 2 <= Triangle(p - 2)
    BY Triangles
<1>3. p - 1 - 1 = p - 2
    OBVIOUS
<1>. QED BY <1>1, <1>2, <1>3 DEF Turns, Closed

-----------------------------------------------------------------------------
(* The places of the ring. *)

\* The place of the command served last.
LEMMA LastIsAt ==
    ASSUME NEW q, WellFormed(q), NEW i \in 1..Len(q.ring), q.ring[i] = q.last
    PROVE  LastIndex(q) = i
<1>1. /\ LastIndex(q) \in 0..Len(q.ring)
      /\ LastIndex(q) # 0 => q.ring[LastIndex(q)] = q.last
      /\ LastIndex(q) = 0 => ~Contains(q.ring, q.last)
    BY LastIndexWorks
<1>2. Contains(q.ring, q.last)
    BY DEF Contains
<1>3. \A k, l \in 1..Len(q.ring) : q.ring[k] = q.ring[l] => k = l
    BY DEF WellFormed, IsInjective
<1>. QED BY <1>1, <1>2, <1>3

\* There is a place for each command at most.
LEMMA RingIsShort ==
    ASSUME IsFiniteSet(Commands), NEW q, WellFormed(q)
    PROVE  Len(q.ring) \in 0..Total /\ Total \in Nat
<1>1. q.ring \in Seq(Commands) /\ \A k, l \in 1..Len(q.ring) : q.ring[k] = q.ring[l] => k = l
    BY DEF WellFormed, IsInjective, Queue
<1>2. Total \in Nat /\ Len(q.ring) \in Nat
    BY <1>1, FS_CardinalityType DEF Total
<1>3. IsFiniteSet(1..Len(q.ring)) /\ Cardinality(1..Len(q.ring)) = Len(q.ring)
    BY <1>2, FS_Interval
<1>4. ASSUME Total < Len(q.ring) PROVE FALSE
    <2>1. q.ring \in [1..Len(q.ring) -> Commands]
        BY <1>1
    <2>2. \E k, l \in 1..Len(q.ring) : k # l /\ q.ring[k] = q.ring[l]
        BY <1>3, <1>4, <2>1, FS_PigeonHole DEF Total
    <2>. QED BY <1>1, <2>2
<1>. QED BY <1>2, <1>4

\* What a command that leaves place x of a ring does to it: the places behind
\* its own move up, that of the command served last with them.
Shrunk(q, r, c, x) ==
    /\ q.ring[x] = c /\ Len(r.ring) = Len(q.ring) - 1
    /\ \A i \in 1..Len(r.ring) :
         \E p \in 1..Len(q.ring) \ {x} : r.ring[i] = q.ring[p] /\ i = Closed(x, p)
    /\ r.last = c => LastIndex(r) = 0
    /\ r.last = q.last =>
         LET last == LastIndex(q) IN
         LastIndex(r) = IF last = x THEN 0 ELSE IF last < x THEN last ELSE last - 1
    /\ \A d : Contains(r.ring, d) <=> Contains(q.ring, d) /\ d # c

\* A command leaves the ring.
LEMMA RingShrinks ==
    ASSUME NEW q, WellFormed(q), NEW r, WellFormed(r), NEW c, Contains(q.ring, c),
           r.ring = RemoveFirst(q.ring, c)
    PROVE  \E x \in 1..Len(q.ring) : Shrunk(q, r, c, x)
<1>1. /\ q.ring \in Seq(Commands) /\ IsInjective(q.ring)
      /\ \A k, l \in 1..Len(q.ring) : q.ring[k] = q.ring[l] => k = l
    <2>1. q.ring \in Seq(Commands) /\ IsInjective(q.ring)
        BY DEF WellFormed, Queue
    <2>. QED BY <2>1 DEF IsInjective
<1>0. LET s == RemoveFirst(q.ring, c) IN
      /\ Len(s) = Len(q.ring) - 1
      /\ \A d : Contains(s, d) <=> Contains(q.ring, d) /\ d # c
      /\ \E x \in 1..Len(q.ring) :
           /\ q.ring[x] = c
           /\ \A k \in 1..Len(s) : s[k] = IF k < x THEN q.ring[k] ELSE q.ring[k + 1]
    <2>. DEFINE ring == q.ring
    <2>1. ring \in Seq(Commands) /\ IsInjective(ring) /\ Contains(ring, c)
        BY <1>1
    <2>. HIDE DEF ring
    <2>2. LET s == RemoveFirst(ring, c) IN
          /\ Len(s) = Len(ring) - 1
          /\ \A d : Contains(s, d) <=> Contains(ring, d) /\ d # c
          /\ \E x \in 1..Len(ring) :
               /\ ring[x] = c
               /\ \A k \in 1..Len(s) : s[k] = IF k < x THEN ring[k] ELSE ring[k + 1]
        BY <2>1, RemoveFirstWorks
    <2>. QED BY <2>2 DEF ring
<1>2. PICK x \in 1..Len(q.ring) :
        /\ q.ring[x] = c
        /\ \A k \in 1..Len(r.ring) : r.ring[k] = IF k < x THEN q.ring[k] ELSE q.ring[k + 1]
    BY <1>0
<1>3. /\ Len(r.ring) = Len(q.ring) - 1 /\ Len(q.ring) \in Nat
      /\ \A d : Contains(r.ring, d) <=> Contains(q.ring, d) /\ d # c
    BY <1>0, <1>1
<1>4. ASSUME NEW i \in 1..Len(r.ring)
      PROVE  \E p \in 1..Len(q.ring) \ {x} : r.ring[i] = q.ring[p] /\ i = Closed(x, p)
    <2>1. CASE i < x
        <3>1. i \in 1..Len(q.ring) \ {x} /\ i = Closed(x, i)
            BY <1>3, <2>1 DEF Closed
        <3>. QED BY <1>2, <2>1, <3>1
    <2>2. CASE ~(i < x)
        <3>1. i + 1 \in 1..Len(q.ring) \ {x} /\ i = Closed(x, i + 1)
            BY <1>3, <2>2 DEF Closed
        <3>. QED BY <1>2, <2>2, <3>1
    <2>. QED BY <2>1, <2>2
<1>5. /\ LastIndex(r) \in 0..Len(r.ring)
      /\ LastIndex(r) # 0 => r.ring[LastIndex(r)] = r.last
      /\ LastIndex(r) = 0 => ~Contains(r.ring, r.last)
    BY LastIndexWorks
<1>6. LastIndex(r) # 0 => Contains(r.ring, r.last)
    BY <1>5 DEF Contains
<1>7. r.last = c => LastIndex(r) = 0
    BY <1>3, <1>6
<1>8. ASSUME r.last = q.last
      PROVE  LET last == LastIndex(q) IN
             LastIndex(r) = IF last = x THEN 0 ELSE IF last < x THEN last ELSE last - 1
    <2>. DEFINE last == LastIndex(q)
    <2>1. /\ last \in 0..Len(q.ring)
          /\ last # 0 => q.ring[last] = q.last
          /\ last = 0 => ~Contains(q.ring, q.last)
        BY LastIndexWorks
    <2>2. CASE last = x
        BY <1>2, <1>7, <1>8, <2>1, <2>2
    <2>3. CASE last = 0
        BY <1>3, <1>6, <1>8, <2>1, <2>3
    <2>4. CASE last # 0 /\ last < x
        <3>1. last \in 1..Len(r.ring) /\ r.ring[last] = r.last
            BY <1>2, <1>3, <1>8, <2>1, <2>4
        <3>. QED BY <2>4, <3>1, LastIsAt
    <2>5. CASE last > x
        <3>1. last - 1 \in 1..Len(r.ring) /\ r.ring[last - 1] = r.last
            BY <1>2, <1>3, <1>8, <2>1, <2>5
        <3>2. LastIndex(r) = last - 1
            BY <3>1, LastIsAt
        <3>. QED BY <2>1, <2>5, <3>2
    <2>. QED BY <2>1, <2>2, <2>3, <2>4, <2>5
<1>9. Shrunk(q, r, c, x)
    BY <1>2, <1>3, <1>4, <1>7, <1>8 DEF Shrunk
<1>. QED BY <1>9

\* Turns are whole numbers.
LEMMA TurnsType ==
    ASSUME Total \in Nat, NEW len \in 0..Total, NEW last \in 0..len, NEW p \in 1..len
    PROVE  Turns(len, last, p) \in Int
BY Triangles DEF Turns

-----------------------------------------------------------------------------
(* The invariant of the round robin. *)

RingTypes == WellFormed(queue) /\ passed \in [Commands -> Nat] /\ gone \in [Commands -> Nat]

\* The counters are about commands that wait.
Uncounted == \A c \in Commands : ~Contains(queue.ring, c) => passed[c] = 0 /\ gone[c] = 0

\* What a command was passed, and with the turns it may still wait for.
Bypassed == \A c \in Commands : passed[c] <= Most + gone[c]
Promised == \A p \in 1..Len(queue.ring) :
               passed[queue.ring[p]] + Turns(Len(queue.ring), LastIndex(queue), p)
                 <= Most + gone[queue.ring[p]]

RingInv == RingTypes /\ Uncounted /\ (Total >= 2 => Bypassed /\ Promised)

\* What the steps need of the ring.
LEMMA RingFacts ==
    ASSUME IsFiniteSet(Commands), RingTypes
    PROVE  /\ Total \in Nat /\ Len(queue.ring) \in 0..Total
           /\ LastIndex(queue) \in 0..Len(queue.ring)
           /\ \A p \in 1..Len(queue.ring) :
                /\ queue.ring[p] \in Commands /\ Contains(queue.ring, queue.ring[p])
                /\ Turns(Len(queue.ring), LastIndex(queue), p) \in Int
           /\ \A k, l \in 1..Len(queue.ring) : queue.ring[k] = queue.ring[l] => k = l
           /\ Total >= 2 => Most \in Nat
<1>1. WellFormed(queue) /\ queue.ring \in Seq(Commands)
    BY DEF RingTypes, WellFormed, Queue
<1>2. Total \in Nat /\ Len(queue.ring) \in 0..Total /\ LastIndex(queue) \in 0..Len(queue.ring)
    BY <1>1, RingIsShort, LastIndexWorks
<1>3. \A p \in 1..Len(queue.ring) : queue.ring[p] \in Commands /\ Contains(queue.ring, queue.ring[p])
    BY <1>1 DEF Contains
<1>4. \A k, l \in 1..Len(queue.ring) : queue.ring[k] = queue.ring[l] => k = l
    BY <1>1 DEF WellFormed, IsInjective
<1>5. \A p \in 1..Len(queue.ring) : Turns(Len(queue.ring), LastIndex(queue), p) \in Int
    BY <1>2, TurnsType
<1>6. Total >= 2 => Most \in Nat
    <2>1. Total >= 2 => Triangle(Total - 1) \in Nat
        BY <1>2, Triangles
    <2>. QED BY <1>2, <2>1 DEF Most
<1>. QED BY <1>2, <1>3, <1>4, <1>5, <1>6

\* A job enters.
LEMMA SubmitKeeps ==
    ASSUME IsFiniteSet(Commands), RingInv, NEW j \in Jobs, Ring!Submit(j)
    PROVE  RingInv'
<1>. DEFINE c == CommandOf[j]
            len == Len(queue.ring)
            last == LastIndex(queue)
<1>0. c \in Commands
    BY CommandOfAssumption
<1>1. queue' = Enqueue(queue, j) /\ j \notin Queued(queue) /\ UNCHANGED <<passed, gone>>
    BY SameQueue DEF Ring!Submit
<1>2. WellFormed(queue) /\ WellFormed(queue') /\ RingTypes'
    BY <1>1, EnqueueWorks DEF RingInv, RingTypes
<1>3. /\ queue'.ring = IF Contains(queue.ring, c) THEN queue.ring ELSE Append(queue.ring, c)
      /\ queue'.last = queue.last /\ queue.ring \in Seq(Commands)
    BY <1>1, <1>2 DEF Enqueue, WellFormed, Queue
<1>4. CASE Contains(queue.ring, c)
    <2>1. queue'.ring = queue.ring /\ LastIndex(queue') = LastIndex(queue)
        BY <1>3, <1>4 DEF LastIndex
    <2>2. Uncounted' /\ (Total >= 2 => Bypassed' /\ Promised')
        BY <1>1, <2>1 DEF RingInv, Uncounted, Bypassed, Promised
    <2>. QED BY <1>2, <2>2 DEF RingInv
<1>5. CASE ~Contains(queue.ring, c)
    <2>1. /\ queue'.ring = Append(queue.ring, c) /\ Len(queue'.ring) = len + 1
          /\ \A p \in 1..len : queue'.ring[p] = queue.ring[p]
          /\ queue'.ring[len + 1] = c
        BY <1>0, <1>3, <1>5
    <2>2. /\ len \in 0..Total - 1 /\ last \in 0..len /\ Total \in Nat
          /\ \A p \in 1..len : queue.ring[p] \in Commands /\ Turns(len, last, p) \in Int
          /\ \A p \in 1..len + 1 : Turns(len + 1, LastIndex(queue'), p) \in Int
          /\ Total >= 2 => Most \in Nat
        <3>1. len + 1 \in 0..Total /\ LastIndex(queue') \in 0..len + 1
            BY <1>2, <2>1, RingIsShort, LastIndexWorks
        <3>2. /\ Total \in Nat /\ len \in 0..Total /\ last \in 0..len
              /\ \A p \in 1..len : queue.ring[p] \in Commands /\ Turns(len, last, p) \in Int
              /\ Total >= 2 => Most \in Nat
            BY RingFacts DEF RingInv
        <3>3. \A p \in 1..len + 1 : Turns(len + 1, LastIndex(queue'), p) \in Int
            BY <3>1, <3>2, TurnsType
        <3>. QED BY <3>1, <3>2, <3>3
    <2>3. ASSUME NEW d, Contains(queue.ring, d) PROVE Contains(queue'.ring, d)
        <3>1. PICK p \in 1..len : queue.ring[p] = d
            BY <2>3 DEF Contains
        <3>2. p \in 1..len + 1 /\ queue'.ring[p] = d
            BY <2>1, <2>2, <3>1
        <3>. QED BY <2>1, <3>2 DEF Contains
    <2>4. Uncounted'
        BY <1>1, <2>3 DEF RingInv, Uncounted
    <2>5. LastIndex(queue') = last \/ (last = 0 /\ LastIndex(queue') = len + 1)
        <3>1. /\ last # 0 => queue.ring[last] = queue.last
              /\ last = 0 => ~Contains(queue.ring, queue.last)
            BY <1>2, LastIndexWorks
        <3>2. CASE last # 0
            <4>1. last \in 1..Len(queue'.ring) /\ queue'.ring[last] = queue'.last
                BY <1>3, <2>1, <2>2, <3>1, <3>2
            <4>. QED BY <1>2, <4>1, LastIsAt
        <3>3. CASE last = 0
            <4>1. /\ LastIndex(queue') \in 0..len + 1
                  /\ LastIndex(queue') # 0 => queue'.ring[LastIndex(queue')] = queue.last
                BY <1>2, <1>3, <2>1, LastIndexWorks
            <4>2. LastIndex(queue') \notin 1..len
                BY <2>1, <3>1, <3>3, <4>1 DEF Contains
            <4>. QED BY <2>2, <3>3, <4>1, <4>2
        <3>. QED BY <3>2, <3>3
    <2>6. ASSUME Total >= 2 PROVE Promised'
        <3>. SUFFICES ASSUME NEW p \in 1..len + 1
                      PROVE  passed[queue'.ring[p]] + Turns(len + 1, LastIndex(queue'), p)
                               <= Most + gone[queue'.ring[p]]
            BY <1>1, <2>1 DEF Promised
        <3>1. CASE p \in 1..len
            <4>1. passed[queue.ring[p]] + Turns(len, last, p) <= Most + gone[queue.ring[p]]
                BY <2>6, <3>1 DEF RingInv, Promised
            <4>2. Turns(len + 1, LastIndex(queue'), p) <= Turns(len, last, p)
                BY <2>2, <2>5, <3>1, TurnsGrow
            <4>3. passed[queue.ring[p]] \in Nat /\ gone[queue.ring[p]] \in Nat
                BY <2>2, <3>1 DEF RingInv, RingTypes
            <4>4. Turns(len + 1, LastIndex(queue'), p) \in Int /\ Turns(len, last, p) \in Int /\ Most \in Nat
                BY <2>2, <2>6, <3>1
            <4>5. queue'.ring[p] = queue.ring[p]
                BY <2>1, <3>1
            <4>. HIDE DEF len, last
            <4>. QED BY <4>1, <4>2, <4>3, <4>4, <4>5
        <3>2. CASE p = len + 1
            <4>1. passed[c] = 0 /\ gone[c] = 0
                BY <1>0, <1>5 DEF RingInv, Uncounted
            <4>2. Turns(len + 1, LastIndex(queue'), len + 1) <= Most
                BY <2>2, <2>5, <2>6, TurnsEnter
            <4>. QED BY <2>1, <2>2, <2>6, <3>2, <4>1, <4>2
        <3>. QED BY <2>2, <3>1, <3>2
    <2>7. Total >= 2 => Bypassed'
        BY <1>1 DEF RingInv, Bypassed
    <2>. QED BY <1>2, <2>4, <2>6, <2>7 DEF RingInv
<1>. QED BY <1>4, <1>5

\* A job leaves unserved.
LEMMA CancelKeeps ==
    ASSUME IsFiniteSet(Commands), RingInv, NEW j \in Jobs, Ring!Cancel(j)
    PROVE  RingInv'
<1>. DEFINE c == CommandOf[j]
            len == Len(queue.ring)
            last == LastIndex(queue)
<1>0. c \in Commands
    BY CommandOfAssumption
<1>1. /\ queue' = RemoveJob(queue, j) /\ j \in Queued(queue)
      /\ IF Contains(queue'.ring, c)
         THEN UNCHANGED <<passed, gone>>
         ELSE /\ passed' = [passed EXCEPT ![c] = 0]
              /\ gone' = [w \in Commands |-> IF w # c /\ Contains(queue.ring, w)
                                            THEN gone[w] + 1 ELSE 0]
    BY SameQueue, SameOperators DEF Ring!Cancel, Ring!Waits
<1>2. WellFormed(queue) /\ passed \in [Commands -> Nat] /\ gone \in [Commands -> Nat]
    BY DEF RingInv, RingTypes
<1>3. /\ WellFormed(queue') /\ Contains(queue.ring, c) /\ queue'.last = queue.last
      /\ queue'.ring = IF queue'.fifo[c] = <<>> THEN RemoveFirst(queue.ring, c) ELSE queue.ring
    BY <1>1, <1>2, RemoveWorks
<1>4. RingTypes'
    BY <1>1, <1>2, <1>3 DEF RingTypes
<1>5. CASE Contains(queue'.ring, c)
    <2>1. queue'.ring = queue.ring /\ LastIndex(queue') = LastIndex(queue)
        BY <1>0, <1>3, <1>5 DEF WellFormed, LastIndex
    <2>2. Uncounted' /\ (Total >= 2 => Bypassed' /\ Promised')
        BY <1>1, <1>5, <2>1 DEF RingInv, Uncounted, Bypassed, Promised
    <2>. QED BY <1>4, <2>2 DEF RingInv
<1>6. CASE ~Contains(queue'.ring, c)
    <2>1. queue'.ring = RemoveFirst(queue.ring, c)
        BY <1>0, <1>3, <1>6 DEF WellFormed
    <2>0. PICK x \in 1..len : Shrunk(queue, queue', c, x)
        <3>. HIDE DEF c
        <3>. QED BY <1>2, <1>3, <2>1, RingShrinks
    <2>2. /\ queue.ring[x] = c /\ Len(queue'.ring) = len - 1
          /\ \A i \in 1..Len(queue'.ring) :
               \E p \in 1..len \ {x} : queue'.ring[i] = queue.ring[p] /\ i = Closed(x, p)
          /\ LastIndex(queue') = IF last = x THEN 0 ELSE IF last < x THEN last ELSE last - 1
          /\ \A d : Contains(queue'.ring, d) <=> Contains(queue.ring, d) /\ d # c
        BY <1>3, <2>0 DEF Shrunk
    <2>3. /\ \A w \in Commands : passed'[w] = IF w = c THEN 0 ELSE passed[w]
          /\ \A w \in Commands : gone'[w] = IF w # c /\ Contains(queue.ring, w)
                                            THEN gone[w] + 1 ELSE 0
        BY <1>1, <1>2, <1>6
    <2>4. Uncounted'
        BY <2>2, <2>3 DEF RingInv, Uncounted
    <2>5. /\ Total \in Nat /\ len \in 1..Total /\ last \in 0..len
          /\ \A p \in 1..len : /\ queue.ring[p] \in Commands /\ Contains(queue.ring, queue.ring[p])
                              /\ Turns(len, last, p) \in Int
          /\ \A k, l \in 1..len : queue.ring[k] = queue.ring[l] => k = l
          /\ Total >= 2 => Most \in Nat
        <3>1. /\ Total \in Nat /\ len \in 0..Total /\ last \in 0..len
              /\ \A p \in 1..len : /\ queue.ring[p] \in Commands /\ Contains(queue.ring, queue.ring[p])
                                  /\ Turns(len, last, p) \in Int
              /\ \A k, l \in 1..len : queue.ring[k] = queue.ring[l] => k = l
              /\ Total >= 2 => Most \in Nat
            BY RingFacts DEF RingInv
        <3>2. len # 0
            BY <2>0, <3>1
        <3>. QED BY <3>1, <3>2
    <2>6. ASSUME Total >= 2 PROVE Bypassed'
        <3>. SUFFICES ASSUME NEW w \in Commands PROVE passed'[w] <= Most + gone'[w]
            BY DEF Bypassed
        <3>1. passed[w] <= Most + gone[w] /\ passed[w] \in Nat /\ gone[w] \in Nat
            BY <1>2, <2>6 DEF RingInv, Bypassed
        <3>2. ~Contains(queue.ring, w) => passed[w] = 0
            BY DEF RingInv, Uncounted
        <3>3. Most \in Nat
            BY <2>5, <2>6
        <3>4. CASE w # c /\ Contains(queue.ring, w)
            <4>1. passed'[w] = passed[w] /\ gone'[w] = gone[w] + 1
                BY <2>3, <3>4
            <4>. QED BY <3>1, <3>3, <4>1
        <3>5. CASE ~(w # c /\ Contains(queue.ring, w))
            <4>1. passed'[w] = 0 /\ gone'[w] = 0
                BY <2>3, <3>2, <3>5
            <4>. QED BY <3>3, <4>1
        <3>. QED BY <3>4, <3>5
    <2>7. ASSUME Total >= 2 PROVE Promised'
        <3>. SUFFICES ASSUME NEW i \in 1..Len(queue'.ring)
                      PROVE  passed'[queue'.ring[i]] + Turns(len - 1, LastIndex(queue'), i)
                               <= Most + gone'[queue'.ring[i]]
            BY <2>2 DEF Promised
        <3>1. PICK p \in 1..len \ {x} : queue'.ring[i] = queue.ring[p] /\ i = Closed(x, p)
            BY <2>2
        <3>. DEFINE w == queue.ring[p]
        <3>2. w \in Commands /\ w # c /\ Contains(queue.ring, w)
            BY <2>2, <2>5
        <3>3. passed[w] + Turns(len, last, p) <= Most + gone[w]
            BY <2>7 DEF RingInv, Promised
        <3>4. Turns(len - 1, LastIndex(queue'), i) <= Turns(len, last, p) + 1
            BY <2>2, <2>5, <2>7, <3>1, TurnsLeave
        <3>5. passed'[w] = passed[w] /\ gone'[w] = gone[w] + 1 /\ passed[w] \in Nat /\ gone[w] \in Nat
            BY <1>2, <2>3, <3>2
        <3>6. Turns(len - 1, LastIndex(queue'), i) \in Int /\ Turns(len, last, p) \in Int
            <4>1. LastIndex(queue') \in 0..Len(queue'.ring)
                BY <1>3, LastIndexWorks
            <4>2. len - 1 \in 0..Total /\ LastIndex(queue') \in 0..len - 1 /\ i \in 1..len - 1
                BY <2>2, <2>5, <4>1
            <4>. QED BY <2>5, <4>2, TurnsType
        <3>7. Most \in Nat
            BY <2>5, <2>7
        <3>8. passed'[queue'.ring[i]] = passed[w] /\ gone'[queue'.ring[i]] = gone[w] + 1
            BY <3>1, <3>5
        <3>. DEFINE a == passed[w]
                    g == gone[w]
                    t == Turns(len, last, p)
                    u == Turns(len - 1, LastIndex(queue'), i)
        <3>9. a \in Nat /\ g \in Nat /\ t \in Int /\ u \in Int /\ a + t <= Most + g /\ u <= t + 1
            BY <3>3, <3>4, <3>5, <3>6
        <3>10. a + u <= Most + (g + 1)
            <4>. HIDE DEF a, g, t, u
            <4>. QED BY <3>7, <3>9
        <3>. QED BY <3>8, <3>10
    <2>. QED BY <1>4, <2>4, <2>6, <2>7 DEF RingInv
<1>. QED BY <1>5, <1>6

\* The next job is taken.
LEMMA TakeKeeps ==
    ASSUME IsFiniteSet(Commands), RingInv, Ring!Take
    PROVE  RingInv'
<1>. DEFINE c == NextCommand(queue)
            len == Len(queue.ring)
            last == LastIndex(queue)
            x == After(len, last)
<1>1. /\ queue' = TakeNext(queue) /\ queue.ring # <<>>
      /\ passed' = [w \in Commands |-> IF w # c /\ Contains(queue.ring, w)
                                       THEN passed[w] + 1 ELSE 0]
      /\ gone' = [gone EXCEPT ![c] = 0]
    BY SameQueue, SameOperators DEF Ring!Take, Ring!Waits
<1>2. WellFormed(queue) /\ passed \in [Commands -> Nat] /\ gone \in [Commands -> Nat]
    BY DEF RingInv, RingTypes
<1>3. /\ WellFormed(queue') /\ c \in Commands /\ Contains(queue.ring, c) /\ queue'.last = c
      /\ queue'.ring = IF queue'.fifo[c] = <<>> THEN RemoveFirst(queue.ring, c) ELSE queue.ring
    BY <1>1, <1>2, TakeWorks
<1>4. /\ Total \in Nat /\ len \in 1..Total /\ last \in 0..len
      /\ \A p \in 1..len : /\ queue.ring[p] \in Commands /\ Contains(queue.ring, queue.ring[p])
                          /\ Turns(len, last, p) \in Int
      /\ \A k, l \in 1..len : queue.ring[k] = queue.ring[l] => k = l
      /\ Total >= 2 => Most \in Nat
    <2>1. len # 0
        BY <1>1, <1>2 DEF WellFormed, Queue
    <2>. QED BY <2>1, RingFacts DEF RingInv
<1>5. x \in 1..len /\ queue.ring[x] = c
    <2>1. x = (last % len) + 1
        <3>0. last \in Nat /\ len \in Nat \ {0} /\ last <= len
            BY <1>4
        <3>. HIDE DEF last, len
        <3>1. last < len => last % len = last
            BY <3>0
        <3>2. last = len => last % len = 0
            BY <3>0
        <3>. QED BY <3>0, <3>1, <3>2 DEF After, x
    <2>. QED BY <1>4, <2>1 DEF NextCommand, After
<1>. HIDE DEF c, x
<1>6. RingTypes'
    <2>1. passed' \in [Commands -> Nat]
        <3>1. \A w \in Commands : passed[w] + 1 \in Nat
            BY <1>2
        <3>. QED BY <1>1, <3>1
    <2>2. gone' \in [Commands -> Nat]
        BY <1>1, <1>2
    <2>. QED BY <1>3, <2>1, <2>2 DEF RingTypes
<1>7. /\ \A w \in Commands : passed'[w] = IF w # c /\ Contains(queue.ring, w)
                                          THEN passed[w] + 1 ELSE 0
      /\ \A w \in Commands : gone'[w] = IF w = c THEN 0 ELSE gone[w]
    BY <1>1, <1>2
\* Each other place of the ring is promised one turn less, wherever it is now.
<1>8. ASSUME Total >= 2, NEW p \in 1..len, p # x, NEW turns \in Nat,
             turns + 1 <= Turns(len, last, p)
      PROVE  LET w == queue.ring[p] IN passed'[w] + turns <= Most + gone'[w]
    <2>. DEFINE w == queue.ring[p]
    <2>1. w \in Commands /\ w # c /\ Contains(queue.ring, w)
        BY <1>4, <1>5, <1>8
    <2>2. passed[w] + Turns(len, last, p) <= Most + gone[w]
        BY <1>8 DEF RingInv, Promised
    <2>3. passed'[w] = passed[w] + 1 /\ gone'[w] = gone[w] /\ passed[w] \in Nat /\ gone[w] \in Nat
        BY <1>2, <1>7, <2>1
    <2>4. Turns(len, last, p) \in Int /\ Most \in Nat
        BY <1>4, <1>8
    <2>. HIDE DEF w, len, last
    <2>5. passed'[w] + turns <= Most + gone'[w]
        BY <1>8, <2>2, <2>3, <2>4
    <2>. QED BY <2>5 DEF w
<1>9. ASSUME Total >= 2, NEW p \in 1..len, p # x
      PROVE  /\ Turns(len, x, p) \in Nat /\ Turns(len, x, p) + 1 <= Turns(len, last, p)
             /\ Turns(len - 1, 0, Closed(x, p)) \in Nat
             /\ Turns(len - 1, 0, Closed(x, p)) + 1 <= Turns(len, last, p)
    BY <1>4, <1>9, TurnsTake DEF x
<1>10. ASSUME Total >= 2 PROVE Bypassed'
    <2>. SUFFICES ASSUME NEW w \in Commands PROVE passed'[w] <= Most + gone'[w]
        BY DEF Bypassed
    <2>1. CASE w # c /\ Contains(queue.ring, w)
        <3>1. PICK p \in 1..len : queue.ring[p] = w
            BY <2>1 DEF Contains
        <3>2. p # x
            BY <1>5, <2>1, <3>1
        <3>. DEFINE turns == Turns(len, x, p)
        <3>3. turns \in Nat /\ turns + 1 <= Turns(len, last, p)
            BY <1>9, <1>10, <3>2
        <3>. HIDE DEF turns
        <3>4. passed'[w] + turns <= Most + gone'[w]
            BY <1>8, <1>10, <3>1, <3>2, <3>3
        <3>5. passed'[w] \in Nat /\ gone'[w] \in Nat /\ Most \in Nat
            BY <1>4, <1>6, <1>10 DEF RingTypes
        <3>. QED BY <3>3, <3>4, <3>5
    <2>2. CASE ~(w # c /\ Contains(queue.ring, w))
        <3>1. passed'[w] = 0 /\ gone'[w] \in Nat /\ Most \in Nat
            BY <1>4, <1>6, <1>7, <1>10, <2>2 DEF RingTypes
        <3>. QED BY <3>1
    <2>. QED BY <2>1, <2>2
<1>11. CASE queue'.ring = queue.ring
    <2>1. LastIndex(queue') = x
        BY <1>3, <1>5, <1>11, LastIsAt
    <2>2. Uncounted'
        BY <1>3, <1>7, <1>11 DEF RingInv, Uncounted
    <2>3. ASSUME Total >= 2 PROVE Promised'
        <3>. SUFFICES ASSUME NEW p \in 1..len
                      PROVE  passed'[queue.ring[p]] + Turns(len, x, p) <= Most + gone'[queue.ring[p]]
            BY <1>11, <2>1 DEF Promised
        <3>1. CASE p # x
            BY <1>8, <1>9, <2>3, <3>1
        <3>2. CASE p = x
            <4>1. passed'[c] = 0 /\ gone'[c] = 0
                BY <1>3, <1>7
            <4>2. Turns(len, x, x) <= Most /\ Turns(len, x, x) \in Int /\ Most \in Nat
                <5>1. Turns(len, x, x) <= Most
                    BY <1>4, <1>5, <2>3, TurnsOwn
                <5>2. Turns(len, x, x) \in Int
                    BY <1>4, <1>5, TurnsType
                <5>. QED BY <1>4, <2>3, <5>1, <5>2
            <4>. QED BY <1>5, <3>2, <4>1, <4>2
        <3>. QED BY <3>1, <3>2
    <2>. QED BY <1>6, <1>10, <2>2, <2>3 DEF RingInv
<1>12. CASE queue'.ring = RemoveFirst(queue.ring, c)
    <2>1. PICK y \in 1..len : Shrunk(queue, queue', c, y)
        BY <1>2, <1>3, <1>12, RingShrinks
    <2>2. y = x
        BY <1>4, <1>5, <2>1 DEF Shrunk
    <2>3. /\ Len(queue'.ring) = len - 1 /\ LastIndex(queue') = 0
          /\ \A i \in 1..Len(queue'.ring) :
               \E p \in 1..len \ {x} : queue'.ring[i] = queue.ring[p] /\ i = Closed(x, p)
          /\ \A d : Contains(queue'.ring, d) <=> Contains(queue.ring, d) /\ d # c
        BY <1>3, <2>1, <2>2 DEF Shrunk
    <2>4. Uncounted'
        BY <1>7, <2>3 DEF RingInv, Uncounted
    <2>5. ASSUME Total >= 2 PROVE Promised'
        <3>. SUFFICES ASSUME NEW i \in 1..Len(queue'.ring)
                      PROVE  passed'[queue'.ring[i]] + Turns(len - 1, 0, i)
                               <= Most + gone'[queue'.ring[i]]
            BY <2>3 DEF Promised
        <3>1. PICK p \in 1..len \ {x} : queue'.ring[i] = queue.ring[p] /\ i = Closed(x, p)
            BY <2>3
        <3>. QED BY <1>8, <1>9, <2>5, <3>1
    <2>. QED BY <1>6, <1>10, <2>4, <2>5 DEF RingInv
<1>. QED BY <1>3, <1>11, <1>12

\* The invariant of the round robin holds throughout.
LEMMA RingInvariance == IsFiniteSet(Commands) => (Ring!Spec => []RingInv)
<1>. SUFFICES ASSUME IsFiniteSet(Commands) PROVE Ring!Spec => []RingInv
    OBVIOUS
<1>1. ASSUME Ring!Init PROVE RingInv
    <2>1. WellFormed(queue) /\ queue.ring = <<>>
        BY <1>1, SameQueue, EmptyWorks DEF Ring!Init, EmptyQueue
    <2>2. RingTypes /\ Uncounted
        BY <1>1, <2>1 DEF Ring!Init, RingTypes, Uncounted
    <2>3. Total >= 2 => Bypassed /\ Promised
        BY <1>1, <2>1, <2>2, RingFacts DEF Ring!Init, Bypassed, Promised
    <2>. QED BY <2>2, <2>3 DEF RingInv
<1>2. RingInv /\ [Ring!Next]_(Ring!vars) => RingInv'
    <2>1. ASSUME RingInv, UNCHANGED Ring!vars PROVE RingInv'
        BY <2>1 DEF Ring!vars, RingInv, RingTypes, Uncounted, Bypassed, Promised
    <2>. QED BY <2>1, SubmitKeeps, CancelKeeps, TakeKeeps DEF Ring!Next
<1>. QED BY <1>1, <1>2, PTL DEF Ring!Spec

\* Round robin: with finitely many commands, a waiting one is passed no more
\* often than the bound says, whatever the others submit, cancel and enter
\* again, and however many jobs each has.
THEOREM BypassIsBounded == IsFiniteSet(Commands) => (Ring!Spec => []BoundedBypass)
<1>. SUFFICES ASSUME IsFiniteSet(Commands) PROVE Ring!Spec => []BoundedBypass
    OBVIOUS
<1>1. ASSUME RingInv PROVE BoundedBypass
    <2>. SUFFICES ASSUME NEW c \in Commands, NEW d \in Commands, c # d
                  PROVE  passed[c] <= (Total * (Total + 1)) \div 2 - 2 + gone[c]
        <3>1. Ring!Cardinality(Commands) = Total
            BY DEF Ring!Cardinality, Cardinality, Total, Ring!IsFiniteSet, IsFiniteSet
        <3>2. BoundedBypass <=>
                \A c, d \in Commands : c # d =>
                  passed[c] <= (Total * (Total + 1)) \div 2 - 2 + gone[c]
            BY <3>1, Zenon DEF BoundedBypass, Ring!BoundedBypass
        <3>. QED BY <3>2
    <2>1. Total \in Nat
        BY FS_CardinalityType DEF Total
    <2>2. Total >= 2
        <3>1. Total # 0
            BY FS_EmptySet DEF Total
        <3>2. Total # 1
            BY FS_Singleton DEF Total
        <3>. QED BY <2>1, <3>1, <3>2
    <2>3. Most = (Total * (Total + 1)) \div 2 - 2
        BY <2>1, <2>2, MostIs
    <2>. QED BY <1>1, <2>2, <2>3 DEF RingInv, Bypassed
<1>. QED BY <1>1, RingInvariance, PTL
=============================================================================
