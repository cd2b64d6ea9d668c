------------------------------ MODULE RetryLoop ------------------------------
(***************************************************************************)
(* chatCompletionWithRetry (provider/completion.ts) by concurrent calls of *)
(* one process: the attempts of a call, the process-wide circuit breaker   *)
(* (SERVICE_HEALTH, checkServiceHealthOrWait), the retry clock of a call   *)
(* or of a whole dispatch (provider/http.ts), and the budget of billed     *)
(* empty replies.  What runs without an await is one action.               *)
(*                                                                         *)
(* Time is counted in minutes that are left: until a wait is over, until a *)
(* window closes.  The pause between empty replies (2 s) takes none.       *)
(***************************************************************************)
EXTENDS Integers, Sequences

CONSTANTS Calls, None,
          Threshold,     \* failureThreshold
          Rungs,         \* the waits of the ladder that fit a retry window
          Window,        \* RETRY_DEADLINE_MS
          MaxRetries,    \* MAX_TRUNCATION_RETRIES
          MaxBlanks,     \* MAX_EMPTY_RESPONSE_RETRIES
          PaidBudget     \* RUN_PAID_EMPTY_RETRY_BUDGET

VARIABLES
    shared,      \* the calls are of one dispatch, under one retry clock
    at,          \* where each call is
    tries,       \* genericAttempts
    blanks,      \* emptyAttempts
    paymentRetried,
    wait,        \* for a call in a wait: the minutes left, the epoch it saw
    clock,       \* the minutes to the deadline, None before the first failure
    expired,     \* the calls whose clock a refused wait has closed
    failures, rung, epoch, successEpoch,     \* SERVICE_HEALTH
    billed,      \* runPaidEmptyRetriesByModel
    \* history: who waited when the breaker was reset, whether a request
    \* succeeded since, the outages and the waits begun in this streak, the
    \* empty replies billed to a call beyond the budget
    resetUnder, proven, outages, waits, beyond

callVars == <<tries, blanks, paymentRetried>>
clocks == <<clock, expired>>
health == <<failures, rung, epoch, successEpoch>>
history == <<resetUnder, proven, outages, waits>>
money == <<billed, beyond>>
vars == <<shared, at, callVars, wait, clocks, health, money, history>>

Awake == [left |-> 0, epoch |-> 0]
Tripped == failures >= Threshold
Waiting == {c \in Calls : at[c] = "wait"}
GoTo(c, where) == at' = [at EXCEPT ![c] = where]

Init ==
    /\ shared \in BOOLEAN
    /\ at = [c \in Calls |-> "enter"]
    /\ tries = [c \in Calls |-> 0] /\ blanks = [c \in Calls |-> 0]
    /\ paymentRetried = {}
    /\ wait = [c \in Calls |-> Awake]
    /\ clock = [c \in Calls |-> None] /\ expired = {}
    /\ failures = 0 /\ rung = 0 /\ epoch = 0 /\ successEpoch = -1
    /\ billed = 0 /\ beyond = [c \in Calls |-> 0]
    /\ resetUnder = {} /\ proven = TRUE /\ outages = 0 /\ waits = 0

-----------------------------------------------------------------------------
(* The retry clock *)

SameClock(c) == IF shared THEN Calls ELSE {c}

\* startRetryClock: at the first failure.
Started(c) == [d \in Calls |-> IF d \in SameClock(c) /\ clock[d] = None
                               THEN Window ELSE clock[d]]

\* retryWindowClosed
Closed(c) == clock[c] # None /\ (c \in expired \/ clock[c] = 0)

\* waitFitsClock, with so many minutes left.
Fits(c, minutes, time) ==
    IF time = None THEN TRUE ELSE c \notin expired /\ minutes < time

-----------------------------------------------------------------------------
(* The circuit breaker *)

\* recordServiceSuccess
RecordSuccess ==
    /\ failures' = 0 /\ rung' = 0 /\ successEpoch' = epoch
    /\ proven' = TRUE /\ outages' = 0 /\ waits' = 0
    /\ UNCHANGED <<epoch, resetUnder>>

\* Mutation of Reset: the verdict leaves the breaker tripped.
NoReset == UNCHANGED health

\* Half-open: the next call makes one real attempt.
Reset ==
    /\ failures' = 0 /\ rung' = 0 /\ epoch' = epoch + 1
    /\ UNCHANGED successEpoch

\* checkServiceHealthOrWait, of call c with f failures counted and its clock at
\* time: not tripped; the ladder exhausted; a wait that does not fit; a wait.
\* seen: the outages of the streak.
CheckHealth(c, f, time, seen) ==
    \/ /\ f < Threshold
       /\ GoTo(c, IF Closed(c) THEN "closed" ELSE "request")
       /\ failures' = f
       /\ outages' = seen
       /\ UNCHANGED <<rung, epoch, successEpoch, expired, wait, resetUnder,
                      proven, waits>>
    \/ /\ f >= Threshold /\ rung >= Len(Rungs)
       /\ GoTo(c, "aborted")
       /\ Reset
       /\ resetUnder' = resetUnder \cup Waiting /\ proven' = FALSE
       /\ outages' = 0 /\ waits' = 0
       /\ UNCHANGED <<expired, wait>>
    \/ /\ f >= Threshold /\ rung < Len(Rungs) /\ ~Fits(c, Rungs[rung + 1], time)
       /\ GoTo(c, "closed")
       /\ expired' = expired \cup SameClock(c)
       /\ failures' = f /\ outages' = seen
       /\ UNCHANGED <<rung, epoch, successEpoch, wait, resetUnder, proven, waits>>
    \/ /\ f >= Threshold /\ rung < Len(Rungs) /\ Fits(c, Rungs[rung + 1], time)
       /\ GoTo(c, "wait")
       /\ wait' = [wait EXCEPT ![c] = [left |-> Rungs[rung + 1], epoch |-> epoch]]
       /\ rung' = rung + 1   \* claimed before the wait
       /\ failures' = f /\ outages' = seen
       /\ waits' = waits + 1 /\ resetUnder' = resetUnder \ {c}
       /\ UNCHANGED <<epoch, successEpoch, expired, proven>>

\* Mutation of Stale: a call that wakes goes on.
NeverStale(c) == FALSE

\* The breaker was reset under this call, and no success healed it since, or it
\* has tripped again.
Stale(c) == wait[c].epoch # epoch /\ (successEpoch # epoch \/ Tripped)

\* Mutation of StillOpen: the window is not looked at after the wait.
AlwaysOpen(c) == TRUE

StillOpen(c) == ~Closed(c)

Wake(c) ==
    /\ at[c] = "wait" /\ wait[c].left = 0
    /\ GoTo(c, IF Stale(c) THEN "aborted"
               ELSE IF StillOpen(c) THEN "request" ELSE "closed")
    /\ wait' = [wait EXCEPT ![c] = Awake]
    /\ UNCHANGED <<shared, callVars, clocks, failures, rung, epoch, successEpoch,
                   money, history>>

-----------------------------------------------------------------------------
(* A call *)

Enter(c) ==
    /\ at[c] = "enter"
    /\ CheckHealth(c, failures, clock[c], outages)
    /\ UNCHANGED <<shared, callVars, clock, money>>

\* Content: an answer, one cut off at its length, one that was filtered.
Answer(c) ==
    /\ at[c] = "request"
    /\ RecordSuccess
    /\ GoTo(c, "ok")
    /\ UNCHANGED <<shared, callVars, wait, clocks, money>>

\* A reply that forces a retry: one is left and fits the window, or the reply
\* is returned with a label.
RetryReply(c, left, where) ==
    /\ clock' = IF left THEN Started(c) ELSE clock
    /\ GoTo(c, IF left /\ Fits(c, 0, clock'[c]) THEN where ELSE "labelled")
    /\ expired' = IF left /\ ~Fits(c, 0, clock'[c]) THEN expired \cup SameClock(c)
                                                    ELSE expired

\* A finish reason that is none, with some content.
Glitch(c) ==
    /\ at[c] = "request"
    /\ RecordSuccess
    /\ tries' = [tries EXCEPT ![c] = @ + 1]
    /\ RetryReply(c, tries[c] < MaxRetries, "request")
    /\ UNCHANGED <<shared, blanks, paymentRetried, wait, money>>

\* Mutation of OverBudget: the budget is one of the call, not of the run.
OverOwnBudget(c) == blanks[c] >= PaidBudget

\* The empty reply that is counted now is one too many for the run.
OverBudget(c) == billed >= PaidBudget

\* An empty reply of a paid model: retried, unless the budget of the run is
\* spent or reasoning was off and used the whole output budget all the same.
Blank(c) ==
    /\ at[c] = "request"
    /\ RecordSuccess
    /\ blanks' = [blanks EXCEPT ![c] = @ + 1]
    /\ billed' = billed + 1
    /\ beyond' = [beyond EXCEPT ![c] = IF billed >= PaidBudget THEN @ + 1 ELSE @]
    /\ IF OverBudget(c) THEN GoTo(c, "labelled") /\ UNCHANGED clocks
       ELSE \/ RetryReply(c, blanks[c] < MaxBlanks, "pause")
            \/ /\ blanks[c] > 0
               /\ RetryReply(c, blanks[c] < MaxBlanks, "labelled")
    /\ UNCHANGED <<shared, tries, paymentRetried, wait>>

Resume(c) ==
    /\ at[c] = "pause"
    /\ GoTo(c, IF Closed(c) THEN "labelled" ELSE "request")
    /\ UNCHANGED <<shared, callVars, wait, clocks, health, money, history>>

\* The kinds of error: which count for the breaker, which are tried again.
\*   outage   408, 429, 5xx, transport     badRequest  400
\*   fatal    402, 403, 404, 410, 401, a refusal, TLS, a stop
\*   spent    a daily quota, the retries of one request used up
\*   retryAt  a Retry-After beyond the window
Errors == {"outage", "badRequest", "fatal", "spent", "retryAt"}
Counted == {"outage", "spent", "retryAt"}
Retried == {"outage", "badRequest"}

Error(c) ==
    /\ at[c] = "request"
    /\ \E e \in Errors :
          LET counted == IF e \in Counted THEN 1 ELSE 0
              f == failures + counted
              seen == outages + counted
          IN /\ tries' = [tries EXCEPT ![c] = @ + 1]
             /\ clock' = Started(c)
             /\ IF e \in Retried /\ tries[c] < MaxRetries /\ ~Closed(c)
                  THEN CheckHealth(c, f, clock'[c], seen)
                  ELSE /\ GoTo(c, IF e # "fatal" /\ (e = "retryAt" \/ Closed(c))
                                  THEN "closed" ELSE "failed")
                       /\ failures' = f /\ outages' = seen
                       /\ UNCHANGED <<rung, epoch, successEpoch, expired, wait,
                                      resetUnder, proven, waits>>
    /\ UNCHANGED <<shared, blanks, paymentRetried, money>>

\* A payment error that is not certain: one more attempt, at once.
PaymentError(c) ==
    /\ at[c] = "request"
    /\ tries' = [tries EXCEPT ![c] = @ + 1]
    /\ clock' = Started(c)
    /\ paymentRetried' = paymentRetried \cup {c}
    /\ GoTo(c, IF c \in paymentRetried \/ Closed(c) THEN "failed" ELSE "request")
    /\ UNCHANGED <<shared, blanks, wait, expired, health, money, history>>

\* A minute passes; no timer is late by more.
Minute ==
    /\ \A c \in Waiting : wait[c].left > 0
    /\ wait' = [c \in Calls |-> IF c \in Waiting THEN [wait[c] EXCEPT !.left = @ - 1]
                                ELSE wait[c]]
    /\ clock' = [c \in Calls |-> IF clock[c] \in {None, 0} THEN clock[c]
                                 ELSE clock[c] - 1]
    /\ UNCHANGED <<shared, at, callVars, expired, health, money, history>>

Step(c) == \/ Enter(c) \/ Wake(c) \/ Answer(c) \/ Glitch(c) \/ Blank(c)
           \/ Resume(c) \/ Error(c) \/ PaymentError(c)

Next == (\E c \in Calls : Step(c)) \/ Minute

Spec == Init /\ [][Next]_vars

-----------------------------------------------------------------------------

\* The types, and that only a call in a wait has minutes left.
TypeOK ==
    /\ shared \in BOOLEAN
    /\ at \in [Calls -> {"enter", "wait", "request", "pause", "ok", "labelled",
                         "aborted", "closed", "failed"}]
    /\ tries \in [Calls -> 0..(MaxRetries + 3)]
    /\ blanks \in [Calls -> 0..(MaxBlanks + 1)]
    /\ paymentRetried \subseteq Calls /\ expired \subseteq Calls
    /\ \A c \in Calls : wait[c].left \in Nat /\ wait[c].epoch \in Nat
    /\ clock \in [Calls -> 0..Window \cup {None}]
    /\ failures \in Nat /\ rung \in 0..Len(Rungs)
    /\ epoch \in Nat /\ successEpoch \in -1..epoch
    /\ billed \in Nat
    /\ shared => \A c, d \in Calls : clock[c] = clock[d]
    /\ \A c \in Calls \ Waiting : wait[c] = Awake

\* The half-open contract: a call that was waiting when the breaker was reset
\* makes no attempt, unless a request has succeeded since and the breaker has
\* not tripped again.
SleepersAbort ==
    [][\A c \in resetUnder :
           at[c] = "wait" /\ at'[c] = "request" => proven /\ ~Tripped]_vars

\* "SERVER ISSUE DETECTED" is earned: the failures since the last success or
\* the last verdict trip the breaker (no livelock of instant aborts) and every
\* wait of the ladder was made in this streak (no ladder advanced by the
\* sleepers of an earlier one).
VerdictIsEarned ==
    [][\A c \in Calls \ Waiting :
           at'[c] = "aborted" /\ at[c] # "aborted"
           => /\ outages + (IF at[c] = "request" THEN 1 ELSE 0) >= Threshold
              /\ waits = Len(Rungs)]_vars

\* A retry window that is closed, by time or by a wait refused to another call
\* of the dispatch, stays closed: no call starts another attempt.
WindowStaysClosed ==
    [][\A c \in Calls :
           at'[c] = "request" /\ (at[c] # "request" \/ tries'[c] # tries[c])
           => ~Closed(c)']_vars

\* Once the run has paid for its empty replies, a call pays for at most one.
OneBilledBeyond == \A c \in Calls : beyond[c] <= 1
=============================================================================
