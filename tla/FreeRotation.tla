---------------------------- MODULE FreeRotation ----------------------------
(***************************************************************************)
(* One ensemble call in free mode: callWithFreeRotation (free-rotation.ts) *)
(* in each slot, with the fallbacks the slots share (ensembleStreaming and *)
(* callEnsembleSlotWithRotation of index.ts), under the cooldowns that     *)
(* every dispatch, of this process and of others, records.  A call without *)
(* an ensemble is one slot.                                                *)
(*                                                                         *)
(* The cooldowns are a set: how long each lasts, and the file it is kept   *)
(* in, only make it change at any time.  Two slots start one after the     *)
(* other and a failed one goes on at once: nothing runs in between.        *)
(***************************************************************************)
EXTENDS Naturals, Sequences, Functions

CONSTANTS
    Slots,      \* the slots of the ensemble
    Primary,    \* [Slots -> the model a slot starts with], each its own
    Fallbacks,  \* the other models of the pool, in the order of preference
    NoModel

VARIABLES
    order,         \* the fallbacks as this call will try them
    nextFallback,  \* how many the slots have claimed
    cooling,       \* the models with a cooldown in force
    windowClosed,  \* the retry clock of the dispatch
    at,            \* [Slots -> "start", "calling", or how the slot ended]
    probe,         \* [Slots -> the cooling primary that was set aside]
    tried          \* [Slots -> Seq(models)]

vars == <<order, nextFallback, cooling, windowClosed, at, probe, tried>>

Models == Range(Primary) \cup Range(Fallbacks)

\* orderByAvailability: those that cool, or were found dead in this run, go last,
\* by the end of their cooldowns.
Orders(S) ==
    {q \in [DOMAIN Fallbacks -> Range(Fallbacks)] :
       /\ Range(q) = Range(Fallbacks) /\ IsInjective(q)
       /\ \A i, j \in DOMAIN q : i < j =>
            /\ q[i] \in S => q[j] \in S
            /\ {q[i], q[j]} \cap S = {} =>
                 \E a, b \in DOMAIN Fallbacks :
                    a < b /\ Fallbacks[a] = q[i] /\ Fallbacks[b] = q[j]}

Init ==
    /\ cooling \in SUBSET Models
    /\ \E found \in SUBSET Range(Fallbacks) : order \in Orders(cooling \cup found)
    /\ nextFallback = 0 /\ windowClosed = FALSE
    /\ at = [s \in Slots |-> "start"]
    /\ probe = [s \in Slots |-> NoModel]
    /\ tried = [s \in Slots |-> <<>>]

-----------------------------------------------------------------------------
(* The loop of one slot, from one call to the next.                        *)

End(s, how) == /\ at' = [at EXCEPT ![s] = how]
               /\ UNCHANGED <<nextFallback, probe, tried>>

Call(s, m) == /\ at' = [at EXCEPT ![s] = "calling"]
              /\ tried' = [tried EXCEPT ![s] = Append(@, m)]

\* claimFallback: the slots share one counter.
\* Mutation of Claimed: each slot walks the list by itself.
OwnCursor(s) == Len(SelectSeq(tried[s], LAMBDA m : m \in Range(order)))
Claimed(s) == nextFallback

\* The next model of slot s: a fallback, or the primary that was set aside.
GoOn(s, aside) ==
    IF windowClosed THEN End(s, "out of time")
    ELSE IF Claimed(s) < Len(order)
    THEN /\ Call(s, order[Claimed(s) + 1])
         /\ nextFallback' = nextFallback + 1 /\ probe' = [probe EXCEPT ![s] = aside]
    ELSE IF aside # NoModel
    THEN Call(s, aside) /\ probe' = [probe EXCEPT ![s] = NoModel]
                        /\ UNCHANGED nextFallback
    ELSE End(s, "exhausted")

\* A primary that cools is set aside, if there is somewhere else to go.
Start(s) ==
    /\ at[s] = "start"
    /\ IF Primary[s] \in cooling /\ order # <<>> THEN GoOn(s, Primary[s])
       ELSE IF windowClosed THEN End(s, "out of time")
       ELSE Call(s, Primary[s]) /\ UNCHANGED <<nextFallback, probe>>
    /\ UNCHANGED <<order, cooling, windowClosed>>

-----------------------------------------------------------------------------
(* What a call comes to.                                                   *)

Current(s) == tried[s][Len(tried[s])]

Answered(s) ==
    /\ at[s] = "calling"
    /\ cooling' = cooling \ {Current(s)} /\ End(s, "answered")
    /\ UNCHANGED <<order, windowClosed>>

\* Rate limited, over its quota or gone: a cooldown.  Unpaid for: none.
Unavailable(s) ==
    /\ at[s] = "calling"
    /\ cooling' \in {cooling, cooling \cup {Current(s)}}
    /\ GoOn(s, probe[s])
    /\ UNCHANGED <<order, windowClosed>>

\* An error of the request, thrown or returned: no other model is asked.
Defect(s) ==
    /\ at[s] = "calling" /\ End(s, "defect")
    /\ UNCHANGED <<order, cooling, windowClosed>>

\* The window closed under the call: rethrown before anything is recorded.
OutOfTime(s) ==
    /\ at[s] = "calling" /\ windowClosed /\ End(s, "out of time")
    /\ UNCHANGED <<order, cooling, windowClosed>>

WindowCloses ==
    /\ ~windowClosed /\ windowClosed' = TRUE
    /\ UNCHANGED <<order, nextFallback, cooling, at, probe, tried>>

\* A cooldown ends, or another dispatch records or clears one.
Elsewhere(m) ==
    /\ cooling' = IF m \in cooling THEN cooling \ {m} ELSE cooling \cup {m}
    /\ UNCHANGED <<order, nextFallback, windowClosed, at, probe, tried>>

Next ==
    \/ \E s \in Slots : \/ Start(s) \/ Answered(s) \/ Unavailable(s)
                        \/ Defect(s) \/ OutOfTime(s)
    \/ WindowCloses \/ \E m \in Models : Elsewhere(m)

Spec == Init /\ [][Next]_vars

-----------------------------------------------------------------------------

\* No model is listed twice: ensembleStreaming leaves the primaries out of the
\* list of fallbacks.
Distinct ==
    /\ Primary \in [Slots -> Range(Primary)] /\ IsInjective(Primary)
    /\ Fallbacks \in Seq(Range(Fallbacks)) /\ IsInjective(Fallbacks)
    /\ Range(Primary) \cap Range(Fallbacks) = {}
    /\ NoModel \notin Models

\* "Two slots can never grab the same fallback", and no model is asked twice;
\* and "a wrong cooldown may reorder attempts, never remove a model": a slot
\* reports the pool exhausted only when its own primary was asked, and every
\* fallback by one slot or another, whatever cooled in between.
RotationCovers ==
    /\ \A s, t \in Slots : \A i \in DOMAIN tried[s], j \in DOMAIN tried[t] :
         tried[s][i] = tried[t][j] => s = t /\ i = j
    /\ \A s \in Slots : at[s] = "exhausted" =>
         /\ Primary[s] \in Range(tried[s])
         /\ Range(Fallbacks) \subseteq UNION {Range(tried[t]) : t \in Slots}
=============================================================================
