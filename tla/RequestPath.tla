---------------------------- MODULE RequestPath ----------------------------
(***************************************************************************)
(* Four structures that the calls of a command and the processes of a      *)
(* configuration directory share: the registry of the servers, the round   *)
(* robin of the broker's queue, the breaker with the retry loops under it, *)
(* and the rotation of a call over a free pool.  Each has variables of its *)
(* own; what is promised of each is named here.                            *)
(***************************************************************************)
EXTENDS ServerRegistry, CommandQueue

CONSTANTS Calls, None, Threshold, Rungs, Window, MaxRetries, MaxBlanks, PaidBudget,
          Slots, Primary, Fallbacks, NoModel

VARIABLES
    shared, calls, tries, blanks, paymentRetried, wait, clock, expired,
    failures, rung, epoch, successEpoch, billed, resetUnder, proven,
    outages, waits, beyond,
    queue, passed, gone,
    order, nextFallback, cooling, windowClosed, slot, probe, tried

Retry == INSTANCE RetryLoop WITH at <- calls

Ring == INSTANCE CommandRing

Rotation == INSTANCE FreeRotation WITH at <- slot

\* The numbers of the configuration are whole ones, and no model is in a pool
\* twice.
ASSUME PathAssumption ==
    /\ Threshold \in Nat \ {0} /\ Window \in Nat \ {0}
    /\ Rungs \in Seq(Nat)
    /\ MaxRetries \in Nat /\ MaxBlanks \in Nat /\ PaidBudget \in Nat
    /\ None \notin Int
    /\ Rotation!Distinct

-----------------------------------------------------------------------------

\* The breaker: who waited through a reset makes no attempt, and the verdict
\* that the server is at fault is earned.
SleepersAbort == Retry!SleepersAbort
VerdictIsEarned == Retry!VerdictIsEarned

\* The retry window that is closed stays closed.
WindowStaysClosed == Retry!WindowStaysClosed

\* The budget for billed empty replies.
OneBilledBeyond == Retry!OneBilledBeyond

\* The queue: each command served in its turn.
BoundedBypass == Ring!BoundedBypass

\* The rotation: no model twice, and none missed.
RotationCovers == Rotation!RotationCovers
=============================================================================
