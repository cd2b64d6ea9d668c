---------------------------- MODULE Maintenance ----------------------------
(***************************************************************************)
(* What keeps the models of a profile in order: the calibration runner,    *)
(* the update of a profile, and the walk over a profile's chain that       *)
(* decides whether a failure calls for an update.  Each has variables of   *)
(* its own; what is promised of each is named here.                        *)
(***************************************************************************)
EXTENDS CalibrationRunner, Sequences

CONSTANTS
    Commands, Respawn, Backoff, MaxTime, MaxPlain, UpdateCrashes,
    Profiles, ProfileModels, Chains, RoutesOf, Home, NoKey, Local, Refusals

VARIABLES
    now, at, base, role, heldSeen, child, marker, lastBench, lastMaint,
    lastFail, plains, crashes, unbooked, late,
    world, next, failed, dead, outcome

Update == INSTANCE ProfileUpdate WITH MaxCrashes <- UpdateCrashes, owed <- late

Walk == INSTANCE FallbackWalk WITH Models <- ProfileModels

\* None is no runner and no entry of a queue; the limits are whole numbers.
ASSUME CalibrationAssumption ==
    /\ None \notin Runners \cup {"plain", "force"}
    /\ {LastPhase, MaxCrashes, MaxWaits} \subseteq Nat

\* None is no answer, command or child; the throttle is a whole number of ticks.
ASSUME UpdateAssumption ==
    /\ None \notin {"started", "running"} \cup Commands \cup Update!Children(Int)
    /\ Respawn \in Nat

\* A chain has a head, what serves a model is a sequence of groups, and a group
\* refuses with a status other than those of a key.
ASSUME WalkAssumption ==
    /\ Refusals \subseteq {"400", "403", "404", "410", "413", "429", "5xx"}
    /\ Chains \subseteq Seq(ProfileModels) \ {<<>>}
    /\ \A m \in ProfileModels : RoutesOf[m] \in Seq(Walk!Range(RoutesOf[m]))

-----------------------------------------------------------------------------

\* Commands that asked for the update: who started it hears its outcome, and a
\* request left behind is honoured.
StarterHearsOutcome == Update!StarterHearsOutcome
RequestHonoured == Update!RequestHonoured

\* The walk misses no entry that works but of a model that another group
\* refused, and its verdict fits what is wrong.
WalkIsThorough == Walk!WalkIsThorough
VerdictFits == Walk!VerdictFits
=============================================================================
