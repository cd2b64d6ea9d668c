------------------------------ MODULE MCBroker ------------------------------
(***************************************************************************)
(* A broker, and how commands find or start one, each alone: part says     *)
(* which one a behaviour is about.                                         *)
(***************************************************************************)
EXTENDS Brokers, TLC

CONSTANTS a1, a2, b1, m1, m2, k1, k2

VARIABLE part

spawnVars == <<at, saw, before, lock, file, process, version, told, mishaps>>

\* Two jobs for the first model, one for the other.
MCModelOf == [j \in Jobs |-> IF j = b1 THEN m2 ELSE m1]

\* Two commands of one version of llm-ext, and a broker of another.
MCVersionOf == k1 :> 1 @@ k2 :> 1

JobSymmetry == Permutations(Jobs \cap {a1, a2}) \cup Permutations({k1, k2})

AnyInit == /\ part \in {"broker", "spawn"}
           /\ Init /\ Spawn!Init
           /\ CASE part = "broker" -> file = 0
                [] OTHER -> record = [m \in Models |-> "missing"]

AnyNext == /\ \/ part = "broker" /\ Next /\ UNCHANGED spawnVars
              \/ part = "spawn" /\ Spawn!Next /\ UNCHANGED vars
           /\ UNCHANGED part

AnySpec == AnyInit /\ [][AnyNext]_<<part, vars, spawnVars>>

\* The broker only.
BrokerInit == AnyInit /\ part = "broker"
BrokerSpec == BrokerInit /\ [][AnyNext]_<<part, vars, spawnVars>>
FairBrokerSpec == BrokerSpec /\ Fairness
=============================================================================
