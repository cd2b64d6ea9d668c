------------------------------ MODULE Brokers ------------------------------
(***************************************************************************)
(* A broker, and how commands find or start one: Broker is what one broker *)
(* does, BrokerSpawn how there comes to be one.  They share no variables.  *)
(***************************************************************************)
EXTENDS Broker

CONSTANTS Clients, VersionOf, Versions, Nobody, MaxBrokers, MaxMishaps

VARIABLES at, saw, before, lock, file, process, version, told, mishaps

Spawn == INSTANCE BrokerSpawn WITH state <- process, draining <- told

ASSUME SpawnAssumption == MaxBrokers \in Nat \ {0} /\ Nobody \notin Clients

-----------------------------------------------------------------------------

\* One broker takes jobs, whatever commands look for one of their version.
OneOpenBroker == Spawn!OneOpenBroker
=============================================================================
