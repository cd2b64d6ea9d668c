-------------------------- MODULE MCServerRegistry --------------------------
(* ServerRegistry on a few brokers, one calibration runner and two engines. *)
EXTENDS ServerRegistry, TLC

CONSTANTS b1, b2, b3, r1, llama, locals

MCRoleOf == [b \in Owners |-> IF b = r1 THEN "cal" ELSE "main"]

BrokerSymmetry == Permutations(Brokers)
=============================================================================
