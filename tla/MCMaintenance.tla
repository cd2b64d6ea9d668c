--------------------------- MODULE MCMaintenance ---------------------------
(***************************************************************************)
(* The pieces of Maintenance, each alone: part says which one a behaviour  *)
(* is about, and the others stay as they are.                              *)
(***************************************************************************)
EXTENDS Maintenance, TLC

CONSTANTS r1, r2, m1, c1, c2, n1, n2, n3, u1, u2, key1, key2, key3

VARIABLE part

updateVars == <<now, at, base, role, heldSeen, child, marker, lastBench,
                lastMaint, lastFail, plains, crashes, unbooked, late>>
walkVars == <<world, next, failed, dead, outcome>>

\* Two versions of llm-ext are installed.
TwoVersions == r1 :> 1 @@ r2 :> 2

\* n1 is served by one provider under two keys, n2 by two providers, n3 by the
\* profile's own URL, where the local broker answers.
Group(u, k) == [url |-> u, key |-> k]
MCChains == {<<n1, n2>>, <<n2, n3>>, <<n3, n1>>}
MCRoutesOf == n1 :> <<Group(u1, key1), Group(u1, key2)>>
              @@ n2 :> <<Group(u1, key1), Group(u2, key3)>> @@ n3 :> <<>>

AnyInit ==
    /\ part \in {"calibration", "update", "walk"}
    /\ Init /\ Update!Init
    /\ IF part = "walk" THEN Walk!Init
       ELSE /\ world = <<>> /\ next = 0 /\ failed = <<>> /\ dead = <<>>
               /\ outcome = "none"

AnyNext ==
    /\ \/ part = "calibration" /\ Next
       \/ part # "calibration" /\ UNCHANGED vars
    /\ \/ part = "update" /\ Update!Next
       \/ part # "update" /\ UNCHANGED updateVars
    /\ \/ part = "walk" /\ Walk!Next
       \/ part # "walk" /\ UNCHANGED walkVars
    /\ UNCHANGED part

\* Nothing is queued in the behaviours about the update, and no runner steps.
all == <<part, vars, updateVars, walkVars>>
AnySpec == AnyInit /\ [][AnyNext]_all /\ Fairness
=============================================================================
