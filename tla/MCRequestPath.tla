--------------------------- MODULE MCRequestPath ---------------------------
(***************************************************************************)
(* The structures of RequestPath, each alone: part says which one a        *)
(* behaviour is about, and the others stay as they are.                    *)
(***************************************************************************)
EXTENDS RequestPath, MCServerRegistry

CONSTANTS q1, q2, q3, c1, c2, c3, j1, j2, j3, j4, j5, j6, s1, s2, p1, p2, f1, f2

VARIABLE part

\* Brokers are interchangeable, and so are two of the calls.
AnySymmetry == BrokerSymmetry \cup Permutations({q1, q2})

retryVars == <<shared, calls, tries, blanks, paymentRetried, wait, clock, expired,
               failures, rung, epoch, successEpoch, billed, resetUnder, proven,
               outages, waits, beyond>>
ringVars == <<queue, passed, gone>>
rotationVars == <<order, nextFallback, cooling, windowClosed, slot, probe, tried>>

\* Two calls, with attempts to spare to see more of each.
OneRung == <<2>>

\* And three: one sleeps, one resets the breaker, one heals it and trips it
\* again.  The properties are stated of the two, which are among the three.
Three == INSTANCE RetryLoop WITH
    Calls <- {q1, q2, q3}, Rungs <- <<1>>, Window <- 2, MaxRetries <- 1,
    MaxBlanks <- 0, at <- calls

\* Three commands, each with two jobs that return.
MCCommandOf == j1 :> c1 @@ j2 :> c1 @@ j3 :> c2 @@ j4 :> c2 @@ j5 :> c3 @@ j6 :> c3

\* Bound: how many commands leave the Map unserved while another one waits.
FewGone == \A c \in Commands : gone'[c] <= 1

\* Two slots and two fallbacks.
MCPrimary == s1 :> p1 @@ s2 :> p2
MCFallbacks == <<f1, f2>>

\* A part that a behaviour is not about stays where it began.
AnyInit == /\ part \in {"ring", "registry", "three", "two", "rotation"}
           /\ Ring!Init /\ Init /\ Rotation!Init
           /\ part = "registry" \/ target = [b \in Owners |-> llama]
           /\ part = "rotation" \/ (cooling = {} /\ order = Fallbacks)
           /\ IF part = "three" THEN Three!Init
              ELSE Retry!Init /\ (part = "two" \/ shared)

AnyNext ==
    /\ \/ /\ part = "ring" /\ Ring!Next /\ FewGone
          /\ UNCHANGED <<vars, retryVars, rotationVars>>
       \/ part = "registry" /\ Next /\ UNCHANGED <<ringVars, retryVars, rotationVars>>
       \/ part = "three" /\ Three!Next /\ UNCHANGED <<vars, ringVars, rotationVars>>
       \/ part = "two" /\ Retry!Next /\ UNCHANGED <<vars, ringVars, rotationVars>>
       \/ part = "rotation" /\ Rotation!Next /\ UNCHANGED <<vars, ringVars, retryVars>>
    /\ UNCHANGED part

AnySpec == AnyInit /\ [][AnyNext]_<<part, vars, ringVars, retryVars, rotationVars>>
=============================================================================
