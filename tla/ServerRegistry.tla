--------------------------- MODULE ServerRegistry ---------------------------
(***************************************************************************)
(* The server-count safeguard (broker/registry.ts) under the brokers and   *)
(* calibration runners of one config directory: several of them may run at *)
(* once (an old broker drains while its successor starts), any of them may *)
(* be killed between two steps, and a server process outlives its owner.   *)
(*                                                                         *)
(* An owner starts a server the way swapTo does: a broker sweeps the       *)
(* registry of every other engine, then claims the slot of its own engine; *)
(* a runner only claims.  Each sweep and each claim holds the engine's     *)
(* lock, which is taken here as the mutual exclusion withAsyncLock is      *)
(* meant to give (module AsyncLock is about that lock); the lock of a dead *)
(* holder goes stale and is taken over.                                    *)
(*                                                                         *)
(* A server is named by its owner, its engine and a number: the owner pid  *)
(* and the argv, from which registry.ts tells a reused pid apart.          *)
(***************************************************************************)
EXTENDS FiniteSets, Integers

CONSTANTS Owners,     \* the processes that own servers
          RoleOf,     \* "main" for a broker, "cal" for a calibration runner
          Engines,    \* llama-server and Locals
          Numbers,    \* tells the servers of one owner apart
          MaxBrokers, \* how many brokers may be up at once
          Nobody      \* no owner, no server

Servers == [owner : Owners, engine : Engines, n : Numbers]

ASSUME RegistryAssumption ==
    /\ RoleOf \in [Owners -> {"main", "cal"}]
    /\ Nobody \notin Owners \cup Servers
    /\ MaxBrokers \in Nat

VARIABLES
    at,       \* what each owner is doing
    target,   \* the engine of the server it starts
    todo,     \* the other engines it has yet to sweep
    mine,     \* the server it started or stops, or Nobody
    kept,     \* the entries its claim's sweep kept, to be written with its own
    lock,     \* the holder of each engine's registry lock, or Nobody
    entries,  \* the servers the registry files list
    alive     \* the servers that run

vars == <<at, target, todo, mine, kept, lock, entries, alive>>

Up(b) == at[b] \notin {"down", "dead"}
Brokers == {b \in Owners : RoleOf[b] = "main"}
Role(s) == RoleOf[s.owner]
AliveOn(e) == {s \in alive : s.engine = e}

\* What a sweep for role r stops: a recorded server whose owner is gone, and an
\* unrecorded one that carries the role's marker.
Orphans(e, r) ==
    {s \in AliveOn(e) : IF s \in entries THEN ~Up(s.owner) ELSE Role(s) = r}

\* Mutation of Kept: the rewritten file lists the swept role only.
KeptOfRole(e, r) ==
    {s \in entries : s.engine = e => s \in alive \ Orphans(e, r) /\ Role(s) = r}

\* The registry once a sweep of e dropped the dead entries and its orphans.
Kept(e, r) == {s \in entries : s.engine = e => s \in alive \ Orphans(e, r)}

Holders(e, r) == {s \in Kept(e, r) : s.engine = e /\ Role(s) = r}

\* The engine whose registry b holds the lock of, to sweep it.
Swept(b) == CHOOSE e \in Engines : lock[e] = b

Init ==
    /\ at = [b \in Owners |-> "down"]
    /\ target \in [Owners -> Engines]
    /\ todo = [b \in Owners |-> {}]
    /\ mine = [b \in Owners |-> Nobody]
    /\ kept = [b \in Owners |-> {}]
    /\ lock = [e \in Engines |-> Nobody]
    /\ entries = {}
    /\ alive = {}

GoTo(b, where) == at' = [at EXCEPT ![b] = where]
Lock(b, e) == lock[e] = Nobody /\ lock' = [lock EXCEPT ![e] = b]
Unlock(e) == lock' = [lock EXCEPT ![e] = Nobody]

Start(b) ==
    /\ at[b] = "down"
    /\ RoleOf[b] = "main" => Cardinality({o \in Brokers : Up(o)}) < MaxBrokers
    /\ GoTo(b, "idle")
    /\ UNCHANGED <<target, todo, mine, kept, lock, entries, alive>>

\* A broker sweeps the other engines first; a runner does not.
Elsewhere(b, e) == IF RoleOf[b] = "main" THEN Engines \ {e} ELSE {}

Begin(b, e) ==
    /\ at[b] = "idle"
    /\ target' = [target EXCEPT ![b] = e]
    /\ todo' = [todo EXCEPT ![b] = Elsewhere(b, e)]
    /\ GoTo(b, IF Elsewhere(b, e) = {} THEN "claim" ELSE "other")
    /\ UNCHANGED <<mine, kept, lock, entries, alive>>

LockOther(b) ==
    /\ at[b] = "other"
    /\ \E e \in todo[b] : Lock(b, e)
    /\ GoTo(b, "sweeping")
    /\ UNCHANGED <<target, todo, mine, kept, entries, alive>>

LockOwn(b) ==
    /\ at[b] = "claim"
    /\ Lock(b, target[b])
    /\ GoTo(b, "claiming")
    /\ UNCHANGED <<target, todo, mine, kept, entries, alive>>

\* stopProcessGroup of one orphan, whichever loop of the sweep finds it.
SweepKill(b) ==
    /\ at[b] \in {"sweeping", "claiming"}
    /\ \E s \in Orphans(Swept(b), RoleOf[b]) : alive' = alive \ {s}
    /\ UNCHANGED <<at, target, todo, mine, kept, lock, entries>>

\* An orphan that does not die: the sweep throws, and so does the start.
SweepFails(b) ==
    /\ at[b] \in {"sweeping", "claiming"}
    /\ Orphans(Swept(b), RoleOf[b]) # {}
    /\ Unlock(Swept(b))
    /\ GoTo(b, "idle")
    /\ UNCHANGED <<target, todo, mine, kept, entries, alive>>

SweepEnds(b) ==
    /\ Orphans(Swept(b), RoleOf[b]) = {}
    /\ entries' = Kept(Swept(b), RoleOf[b])

\* The other engine runs no main: on to the next engine, or to the claim.
OtherFree(b) ==
    /\ at[b] = "sweeping"
    /\ SweepEnds(b)
    /\ Holders(Swept(b), RoleOf[b]) = {}
    /\ Unlock(Swept(b))
    /\ todo' = [todo EXCEPT ![b] = @ \ {Swept(b)}]
    /\ GoTo(b, IF todo[b] = {Swept(b)} THEN "claim" ELSE "other")
    /\ UNCHANGED <<target, mine, kept, alive>>

\* Another broker's main runs there: the start waits for it (SlotBusyError).
OtherBusy(b) ==
    /\ at[b] = "sweeping"
    /\ SweepEnds(b)
    /\ \E s \in Holders(Swept(b), RoleOf[b]) : s.owner # b
    /\ Unlock(Swept(b))
    /\ GoTo(b, "idle")
    /\ UNCHANGED <<target, todo, mine, kept, alive>>

\* This broker's own main still runs there (an earlier stop failed): stop it.
OwnLeftover(b) ==
    /\ at[b] = "sweeping"
    /\ SweepEnds(b)
    /\ \E s \in Holders(Swept(b), RoleOf[b]) :
         s.owner = b /\ mine' = [mine EXCEPT ![b] = s]
    /\ Unlock(Swept(b))
    /\ GoTo(b, "leftover")
    /\ UNCHANGED <<target, todo, kept, alive>>

-----------------------------------------------------------------------------
(* claimAndSpawn, with the lock of the engine held *)

\* The slot is taken, by another owner or by this one's own leftover.
ClaimBusy(b) ==
    /\ at[b] = "claiming"
    /\ SweepEnds(b)
    /\ Holders(target[b], RoleOf[b]) # {}
    /\ Unlock(target[b])
    /\ GoTo(b, "idle")
    /\ UNCHANGED <<target, todo, mine, kept, alive>>

\* Mutation of SlotFree: the slot's holder is not looked for.
NoHolderCheck(b) == Orphans(target[b], RoleOf[b]) = {}

SlotFree(b) ==
    /\ Orphans(target[b], RoleOf[b]) = {}
    /\ Holders(target[b], RoleOf[b]) = {}

ClaimFree(b) ==
    /\ at[b] = "claiming"
    /\ SlotFree(b)
    /\ kept' = [kept EXCEPT ![b] = {s \in Kept(target[b], RoleOf[b]) :
                                    s.engine = target[b]}]
    /\ GoTo(b, "free")
    /\ UNCHANGED <<target, todo, mine, lock, entries, alive>>

SpawnFails(b) ==
    /\ at[b] = "free"
    /\ kept' = [kept EXCEPT ![b] = {}]
    /\ Unlock(target[b])
    /\ GoTo(b, "idle")
    /\ UNCHANGED <<target, todo, mine, entries, alive>>

Spawn(b) ==
    /\ at[b] = "free"
    /\ \E n \in Numbers :
         LET s == [owner |-> b, engine |-> target[b], n |-> n] IN
         /\ s \notin alive \cup entries
         /\ alive' = alive \cup {s}
         /\ mine' = [mine EXCEPT ![b] = s]
    /\ GoTo(b, "spawned")
    /\ UNCHANGED <<target, todo, kept, lock, entries>>

\* Mutation of WithMine: the file is written with the new entry alone.
MineAlone(b) == {s \in entries : s.engine # target[b]} \cup {mine[b]}

\* The entries the claim's sweep kept, and the new one.
WithMine(b) ==
    {s \in entries : s.engine # target[b]} \cup kept[b] \cup {mine[b]}

Record(b) ==
    /\ at[b] = "spawned"
    /\ entries' = WithMine(b)
    /\ kept' = [kept EXCEPT ![b] = {}]
    /\ Unlock(target[b])
    /\ GoTo(b, "serving")
    /\ UNCHANGED <<target, todo, mine, alive>>

-----------------------------------------------------------------------------
(* the end of a server *)

\* A swap, an idle stop, a start that did not become ready, a drained exit.
Stop(b) ==
    /\ at[b] = "serving"
    /\ GoTo(b, "stopping")
    /\ UNCHANGED <<target, todo, mine, kept, lock, entries, alive>>

\* stopOwnServer: stop the process group (nothing to do when it is dead) ...
StopKill(b) ==
    /\ at[b] \in {"stopping", "leftover"}
    /\ alive' = alive \ {mine[b]}
    /\ GoTo(b, IF at[b] = "stopping" THEN "release" ELSE "resume")
    /\ UNCHANGED <<target, todo, mine, kept, lock, entries>>

\* ... then drop its entry, under the lock; a broker that stopped its leftover
\* goes on with its start.
StopRelease(b) ==
    /\ at[b] \in {"release", "resume"}
    /\ lock[mine[b].engine] = Nobody
    /\ entries' = entries \ {mine[b]}
    /\ mine' = [mine EXCEPT ![b] = Nobody]
    /\ LET left == todo[b] \ {mine[b].engine} IN
       /\ todo' = [todo EXCEPT ![b] = left]
       /\ GoTo(b, IF at[b] = "release" THEN "idle"
                  ELSE IF left = {} THEN "claim" ELSE "other")
    /\ UNCHANGED <<target, kept, lock, alive>>

\* A process that survives SIGKILL, a lock wait that timed out.
StopFails(b) ==
    /\ at[b] \in {"stopping", "leftover", "release", "resume"}
    /\ mine' = [mine EXCEPT ![b] = Nobody]
    /\ GoTo(b, "idle")
    /\ UNCHANGED <<target, todo, kept, lock, entries, alive>>

\* The server ended (it crashed, or models server-stop killed it), and its
\* owner forgets it.
Forget(b) ==
    /\ at[b] = "serving" /\ mine[b] \notin alive
    /\ mine' = [mine EXCEPT ![b] = Nobody]
    /\ GoTo(b, "idle")
    /\ UNCHANGED <<target, todo, kept, lock, entries, alive>>

ServerDies(s) ==
    /\ s \in alive
    /\ alive' = alive \ {s}
    /\ UNCHANGED <<at, target, todo, mine, kept, lock, entries>>

\* The release of a dead server by whoever saw it dead.
ReleaseDead(s) ==
    /\ s \in entries \ alive
    /\ lock[s.engine] = Nobody
    /\ entries' = entries \ {s}
    /\ UNCHANGED <<at, target, todo, mine, kept, lock, alive>>

\* The sweep for dead runners' servers that every broker's tick runs.
CalSweep(b, e) ==
    /\ b \in Brokers /\ Up(b)
    /\ lock[e] = Nobody
    /\ alive' = alive \ Orphans(e, "cal")
    /\ entries' = Kept(e, "cal")
    /\ UNCHANGED <<at, target, todo, mine, kept, lock>>

\* An owner is killed; what it holds stays as it is.
Crash(b) ==
    /\ Up(b)
    /\ GoTo(b, "dead")
    /\ mine' = [mine EXCEPT ![b] = Nobody]
    /\ todo' = [todo EXCEPT ![b] = {}]
    /\ kept' = [kept EXCEPT ![b] = {}]
    /\ UNCHANGED <<target, lock, entries, alive>>

\* The lock of a dead holder is no longer refreshed.
Stale(e) == lock[e] # Nobody /\ ~Up(lock[e])

\* A waiter takes a stale lock over.
LockStale(e) ==
    /\ Stale(e)
    /\ Unlock(e)
    /\ UNCHANGED <<at, target, todo, mine, kept, entries, alive>>

Next ==
    \/ \E b \in Owners :
         \/ Start(b) \/ LockOther(b) \/ LockOwn(b) \/ SweepKill(b)
         \/ SweepFails(b) \/ OtherFree(b) \/ OtherBusy(b) \/ OwnLeftover(b)
         \/ ClaimBusy(b) \/ ClaimFree(b) \/ SpawnFails(b) \/ Spawn(b)
         \/ Record(b) \/ Stop(b) \/ StopKill(b) \/ StopRelease(b)
         \/ StopFails(b) \/ Forget(b) \/ Crash(b)
         \/ \E e \in Engines : Begin(b, e) \/ CalSweep(b, e)
    \/ \E s \in Servers : ServerDies(s) \/ ReleaseDead(s)
    \/ \E e \in Engines : LockStale(e)

Spec == Init /\ [][Next]_vars

-----------------------------------------------------------------------------

Places == {"down", "idle", "other", "sweeping", "leftover", "resume", "claim",
           "claiming", "free", "spawned", "serving", "stopping", "release",
           "dead"}

\* The types, and that a lock protects what its holder is doing.
TypeOK ==
    /\ at \in [Owners -> Places]
    /\ target \in [Owners -> Engines]
    /\ todo \in [Owners -> SUBSET Engines]
    /\ mine \in [Owners -> Servers \cup {Nobody}]
    /\ kept \in [Owners -> SUBSET Servers]
    /\ lock \in [Engines -> Owners \cup {Nobody}]
    /\ entries \subseteq Servers
    /\ alive \subseteq Servers
    /\ \A b \in Owners :
         /\ at[b] = "sweeping" => \E e \in Engines : lock[e] = b
         /\ at[b] \in {"claiming", "free", "spawned"} => lock[target[b]] = b

\* "At most one main and one calibration server run per engine", counting the
\* orphans of killed owners and the servers no registry lists.
OnePerSlot ==
    \A s, t \in alive : s.engine = t.engine /\ Role(s) = Role(t) => s = t

\* A sweep never stops a server whose owner is up, not even one that was
\* spawned but is not recorded yet.
OnlyOrphansSwept ==
    \A b \in Owners : at[b] \in {"sweeping", "claiming"} =>
        \A s \in Orphans(Swept(b), RoleOf[b]) : ~Up(s.owner)

\* A server that runs for an owner that is up is in its registry, so every
\* other process sees it, however many sweeps rewrote the file meanwhile.
LiveServersRecorded ==
    \A s \in alive : Up(s.owner) => s \in entries \/ at[s.owner] = "spawned"

\* One local model at a time across engines: no two mains run side by side.
OneLocalModel ==
    \A s, t \in alive : Role(s) = "main" /\ Role(t) = "main" => s = t
=============================================================================
