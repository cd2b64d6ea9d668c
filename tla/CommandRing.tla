---------------------------- MODULE CommandRing ----------------------------
(***************************************************************************)
(* One server key's queue at work: commands submit jobs, cancel or abandon *)
(* them, and the broker takes the next one.  A job that left the queue may *)
(* enter again, as a fresh one: the stream of work never ends.  Two        *)
(* variables are history, about the commands that wait in the Map: how     *)
(* often another command was taken since the last turn of this one, and    *)
(* how often another one left the Map because its last job was removed.    *)
(***************************************************************************)
EXTENDS CommandQueue

VARIABLES queue,    \* the key's queue
          passed,   \* history: the takes of others while a command waited
          gone      \* history: the others that left unserved meanwhile

vars == <<queue, passed, gone>>

Waits(c) == Contains(queue.ring, c)

Init == /\ queue = EmptyQueue
        /\ passed = [c \in Commands |-> 0]
        /\ gone = [c \in Commands |-> 0]

Submit(j) ==
    /\ j \notin Queued(queue)
    /\ queue' = Enqueue(queue, j)
    /\ UNCHANGED <<passed, gone>>

\* A DELETE of a queued job, or an abandoned one dropped by pump.
Cancel(j) ==
    /\ j \in Queued(queue)
    /\ queue' = RemoveJob(queue, j)
    /\ LET c == CommandOf[j] IN
       IF Waits(c)'
       THEN UNCHANGED <<passed, gone>>
       ELSE /\ passed' = [passed EXCEPT ![c] = 0]
            /\ gone' = [w \in Commands |-> IF w # c /\ Waits(w) THEN gone[w] + 1 ELSE 0]

Take ==
    /\ queue.ring # <<>>
    /\ queue' = TakeNext(queue)
    /\ LET c == NextCommand(queue) IN
       /\ passed' = [w \in Commands |-> IF w # c /\ Waits(w) THEN passed[w] + 1 ELSE 0]
       /\ gone' = [gone EXCEPT ![c] = 0]

Next == \/ \E j \in Jobs : Submit(j) \/ Cancel(j)
        \/ Take

Spec == Init /\ [][Next]_vars

-----------------------------------------------------------------------------

\* The queue is a record of the Queue type; a FIFO holds jobs of its own
\* command only, each once (enqueue files a job under its commandId); and the
\* ring lists exactly the commands with a FIFO, each once (enqueue, remove and
\* take keep the two Maps in step).
TypeOK == /\ WellFormed(queue)
          /\ passed \in [Commands -> Nat]
          /\ gone \in [Commands -> Nat]

\* "One command's 1,000 files never block another command's single file": of
\* two or more commands a waiting one is passed at most so often before its own
\* turn, however many jobs the others queue, and however they leave the Map
\* served and enter it again.  A command that leaves it unserved may cost a
\* waiting one a turn more.
BoundedBypass ==
    LET n == Cardinality(Commands) IN
    \A c, d \in Commands : c # d => passed[c] <= (n * (n + 1)) \div 2 - 2 + gone[c]
=============================================================================
