---------------------------- MODULE CommandQueue ----------------------------
(***************************************************************************)
(* The queue the broker's Scheduler keeps for one server key               *)
(* (broker/scheduler.ts): a Map from command to that command's FIFO of     *)
(* jobs, whose insertion order is the round-robin order, and the command   *)
(* served last.  A queue is a record                                       *)
(*   ring : the commands of the Map, in insertion order                    *)
(*   fifo : the jobs of each command, oldest first                         *)
(*   last : the command taken last, or NoCommand                           *)
(* The record is empty when its ring is: the code then deletes the key,    *)
(* but keeps its entry in lastCommand.                                     *)
(***************************************************************************)
EXTENDS Integers, Sequences, SequencesExt, FiniteSets

CONSTANTS Commands,   \* the llm-ext processes that submit jobs
          Jobs,       \* the jobs they may submit
          CommandOf,  \* the command of each job
          NoCommand   \* "no command of this key was served yet"

ASSUME CommandOfAssumption == CommandOf \in [Jobs -> Commands]
ASSUME NoCommandAssumption == NoCommand \notin Commands

Queue == [ring : Seq(Commands),
          fifo : [Commands -> Seq(Jobs)],
          last : Commands \cup {NoCommand}]

EmptyQueue == [ring |-> <<>>, fifo |-> [c \in Commands |-> <<>>],
               last |-> NoCommand]

\* What the two Maps keep between them: the ring lists the commands that have a
\* FIFO, each once, and a FIFO lists jobs of its own command, each once.
WellFormed(q) ==
    /\ q \in Queue
    /\ \A c \in Commands :
         /\ Contains(q.ring, c) <=> q.fifo[c] # <<>>
         /\ \A j \in ToSet(q.fifo[c]) : CommandOf[j] = c
         /\ IsInjective(q.fifo[c])
    /\ IsInjective(q.ring)

\* The jobs of a queue, as allQueued(key) collects them.
Queued(q) == UNION {ToSet(q.fifo[c]) : c \in ToSet(q.ring)}

\* enqueue: a command without a FIFO enters the Map at its end.
Enqueue(q, j) ==
    LET c == CommandOf[j] IN
    [q EXCEPT !.ring = IF Contains(q.ring, c) THEN q.ring ELSE Append(@, c),
              !.fifo[c] = Append(@, j)]

\* A command whose FIFO is f after a removal; an emptied one leaves the Map.
WithFifo(q, c, f) ==
    [q EXCEPT !.ring = IF f = <<>> THEN RemoveFirst(@, c) ELSE @,
              !.fifo[c] = f]

\* remove: nothing changes when the job is not queued.
RemoveJob(q, j) ==
    LET c == CommandOf[j] IN
    IF Contains(q.fifo[c], j) THEN WithFifo(q, c, RemoveFirst(q.fifo[c], j)) ELSE q

\* remove, of every job of the key.
Emptied(q) == [EmptyQueue EXCEPT !.last = q.last]

\* Where last stands in the ring, 0 when it left the Map (indexOf is then -1).
LastIndex(q) == SelectInSeq(q.ring, LAMBDA c : c = q.last)

\* Mutation of NextCommand: lastCommand is not consulted.
FirstCommand(q) == Head(q.ring)

\* take starts after the command served last, and at the first command of
\* the Map when that one is not there any more.
NextCommand(q) == q.ring[(LastIndex(q) % Len(q.ring)) + 1]

NextJob(q) == Head(q.fifo[NextCommand(q)])

TakeNext(q) ==
    LET c == NextCommand(q) IN
    [WithFifo(q, c, Tail(q.fifo[c])) EXCEPT !.last = c]
=============================================================================
