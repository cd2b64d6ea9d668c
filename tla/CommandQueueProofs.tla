------------------------- MODULE CommandQueueProofs -------------------------
(***************************************************************************)
(* Lemmas about one server key's queue, for any commands and jobs: what    *)
(* enqueue, remove and take do to the jobs it holds, and that they keep    *)
(* the two Maps of the code in step.                                       *)
(***************************************************************************)
EXTENDS CommandQueue, FiniteSetTheorems, SequenceTheorems, WellFoundedInduction, TLAPS

\* A bounded set of natural numbers has a largest element: the intervals from
\* its elements to the bound are subsets of a finite set, and some one of them
\* includes no other.
LEMMA GreatestOf ==
    ASSUME NEW b \in Nat, NEW T \in SUBSET (0..b), T # {}
    PROVE  \E n \in T : \A m \in T : n >= m
<1>. DEFINE D == {n..b : n \in T}
<1>1. IsWellFoundedOn(StrictSubsetOrdering(0..b), SUBSET (0..b))
    <2>1. IsFiniteSet(0..b)
        BY FS_Interval
    <2>. QED BY <2>1, FS_FiniteSubsetsOfFinite, FS_StrictSubsetOrderingWellFounded
<1>2. D \in SUBSET SUBSET (0..b) /\ D # {}
    <2>1. \A n \in T : n..b \subseteq 0..b
        OBVIOUS
    <2>. QED BY <2>1
<1>. HIDE DEF D
<1>3. PICK I \in D : \A J \in D : ~(<<J, I>> \in StrictSubsetOrdering(0..b))
    BY <1>1, <1>2, WFMin
<1>4. \A J \in D : ~(J \subseteq I /\ J # I)
    BY <1>2, <1>3 DEF StrictSubsetOrdering
<1>5. PICK n \in T : I = n..b
    BY DEF D
<1>6. ASSUME NEW m \in T PROVE n >= m
    <2>1. ~(m..b \subseteq n..b /\ m..b # n..b)
        BY <1>4, <1>5 DEF D
    <2>2. n \in n..b /\ n \in 0..b /\ m \in 0..b
        OBVIOUS
    <2>. QED BY <2>1, <2>2
<1>. QED BY <1>6

\* Two ways to say that a sequence has an element.
LEMMA ContainsIs ==
    ASSUME NEW X, NEW s \in Seq(X), NEW x
    PROVE  x \in ToSet(s) <=> Contains(s, x)
BY DEF ToSet, Contains

\* A sequence without its i-th element.
LEMMA RemoveAtWorks ==
    ASSUME NEW X, NEW s \in Seq(X), NEW i \in 1..Len(s)
    PROVE  /\ RemoveAt(s, i) \in Seq(X)
           /\ Len(RemoveAt(s, i)) = Len(s) - 1
           /\ \A k \in 1..Len(s) - 1 :
                RemoveAt(s, i)[k] = IF k < i THEN s[k] ELSE s[k + 1]
<1>. DEFINE a == SubSeq(s, 1, i - 1)
            b == SubSeq(s, i + 1, Len(s))
<1>1. a \in Seq(X) /\ Len(a) = i - 1 /\ \A k \in 1..i - 1 : a[k] = s[k]
    OBVIOUS
<1>2. b \in Seq(X) /\ Len(b) = Len(s) - i /\ \A k \in 1..Len(s) - i : b[k] = s[k + i]
    OBVIOUS
<1>. HIDE DEF a, b
<1>3. a \o b \in Seq(X) /\ Len(a \o b) = Len(s) - 1
    <2>1. a \o b \in Seq(X) /\ Len(a \o b) = Len(a) + Len(b)
        BY <1>1, <1>2, ConcatProperties
    <2>. QED BY <1>1, <1>2, <2>1
<1>4. ASSUME NEW k \in 1..Len(s) - 1
      PROVE  (a \o b)[k] = IF k < i THEN s[k] ELSE s[k + 1]
    <2>1. CASE k < i
        BY <1>1, <1>2, <2>1, ConcatProperties
    <2>2. CASE ~(k < i)
        <3>1. (a \o b)[k] = b[k - (i - 1)]
            BY <1>1, <1>2, <2>2, ConcatProperties
        <3>2. k - (i - 1) \in 1..Len(s) - i
            BY <2>2
        <3>. QED BY <1>2, <2>2, <3>1, <3>2
    <2>. QED BY <2>1, <2>2
<1>5. RemoveAt(s, i) = a \o b
    BY DEF RemoveAt, a, b
<1>. QED BY <1>3, <1>4, <1>5

\* Where an element stands in a sequence of different ones: indexOf.
LEMMA IndexWorks ==
    ASSUME NEW X, NEW s \in Seq(X), IsInjective(s), NEW e
    PROVE  LET I == {k \in 1..Len(s) : s[k] = e} IN
           IF Contains(s, e) THEN Min(I) \in 1..Len(s) /\ s[Min(I)] = e ELSE I = {}
<1>. DEFINE I == {k \in 1..Len(s) : s[k] = e}
<1>1. Contains(s, e) <=> I # {}
    BY DEF Contains
<1>2. ASSUME I # {} PROVE Min(I) \in I
    <2>1. PICK k \in 1..Len(s) : I = {k}
        BY <1>2 DEF IsInjective
    <2>2. Min({k}) = k
        BY DEF Min
    <2>. QED BY <2>1, <2>2
<1>. QED BY <1>1, <1>2

\* A sequence of different elements without one of them.
LEMMA RemoveFirstWorks ==
    ASSUME NEW X, NEW s \in Seq(X), IsInjective(s), NEW e, Contains(s, e)
    PROVE  LET r == RemoveFirst(s, e) IN
           /\ r \in Seq(X) /\ IsInjective(r) /\ Len(r) = Len(s) - 1
           /\ \A x : Contains(r, x) <=> Contains(s, x) /\ x # e
           /\ \E i \in 1..Len(s) :
                /\ s[i] = e
                /\ \A k \in 1..Len(r) : r[k] = IF k < i THEN s[k] ELSE s[k + 1]
<1>. DEFINE i == SelectInSeq(s, LAMBDA v : v = e)
            r == RemoveFirst(s, e)
<1>1. i \in 1..Len(s) /\ s[i] = e
    BY IndexWorks DEF SelectInSeq, Contains
<1>2. r = RemoveAt(s, i)
    BY DEF RemoveFirst, Contains
<1>. HIDE DEF i, r
<1>3. /\ r \in Seq(X) /\ Len(r) = Len(s) - 1
      /\ \A k \in 1..Len(r) : r[k] = IF k < i THEN s[k] ELSE s[k + 1]
    BY <1>1, <1>2, RemoveAtWorks
<1>4. \A k, l \in 1..Len(s) : s[k] = s[l] => k = l
    BY DEF IsInjective
<1>5. IsInjective(r)
    <2>. SUFFICES ASSUME NEW k \in 1..Len(r), NEW l \in 1..Len(r), r[k] = r[l]
                  PROVE  k = l
        BY <1>3 DEF IsInjective
    <2>. QED BY <1>1, <1>3, <1>4
<1>6. ASSUME NEW x, Contains(r, x)
      PROVE  Contains(s, x) /\ x # e
    <2>1. PICK k \in 1..Len(r) : r[k] = x
        BY <1>6 DEF Contains
    <2>2. \E l \in 1..Len(s) : s[l] = x /\ l # i
        BY <1>1, <1>3, <2>1
    <2>. QED BY <1>1, <1>4, <2>2 DEF Contains
<1>7. ASSUME NEW x, Contains(s, x), x # e
      PROVE  Contains(r, x)
    <2>1. PICK k \in 1..Len(s) : s[k] = x
        BY <1>7 DEF Contains
    <2>2. CASE k < i
        BY <1>1, <1>3, <2>1, <2>2 DEF Contains
    <2>3. CASE k > i
        <3>1. k - 1 \in 1..Len(r) /\ r[k - 1] = x
            BY <1>1, <1>3, <2>1, <2>3
        <3>. QED BY <3>1 DEF Contains
    <2>. QED BY <1>1, <1>7, <2>1, <2>2, <2>3
<1>. QED BY <1>1, <1>3, <1>5, <1>6, <1>7 DEF r

-----------------------------------------------------------------------------

\* The jobs of a queue are those in the FIFO of their own command.
LEMMA QueuedIs ==
    ASSUME NEW q, WellFormed(q)
    PROVE  \A j : j \in Queued(q) <=> j \in Jobs /\ Contains(q.fifo[CommandOf[j]], j)
<1>1. /\ q.ring \in Seq(Commands) /\ q.fifo \in [Commands -> Seq(Jobs)]
      /\ \A c \in Commands : Contains(q.ring, c) <=> q.fifo[c] # <<>>
      /\ \A c \in Commands : \A j \in ToSet(q.fifo[c]) : CommandOf[j] = c
    BY DEF WellFormed, Queue
<1>2. ASSUME NEW j, j \in Queued(q)
      PROVE  j \in Jobs /\ Contains(q.fifo[CommandOf[j]], j)
    <2>1. PICK c \in ToSet(q.ring) : j \in ToSet(q.fifo[c])
        BY <1>2 DEF Queued
    <2>2. c \in Commands
        BY <1>1 DEF ToSet
    <2>3. q.fifo[c] \in Seq(Jobs) /\ CommandOf[j] = c
        BY <1>1, <2>1, <2>2
    <2>4. PICK i \in 1..Len(q.fifo[c]) : j = q.fifo[c][i]
        BY <2>1, <2>3 DEF ToSet
    <2>. QED BY <2>3, <2>4 DEF Contains
<1>3. ASSUME NEW j \in Jobs, Contains(q.fifo[CommandOf[j]], j)
      PROVE  j \in Queued(q)
    <2>. DEFINE c == CommandOf[j]
    <2>1. c \in Commands /\ q.fifo[c] \in Seq(Jobs)
        BY <1>1, CommandOfAssumption
    <2>2. PICK i \in 1..Len(q.fifo[c]) : q.fifo[c][i] = j
        BY <1>3 DEF Contains
    <2>3. j \in ToSet(q.fifo[c]) /\ q.fifo[c] # <<>>
        BY <2>1, <2>2 DEF ToSet
    <2>4. c \in ToSet(q.ring)
        BY <1>1, <2>1, <2>3, ContainsIs
    <2>. QED BY <2>3, <2>4 DEF Queued
<1>. QED BY <1>2, <1>3

\* The empty queue, and a queue that is emptied.
LEMMA EmptyWorks ==
    /\ WellFormed(EmptyQueue) /\ Queued(EmptyQueue) = {}
    /\ \A q : WellFormed(q) => WellFormed(Emptied(q)) /\ Queued(Emptied(q)) = {}
<1>1. \A X : <<>> \in Seq(X)
    OBVIOUS
<1>2. \A x : ~Contains(<<>>, x)
    BY DEF Contains
<1>3. ToSet(<<>>) = {} /\ IsInjective(<<>>)
    BY DEF ToSet, IsInjective
<1>4. ASSUME NEW e, e.ring = <<>>, e.fifo = [c \in Commands |-> <<>>], e \in Queue
      PROVE  WellFormed(e) /\ Queued(e) = {}
    BY <1>2, <1>3, <1>4 DEF WellFormed, Queued
<1>5. EmptyQueue \in Queue
    BY <1>1 DEF EmptyQueue, Queue
<1>6. ASSUME NEW q, WellFormed(q)
      PROVE  Emptied(q) \in Queue /\ Emptied(q).ring = <<>>
             /\ Emptied(q).fifo = [c \in Commands |-> <<>>]
    BY <1>1, <1>6 DEF Emptied, EmptyQueue, Queue, WellFormed
<1>. QED BY <1>4, <1>5, <1>6 DEF EmptyQueue

\* enqueue adds the one job, and its command at the end of the ring.
LEMMA EnqueueWorks ==
    ASSUME NEW q, WellFormed(q), NEW j \in Jobs, j \notin Queued(q)
    PROVE  /\ WellFormed(Enqueue(q, j))
           /\ Queued(Enqueue(q, j)) = Queued(q) \cup {j}
<1>. DEFINE c == CommandOf[j]
            e == Enqueue(q, j)
<1>0. c \in Commands
    BY CommandOfAssumption
<1>1. /\ q.ring \in Seq(Commands) /\ q.fifo \in [Commands -> Seq(Jobs)]
      /\ \A d \in Commands : Contains(q.ring, d) <=> q.fifo[d] # <<>>
      /\ \A d \in Commands : \A i \in ToSet(q.fifo[d]) : CommandOf[i] = d
      /\ \A d \in Commands : IsInjective(q.fifo[d])
      /\ IsInjective(q.ring)
    BY DEF WellFormed, Queue
<1>2. /\ e.ring = IF Contains(q.ring, c) THEN q.ring ELSE Append(q.ring, c)
      /\ e.fifo = [q.fifo EXCEPT ![c] = Append(@, j)]
      /\ e.last = q.last /\ e \in Queue
    <2>. DEFINE R == IF Contains(q.ring, c) THEN q.ring ELSE Append(q.ring, c)
                F == [q.fifo EXCEPT ![c] = Append(@, j)]
    <2>1. R \in Seq(Commands)
        BY <1>0, <1>1
    <2>2. Append(q.fifo[c], j) \in Seq(Jobs)
        BY <1>0, <1>1
    <2>3. F \in [Commands -> Seq(Jobs)]
        BY <1>0, <1>1, <2>2
    <2>4. e = [q EXCEPT !.ring = R, !.fifo = F]
        BY DEF Enqueue, WellFormed, Queue
    <2>. HIDE DEF R, F, e
    <2>5. q \in Queue
        BY DEF WellFormed
    <2>6. e.ring = R /\ e.fifo = F /\ e.last = q.last /\ e \in Queue
        BY <2>1, <2>3, <2>4, <2>5 DEF Queue
    <2>. QED BY <2>6 DEF R, F
<1>3. ~Contains(q.fifo[c], j)
    BY QueuedIs
<1>. HIDE DEF e
<1>4. ASSUME NEW X, NEW s \in Seq(X), NEW x \in X, IsInjective(s), ~Contains(s, x)
      PROVE  /\ IsInjective(Append(s, x)) /\ Append(s, x) # <<>>
             /\ \A y : Contains(Append(s, x), y) <=> Contains(s, y) \/ y = x
             /\ \A y : y \in ToSet(Append(s, x)) <=> y \in ToSet(s) \/ y = x
    <2>1. /\ Append(s, x) \in Seq(X) /\ Len(Append(s, x)) = Len(s) + 1
          /\ \A k \in 1..Len(s) : Append(s, x)[k] = s[k]
          /\ Append(s, x)[Len(s) + 1] = x
        OBVIOUS
    <2>. DEFINE t == Append(s, x)
    <2>. HIDE DEF t
    <2>2. IsInjective(t)
        <3>. SUFFICES ASSUME NEW k \in 1..Len(s) + 1, NEW l \in 1..Len(s) + 1, t[k] = t[l]
                      PROVE  k = l
            BY <2>1 DEF IsInjective, t
        <3>1. \A m \in 1..Len(s) : s[m] # x
            BY <1>4 DEF Contains
        <3>2. \A m, n \in 1..Len(s) : s[m] = s[n] => m = n
            BY <1>4 DEF IsInjective
        <3>. QED BY <2>1, <3>1, <3>2 DEF t
    <2>3. ASSUME NEW y PROVE Contains(t, y) <=> Contains(s, y) \/ y = x
        <3>1. ASSUME Contains(t, y) PROVE Contains(s, y) \/ y = x
            BY <2>1, <3>1 DEF Contains, t
        <3>2. ASSUME Contains(s, y) PROVE Contains(t, y)
            BY <2>1, <3>2 DEF Contains, t
        <3>3. Contains(t, x)
            BY <2>1 DEF Contains, t
        <3>. QED BY <3>1, <3>2, <3>3
    <2>4. ASSUME NEW y PROVE /\ y \in ToSet(t) <=> Contains(t, y)
                             /\ y \in ToSet(s) <=> Contains(s, y)
        BY <2>1, ContainsIs DEF t
    <2>5. t # <<>>
        BY <2>1 DEF t
    <2>. QED BY <2>2, <2>3, <2>4, <2>5 DEF t
<1>5. /\ IsInjective(Append(q.fifo[c], j)) /\ Append(q.fifo[c], j) # <<>>
      /\ \A y : Contains(Append(q.fifo[c], j), y) <=> Contains(q.fifo[c], y) \/ y = j
      /\ \A y : y \in ToSet(Append(q.fifo[c], j)) <=> y \in ToSet(q.fifo[c]) \/ y = j
    <2>. DEFINE s == q.fifo[c]
    <2>1. s \in Seq(Jobs) /\ IsInjective(s) /\ ~Contains(s, j)
        BY <1>0, <1>1, <1>3
    <2>. HIDE DEF s
    <2>2. /\ IsInjective(Append(s, j)) /\ Append(s, j) # <<>>
          /\ \A y : Contains(Append(s, j), y) <=> Contains(s, y) \/ y = j
          /\ \A y : y \in ToSet(Append(s, j)) <=> y \in ToSet(s) \/ y = j
        BY <1>4, <2>1
    <2>. QED BY <2>2 DEF s
<1>6. IsInjective(e.ring) /\ \A d : Contains(e.ring, d) <=> Contains(q.ring, d) \/ d = c
    BY <1>0, <1>1, <1>2, <1>4
<1>7. \A d \in Commands : e.fifo[d] = IF d = c THEN Append(q.fifo[c], j) ELSE q.fifo[d]
    BY <1>0, <1>1, <1>2
<1>8. WellFormed(e)
    BY <1>1, <1>2, <1>5, <1>6, <1>7 DEF WellFormed
<1>9. ASSUME NEW i PROVE i \in Queued(e) <=> i \in Queued(q) \/ i = j
    <2>1. i \in Jobs => CommandOf[i] \in Commands
        BY CommandOfAssumption
    <2>. QED BY <1>5, <1>7, <1>8, <2>1, QueuedIs
<1>. QED BY <1>8, <1>9 DEF e

\* What f keeps of s when j leaves it.
Without(f, s, j) == \A x : Contains(f, x) <=> Contains(s, x) /\ x # j

\* A FIFO that loses one job, and the queue with it.
LEMMA WithFifoWorks ==
    ASSUME NEW q, WellFormed(q), NEW c \in Commands, NEW j, NEW f \in Seq(Jobs),
           Contains(q.fifo[c], j), IsInjective(f), Without(f, q.fifo[c], j)
    PROVE  /\ WellFormed(WithFifo(q, c, f)) /\ Contains(q.ring, c)
           /\ Queued(WithFifo(q, c, f)) = Queued(q) \ {j} /\ j \in Queued(q)
<1>. DEFINE w == WithFifo(q, c, f)
            R == IF f = <<>> THEN RemoveFirst(q.ring, c) ELSE q.ring
            F == [q.fifo EXCEPT ![c] = f]
<1>1. /\ q \in Queue /\ q.ring \in Seq(Commands) /\ q.fifo \in [Commands -> Seq(Jobs)]
      /\ \A d \in Commands : Contains(q.ring, d) <=> q.fifo[d] # <<>>
      /\ \A d \in Commands : \A i \in ToSet(q.fifo[d]) : CommandOf[i] = d
      /\ \A d \in Commands : IsInjective(q.fifo[d])
      /\ IsInjective(q.ring)
    BY DEF WellFormed, Queue
<1>2. Contains(q.ring, c)
    <2>1. ~Contains(<<>>, j)
        BY DEF Contains
    <2>. QED BY <1>1, <2>1
<1>3. /\ R \in Seq(Commands) /\ IsInjective(R)
      /\ \A d : Contains(R, d) <=> Contains(q.ring, d) /\ (d = c => f # <<>>)
    <2>1. CASE f # <<>>
        BY <1>1, <2>1
    <2>2. CASE f = <<>>
        <3>1. q.ring \in Seq(Commands) /\ IsInjective(q.ring) /\ Contains(q.ring, c)
            BY <1>1, <1>2
        <3>2. R = RemoveFirst(q.ring, c)
            BY <2>2
        <3>. HIDE DEF R
        <3>3. R \in Seq(Commands) /\ IsInjective(R)
              /\ \A d : Contains(R, d) <=> Contains(q.ring, d) /\ d # c
            BY <3>1, <3>2, RemoveFirstWorks
        <3>. QED BY <2>2, <3>3
    <2>. QED BY <2>1, <2>2
<1>4. F \in [Commands -> Seq(Jobs)]
    BY <1>1
<1>5. w = [q EXCEPT !.ring = R, !.fifo = F]
    BY <1>1 DEF WithFifo, Queue
<1>6. \A d \in Commands : F[d] = IF d = c THEN f ELSE q.fifo[d]
    BY <1>1
<1>. HIDE DEF R, F, w
<1>7. w.ring = R /\ w.fifo = F /\ w.last = q.last /\ w \in Queue
    BY <1>1, <1>3, <1>4, <1>5 DEF Queue
<1>8. CommandOf[j] = c /\ j \in Jobs
    <2>1. j \in ToSet(q.fifo[c])
        BY <1>1, ContainsIs
    <2>2. j \in Jobs
        BY <1>1, <2>1 DEF ToSet
    <2>. QED BY <1>1, <2>1, <2>2
<1>9. ASSUME NEW d \in Commands
      PROVE  /\ Contains(w.ring, d) <=> w.fifo[d] # <<>>
             /\ \A i \in ToSet(w.fifo[d]) : CommandOf[i] = d
             /\ IsInjective(w.fifo[d])
    <2>1. CASE d = c
        <3>1. \A i : i \in ToSet(f) => i \in ToSet(q.fifo[c])
            BY <1>1, ContainsIs DEF Without
        <3>. QED BY <1>1, <1>2, <1>3, <1>6, <1>7, <2>1, <3>1
    <2>2. CASE d # c
        BY <1>1, <1>3, <1>6, <1>7, <2>2
    <2>. QED BY <2>1, <2>2
<1>10. WellFormed(w)
    BY <1>3, <1>7, <1>9 DEF WellFormed
<1>11. ASSUME NEW i PROVE i \in Queued(w) <=> i \in Queued(q) /\ i # j
    <2>1. i \in Jobs => CommandOf[i] \in Commands
        BY CommandOfAssumption
    <2>2. CASE i \in Jobs /\ CommandOf[i] = c
        BY <1>6, <1>7, <1>10, <2>1, <2>2, QueuedIs DEF Without
    <2>3. CASE i \in Jobs /\ CommandOf[i] # c
        BY <1>6, <1>7, <1>8, <1>10, <2>1, <2>3, QueuedIs
    <2>4. CASE i \notin Jobs
        BY <1>10, <2>4, QueuedIs
    <2>. QED BY <2>2, <2>3, <2>4
<1>12. j \in Queued(q)
    BY <1>8, QueuedIs
<1>. QED BY <1>2, <1>10, <1>11, <1>12 DEF w

\* remove takes the one job away.
LEMMA RemoveWorks ==
    ASSUME NEW q, WellFormed(q), NEW j \in Queued(q)
    PROVE  LET r == RemoveJob(q, j)
               c == CommandOf[j] IN
           /\ WellFormed(r) /\ Queued(r) = Queued(q) \ {j}
           /\ c \in Commands /\ Contains(q.ring, c) /\ r.last = q.last
           /\ r.ring = IF r.fifo[c] = <<>> THEN RemoveFirst(q.ring, c) ELSE q.ring
<1>. DEFINE c == CommandOf[j]
            f == RemoveFirst(q.fifo[c], j)
<1>1. j \in Jobs /\ Contains(q.fifo[c], j)
    BY QueuedIs
<1>2. c \in Commands
    BY <1>1, CommandOfAssumption
<1>3. q.fifo \in [Commands -> Seq(Jobs)] /\ q.fifo[c] \in Seq(Jobs) /\ IsInjective(q.fifo[c])
    BY <1>2 DEF WellFormed, Queue
<1>4. f \in Seq(Jobs) /\ IsInjective(f) /\ Without(f, q.fifo[c], j)
    BY <1>1, <1>3, RemoveFirstWorks DEF Without
<1>5. RemoveJob(q, j) = WithFifo(q, c, f)
    BY <1>1 DEF RemoveJob
<1>. HIDE DEF c, f
<1>6. [q.fifo EXCEPT ![c] = f][c] = f
    BY <1>2, <1>3
<1>7. /\ WellFormed(WithFifo(q, c, f)) /\ Contains(q.ring, c)
      /\ Queued(WithFifo(q, c, f)) = Queued(q) \ {j}
    BY <1>1, <1>2, <1>4, WithFifoWorks
<1>8. /\ WithFifo(q, c, f).ring = IF f = <<>> THEN RemoveFirst(q.ring, c) ELSE q.ring
      /\ WithFifo(q, c, f).fifo = [q.fifo EXCEPT ![c] = f]
      /\ WithFifo(q, c, f).last = q.last
    BY DEF WithFifo, WellFormed, Queue
<1>. QED BY <1>2, <1>5, <1>6, <1>7, <1>8 DEF c

\* Where the command served last stands: 0 when it left the ring.
LEMMA LastIndexWorks ==
    ASSUME NEW q, WellFormed(q)
    PROVE  /\ LastIndex(q) \in 0..Len(q.ring)
           /\ LastIndex(q) # 0 => q.ring[LastIndex(q)] = q.last
           /\ LastIndex(q) = 0 => ~Contains(q.ring, q.last)
<1>. DEFINE I == {k \in 1..Len(q.ring) : q.ring[k] = q.last}
<1>1. q.ring \in Seq(Commands) /\ IsInjective(q.ring)
    BY DEF WellFormed, Queue
<1>2. IF Contains(q.ring, q.last) THEN Min(I) \in 1..Len(q.ring) /\ q.ring[Min(I)] = q.last
                                  ELSE I = {}
    BY <1>1, IndexWorks
<1>3. LastIndex(q) = IF I # {} THEN Min(I) ELSE 0
    BY DEF LastIndex, SelectInSeq
<1>4. Contains(q.ring, q.last) => I # {}
    BY DEF Contains
<1>. HIDE DEF I
<1>5. Len(q.ring) \in Nat
    BY <1>1
<1>. QED BY <1>2, <1>3, <1>4, <1>5

\* take answers a job of its queue, the head of the FIFO of a command in the
\* ring, and takes it away.
LEMMA TakeWorks ==
    ASSUME NEW q, WellFormed(q), q.ring # <<>>
    PROVE  LET t == TakeNext(q)
               c == NextCommand(q)
               j == NextJob(q) IN
           /\ WellFormed(t) /\ Queued(t) = Queued(q) \ {j} /\ j \in Queued(q)
           /\ c \in Commands /\ Contains(q.ring, c) /\ t.last = c
           /\ t.ring = IF t.fifo[c] = <<>> THEN RemoveFirst(q.ring, c) ELSE q.ring
<1>. DEFINE c == NextCommand(q)
            j == NextJob(q)
            f == Tail(q.fifo[c])
            w == WithFifo(q, c, f)
            t == TakeNext(q)
<1>1. /\ q \in Queue /\ q.ring \in Seq(Commands) /\ q.fifo \in [Commands -> Seq(Jobs)]
      /\ \A d \in Commands : Contains(q.ring, d) <=> q.fifo[d] # <<>>
      /\ \A d \in Commands : IsInjective(q.fifo[d])
      /\ IsInjective(q.ring)
    BY DEF WellFormed, Queue
<1>2. LastIndex(q) \in Nat
    BY LastIndexWorks
<1>3. (LastIndex(q) % Len(q.ring)) + 1 \in 1..Len(q.ring)
    BY <1>1, <1>2
<1>4. c \in Commands /\ Contains(q.ring, c)
    BY <1>1, <1>3 DEF NextCommand, Contains
<1>5. q.fifo[c] \in Seq(Jobs) /\ q.fifo[c] # <<>> /\ IsInjective(q.fifo[c])
    BY <1>1, <1>4
<1>6. j = q.fifo[c][1] /\ Contains(q.fifo[c], j)
    BY <1>5 DEF NextJob, Contains
<1>7. /\ f \in Seq(Jobs) /\ Len(f) = Len(q.fifo[c]) - 1
      /\ \A k \in 1..Len(f) : f[k] = q.fifo[c][k + 1]
    BY <1>5
<1>8. IsInjective(f) /\ Without(f, q.fifo[c], j)
    <2>. HIDE DEF f, c, j
    <2>. DEFINE s == q.fifo[c]
    <2>1. s \in Seq(Jobs) /\ Len(s) > 0 /\ s[1] = j
        BY <1>5, <1>6
    <2>2. \A k, l \in 1..Len(s) : s[k] = s[l] => k = l
        BY <1>5 DEF IsInjective
    <2>3. /\ f \in Seq(Jobs) /\ Len(f) = Len(s) - 1
          /\ \A k \in 1..Len(f) : f[k] = s[k + 1]
        BY <1>7
    <2>. HIDE DEF s
    <2>4. IsInjective(f)
        <3>. SUFFICES ASSUME NEW k \in 1..Len(f), NEW l \in 1..Len(f), f[k] = f[l]
                      PROVE  k = l
            BY <2>3 DEF IsInjective
        <3>. QED BY <2>1, <2>2, <2>3
    <2>5. ASSUME NEW x, Contains(f, x) PROVE Contains(s, x) /\ x # j
        <3>1. PICK k \in 1..Len(f) : f[k] = x
            BY <2>5 DEF Contains
        <3>2. k + 1 \in 1..Len(s) /\ s[k + 1] = x /\ k + 1 # 1
            BY <2>1, <2>3, <3>1
        <3>. QED BY <2>1, <2>2, <3>2 DEF Contains
    <2>6. ASSUME NEW x, Contains(s, x), x # j PROVE Contains(f, x)
        <3>1. PICK k \in 1..Len(s) : s[k] = x
            BY <2>6 DEF Contains
        <3>2. k - 1 \in 1..Len(f) /\ f[k - 1] = x
            BY <2>1, <2>3, <2>6, <3>1
        <3>. QED BY <3>2 DEF Contains
    <2>. QED BY <2>4, <2>5, <2>6 DEF s, Without
<1>9. t = [w EXCEPT !.last = c]
    BY DEF TakeNext
<1>. HIDE DEF c, j, f, w, t
<1>10. /\ WellFormed(w) /\ Queued(w) = Queued(q) \ {j} /\ j \in Queued(q)
       /\ w.ring = IF f = <<>> THEN RemoveFirst(q.ring, c) ELSE q.ring
       /\ w.fifo = [q.fifo EXCEPT ![c] = f]
    <2>1. WellFormed(w) /\ Queued(w) = Queued(q) \ {j} /\ j \in Queued(q)
        BY <1>4, <1>6, <1>7, <1>8, WithFifoWorks DEF w
    <2>. QED BY <2>1, <1>1 DEF w, WithFifo, Queue
<1>11. t.ring = w.ring /\ t.fifo = w.fifo /\ t.last = c /\ t \in Queue
    BY <1>4, <1>9, <1>10 DEF WellFormed, Queue
<1>12. WellFormed(t) /\ Queued(t) = Queued(w)
    BY <1>10, <1>11 DEF WellFormed, Queued
<1>13. t.fifo[c] = f
    BY <1>1, <1>4, <1>10, <1>11
<1>. QED BY <1>4, <1>10, <1>11, <1>12, <1>13 DEF c, j, t

\* The ring is empty when the queue is.
LEMMA RingIsEmpty ==
    ASSUME NEW q, WellFormed(q)
    PROVE  q.ring = <<>> <=> Queued(q) = {}
<1>1. ASSUME q.ring # <<>> PROVE Queued(q) # {}
    BY <1>1, TakeWorks
<1>2. ASSUME NEW j \in Queued(q) PROVE q.ring # <<>>
    <2>1. ~Contains(<<>>, CommandOf[j])
        BY DEF Contains
    <2>. QED BY <2>1, RemoveWorks
<1>. QED BY <1>1, <1>2

\* A queue holds finitely many jobs.
LEMMA QueuedIsFinite ==
    ASSUME NEW q, WellFormed(q)
    PROVE  IsFiniteSet(Queued(q))
<1>1. q.ring \in Seq(Commands) /\ q.fifo \in [Commands -> Seq(Jobs)]
    BY DEF WellFormed, Queue
<1>2. ASSUME NEW X, NEW s \in Seq(X) PROVE IsFiniteSet(ToSet(s))
    <2>1. IsFiniteSet(1..Len(s))
        BY FS_Interval
    <2>2. [i \in 1..Len(s) |-> s[i]] \in Surjection(1..Len(s), ToSet(s))
        BY DEF ToSet, Surjection
    <2>. QED BY <2>1, <2>2, FS_Surjection
<1>. DEFINE D == {ToSet(q.fifo[c]) : c \in ToSet(q.ring)}
<1>3. IsFiniteSet(D)
    <2>1. IsFiniteSet(ToSet(q.ring))
        BY <1>1, <1>2
    <2>2. [c \in ToSet(q.ring) |-> ToSet(q.fifo[c])] \in Surjection(ToSet(q.ring), D)
        BY DEF Surjection
    <2>. QED BY <2>1, <2>2, FS_Surjection
<1>4. \A S \in D : IsFiniteSet(S)
    <2>1. \A c \in ToSet(q.ring) : q.fifo[c] \in Seq(Jobs)
        BY <1>1 DEF ToSet
    <2>. QED BY <1>2, <2>1
<1>5. IsFiniteSet(UNION D)
    <2>. HIDE DEF D
    <2>. QED BY <1>3, <1>4, FS_UNION
<1>. QED BY <1>5 DEF Queued
=============================================================================
