--------------------------- MODULE WorkshopProofs ---------------------------
(***************************************************************************)
(* Proofs about the message queues of labs 25 and 26 for every size of a   *)
(* queue, every choice of producers and consumers and every number of      *)
(* failures.                                                               *)
(***************************************************************************)
EXTENDS Workshop, TLAPS, FiniteSetTheorems

-----------------------------------------------------------------------------
(* The inductive invariant *)

Queue ==
    [slot : [0 .. Capacity - 1 -> Nat], rd : 0 .. Capacity - 1, wr : 0 .. Capacity - 1, full : BOOLEAN,
     state : {"OK", "DROPPED"}, blocked : Int, semFull : Int, semFree : Int, valid : BOOLEAN, waiting : Int,
     content : Seq(Nat)]

\* The slots of p from its read cursor on hold its content, in order.
Ring(p) ==
    LET n == Len(p.content) IN
    /\ n <= Capacity /\ p.wr = (p.rd + n) % Capacity
    /\ \A k \in 1 .. n : p.slot[(p.rd + k - 1) % Capacity] = p.content[k]

\* yanin26: the threads whose call counts itself as under way
Under(f) == {t \in Producers \cup Consumers : f[t].pc \in {"rd_wait", "wr_wait", "woken"}}

\* and those of them that sleep
Sleeps(f, c) == \E t \in Producers \cup Consumers : f[t].pc = c

\* yanin26: a consumer waits only for a message and a producer only for a place.
QuasiPlaces(f) ==
    /\ \A t \in Producers : f[t].pc \in {"none", "top", "enter", "drop_wait", "wr_wait", "woken", "pushed", "done"}
    /\ \A t \in Consumers : f[t].pc \in {"none", "top", "enter", "drop_wait", "rd_wait", "woken", "done"}
    /\ \A t \in 1 .. 5 : t \notin Producers \cup Consumers => f[t].pc = "none"

\* yanin26: threads f at the queue p, before the last of the calls that a drop
\* has found under way makes it usable again,
QuasiPre(p, f) ==
    /\ QuasiPlaces(f)
    /\ Ring(p) /\ (p.full <=> Len(p.content) = Capacity)
    /\ p.blocked = Cardinality(Under(f))
    /\ p.state = "DROPPED" => ~Sleeps(f, "rd_wait") /\ ~Sleeps(f, "wr_wait")
    /\ p.state = "OK" => ~Sleeps(f, "drop_wait")
    /\ Sleeps(f, "rd_wait") /\ Len(p.content) > 0 => \E t \in Consumers : f[t].pc \in {"woken", "top", "enter", "done"}
    /\ Sleeps(f, "wr_wait") /\ ~p.full => \E t \in Producers : f[t].pc \in {"woken", "top", "enter", "pushed", "done"}

\* and when nobody is inside its critical section
QuasiInv(p, f) == QuasiPre(p, f) /\ (p.state = "DROPPED" => Under(f) # {})

\* pchelintsev25: the threads of S that have taken a unit and not yet used it,
\* and those that are sure to use it
Counted(f, S, c) == {t \in S : f[t].pc \in c}
Holding(f, S) == Cardinality(Counted(f, S, {"look", "lock"}))
Locking(f, S) == Cardinality(Counted(f, S, {"lock"}))

\* pchelintsev25: while the queue is valid each semaphore and the units taken
\* from it count the messages, or the places, exactly.  Once it is not, the
\* semaphores count nothing, but whoever is to lock has taken a real unit.
Units(valid, n, full, free, hc, hp, lc, lp) ==
    /\ valid => n = full + hc /\ Capacity - n = free + hp /\ full >= 0 /\ free >= 0
    /\ lc <= n /\ lp <= Capacity - n

Balanced(p, f) ==
    Units(p.valid, Len(p.content), p.semFull, p.semFree,
          Holding(f, Consumers), Holding(f, Producers), Locking(f, Consumers), Locking(f, Producers))

WorkQueueInv ==
    /\ Ring(q) /\ Balanced(q, th)
    /\ \A t \in Producers \cup Consumers : th[t].pc \in {"none", "enter", "sem_wait", "look", "lock", "done"}
    /\ env.main = "create" => \A t \in Producers \cup Consumers : th[t].pc = "none"

QInv ==
    lab \in Queues =>
        /\ th \in Threads /\ q \in Queue /\ env \in Environment /\ ~env.slip
        /\ lab = "yanin26" => QuasiInv(q, th)
        /\ lab = "pchelintsev25" => WorkQueueInv
-----------------------------------------------------------------------------
(* Lemmas on rings *)

LEMMA Sizes == Capacity \in Nat \ {0} /\ QueueSize \in Nat \ {0} /\ DropEvery \in Nat \ {0}
BY WorkshopAssumption

\* A cursor goes round at most once.
Wrap(x, n) == IF x < n THEN x ELSE x - n

LEMMA Modulo ==
    ASSUME NEW n \in Nat \ {0}, NEW x \in Nat, x < 2 * n
    PROVE  x % n = Wrap(x, n)
BY DEF Wrap

LEMMA ModuloType ==
    ASSUME NEW n \in Nat \ {0}, NEW x \in Nat
    PROVE  x % n \in 0 .. n - 1
OBVIOUS

\* The fields of a queue that make it a ring.
LEMMA RingType ==
    ASSUME NEW p \in Queue
    PROVE  /\ p.slot \in [0 .. Capacity - 1 -> Nat] /\ p.content \in Seq(Nat) /\ Len(p.content) \in Nat
           /\ p.rd \in 0 .. Capacity - 1 /\ p.wr \in 0 .. Capacity - 1
<1>1. p.content \in Seq(Nat) /\ p.rd \in 0 .. Capacity - 1 /\ p.wr \in 0 .. Capacity - 1
  BY DEF Queue
<1>2. p.slot \in [0 .. Capacity - 1 -> Nat]
  BY Zenon DEF Queue
<1>3. Len(p.content) \in Nat
  BY <1>1
<1> QED BY <1>1, <1>2, <1>3

LEMMA Indexed == ASSUME NEW m \in Nat, NEW w \in [1 .. m -> Nat] PROVE w \in Seq(Nat) /\ Len(w) = m
OBVIOUS

LEMMA NextIndex == ASSUME NEW c \in Nat, NEW i \in 0 .. c - 1 PROVE i + 1 \in Nat
OBVIOUS

LEMMA SmallIsNat == ASSUME NEW i \in 1 .. 5 PROVE i \in Nat
OBVIOUS

\* A sequence without its first element.
LEMMA Rest ==
    ASSUME NEW s \in Seq(Nat), Len(s) > 0
    PROVE  /\ SubSeq(s, 2, Len(s)) \in Seq(Nat) /\ Len(SubSeq(s, 2, Len(s))) = Len(s) - 1
           /\ \A k \in 1 .. Len(s) - 1 : SubSeq(s, 2, Len(s))[k] = s[k + 1]
<1>1. PICK n \in Nat : n = Len(s) /\ n > 0 /\ s \in [1 .. n -> Nat]
  OBVIOUS
<1>2. SubSeq(s, 2, n) = [i \in 1 .. n - 1 |-> s[i + 1]]
  BY <1>1
<1>3. [i \in 1 .. n - 1 |-> s[i + 1]] \in [1 .. n - 1 -> Nat] /\ n - 1 \in Nat
  BY <1>1
<1>4. PICK w : w = SubSeq(s, 2, n)
  OBVIOUS
<1>5. w \in [1 .. n - 1 -> Nat] /\ n - 1 \in Nat
  BY <1>2, <1>3, <1>4, Zenon
<1>6. w \in Seq(Nat) /\ Len(w) = n - 1
  BY <1>5, Indexed, Zenon
<1>7. \A k \in 1 .. n - 1 : w[k] = s[k + 1]
  BY <1>2, <1>4
<1> QED BY <1>1, <1>4, <1>6, <1>7, Zenon

\* The slots of n messages from rd on, and the one behind them.
LEMMA Around ==
    ASSUME NEW c \in Nat \ {0}, NEW n \in Nat, n <= c, NEW rd \in 0 .. c - 1
    PROVE  /\ \A k \in 1 .. n : (rd + k - 1) % c = Wrap(rd + k - 1, c)
           /\ n < c => (rd + n) % c = Wrap(rd + n, c)
           /\ (rd + n) % c = Wrap(rd + n, c)
<1>1. ASSUME NEW k \in 1 .. n
      PROVE  (rd + k - 1) % c = Wrap(rd + k - 1, c)
  <2>1. rd + k - 1 \in Nat /\ rd + k - 1 < 2 * c
    OBVIOUS
  <2> QED BY <2>1, Modulo, Zenon
<1>2. (rd + n) % c = Wrap(rd + n, c)
  <2>1. rd + n \in Nat /\ rd + n < 2 * c
    OBVIOUS
  <2> QED BY <2>1, Modulo, Zenon
<1> QED BY <1>1, <1>2, Zenon

\* r is the queue p with a message more, or without its oldest one.
Pushed(p, r, m) ==
    /\ r.rd = p.rd /\ r.wr = (p.wr + 1) % Capacity /\ r.slot = [p.slot EXCEPT ![p.wr] = m]
    /\ r.content = Append(p.content, m)

Popped(p, r) ==
    /\ r.rd = (p.rd + 1) % Capacity /\ r.wr = p.wr /\ r.slot = p.slot
    /\ r.content = SubSeq(p.content, 2, Len(p.content))

\* A message more is written behind the last one, and over none.
LEMMA RingPush ==
    ASSUME NEW p \in Queue, NEW r \in Queue, NEW m \in Nat, Ring(p), Len(p.content) < Capacity,
           Pushed(p, r, m)
    PROVE  /\ Ring(r) /\ Len(r.content) = Len(p.content) + 1
           /\ r.wr = r.rd <=> Len(r.content) = Capacity
<1> USE DEF Pushed
<1>1. PICK c \in Nat \ {0} : c = Capacity
  BY Sizes, Zenon
<1>2. PICK n \in Nat, rd \in 0 .. c - 1, wr \in 0 .. c - 1 : n = Len(p.content) /\ rd = p.rd /\ wr = p.wr
  BY <1>1, RingType, Zenon
<1>3. /\ n < c /\ wr = (rd + n) % c
      /\ \A k \in 1 .. n : p.slot[(rd + k - 1) % c] = p.content[k]
  BY <1>1, <1>2, Zenon DEF Ring
<1>4. n < c => n + 1 \in Nat /\ n + 1 <= c /\ wr + 1 \in Nat /\ wr + 1 < 2 * c /\ n <= c
  OBVIOUS
<1>5. /\ wr = Wrap(rd + n, c) /\ (wr + 1) % c = Wrap(wr + 1, c)
      /\ \A k \in 1 .. n + 1 : (rd + k - 1) % c = Wrap(rd + k - 1, c)
      /\ (rd + (n + 1)) % c = Wrap(rd + (n + 1), c)
  BY <1>3, <1>4, Around, Modulo, Zenon
<1>6. n < c => /\ Wrap(Wrap(rd + n, c) + 1, c) = Wrap(rd + (n + 1), c)
               /\ \A k \in 1 .. n : Wrap(rd + k - 1, c) \in 0 .. c - 1 /\ Wrap(rd + k - 1, c) # Wrap(rd + n, c)
               /\ Wrap(rd + (n + 1) - 1, c) = Wrap(rd + n, c)
               /\ Wrap(rd + (n + 1), c) = rd <=> n + 1 = c
  BY DEF Wrap
<1>7. Len(r.content) = n + 1 /\ r.content[n + 1] = m /\ \A k \in 1 .. n : r.content[k] = p.content[k]
  <2>1. p.content \in Seq(Nat)
    BY RingType, Zenon
  <2>2. PICK s \in Seq(Nat) : s = p.content
    BY <2>1, Zenon
  <2>3. Len(Append(s, m)) = Len(s) + 1 /\ Append(s, m)[Len(s) + 1] = m
        /\ \A k \in 1 .. Len(s) : Append(s, m)[k] = s[k]
    OBVIOUS
  <2> QED BY <1>2, <2>2, <2>3, Zenon
<1>8. r.wr = Wrap(rd + (n + 1), c)
  <2>1. r.wr = Wrap(wr + 1, c)
    BY <1>1, <1>2, <1>5, Zenon
  <2> QED BY <1>3, <1>5, <1>6, <2>1, Zenon
<1>9. ASSUME NEW k \in 1 .. n + 1
      PROVE  r.slot[(rd + k - 1) % c] = r.content[k]
  <2>1. p.slot \in [0 .. c - 1 -> Nat]
    BY <1>1, RingType, Zenon
  <2>2. r.slot = [p.slot EXCEPT ![wr] = m]
    BY <1>2, Zenon
  <2>3. CASE k = n + 1
    <3>1. (rd + k - 1) % c = wr
      BY <1>3, <1>5, <1>6, <2>3, Zenon
    <3>2. r.slot[wr] = m
      BY <2>1, <2>2, Zenon
    <3> QED BY <1>7, <2>3, <3>1, <3>2, Zenon
  <2>4. CASE k # n + 1
    <3>1. k \in 1 .. n
      BY <2>4
    <3>2. PICK i \in 0 .. c - 1 : i = (rd + k - 1) % c /\ i # wr
      BY <1>3, <1>5, <1>6, <3>1, Zenon
    <3>3. r.slot[i] = p.slot[i]
      BY <2>1, <2>2, <3>2, Zenon
    <3> QED BY <1>3, <1>7, <3>1, <3>2, <3>3, Zenon
  <2> QED BY <2>3, <2>4, Zenon
<1>10. Ring(r)
  <2>1. n + 1 <= c /\ r.wr = (rd + (n + 1)) % c
    BY <1>3, <1>4, <1>5, <1>8, Zenon
  <2> QED BY <1>1, <1>2, <1>7, <1>9, <2>1, Zenon DEF Ring
<1>11. r.wr = r.rd <=> n + 1 = c
  BY <1>2, <1>3, <1>6, <1>8, Zenon
<1> QED BY <1>1, <1>2, <1>7, <1>10, <1>11, Zenon

\* Without its oldest message the ring begins one slot further.
LEMMA RingPop ==
    ASSUME NEW p \in Queue, NEW r \in Queue, Ring(p), Len(p.content) > 0, Popped(p, r)
    PROVE  Ring(r) /\ Len(r.content) = Len(p.content) - 1
<1> USE DEF Popped
<1>1. PICK c \in Nat \ {0} : c = Capacity
  BY Sizes, Zenon
<1>2. PICK n \in Nat, rd \in 0 .. c - 1, rr \in 0 .. c - 1 : n = Len(p.content) /\ rd = p.rd /\ rr = r.rd
  BY <1>1, RingType, Zenon
<1>3. /\ n <= c /\ n > 0 /\ p.wr = (rd + n) % c /\ rr = (rd + 1) % c
      /\ \A k \in 1 .. n : p.slot[(rd + k - 1) % c] = p.content[k]
  BY <1>1, <1>2, Zenon DEF Ring
<1>4. n <= c /\ n > 0 =>
        /\ rd + 1 \in Nat /\ rd + 1 < 2 * c /\ n - 1 \in Nat /\ n - 1 <= c
        /\ rr \in Nat /\ \A k \in 1 .. n - 1 : k + 1 \in 1 .. n
  OBVIOUS
<1>5. /\ rr = Wrap(rd + 1, c) /\ p.wr = Wrap(rd + n, c) /\ (rr + (n - 1)) % c = Wrap(rr + (n - 1), c)
      /\ \A k \in 1 .. n - 1 : (rr + k - 1) % c = Wrap(rr + k - 1, c)
      /\ \A k \in 1 .. n : (rd + k - 1) % c = Wrap(rd + k - 1, c)
  BY <1>3, <1>4, Around, Modulo, Zenon
<1>6. n <= c /\ n > 0 /\ rr = Wrap(rd + 1, c) =>
        /\ Wrap(rr + (n - 1), c) = Wrap(rd + n, c)
        /\ \A k \in 1 .. n - 1 : Wrap(rr + k - 1, c) = Wrap(rd + (k + 1) - 1, c)
  BY DEF Wrap
<1>7. Len(r.content) = n - 1 /\ \A k \in 1 .. n - 1 : r.content[k] = p.content[k + 1]
  <2>1. p.content \in Seq(Nat)
    BY RingType, Zenon
  <2>2. /\ Len(r.content) = Len(p.content) - 1
        /\ \A k \in 1 .. Len(p.content) - 1 : r.content[k] = p.content[k + 1]
    BY <2>1, Rest, Zenon
  <2> QED BY <1>2, <2>2, Zenon
<1>8. r.wr = (rr + (n - 1)) % c
  BY <1>3, <1>5, <1>6, Zenon
<1>9. ASSUME NEW k \in 1 .. n - 1
      PROVE  r.slot[(rr + k - 1) % c] = r.content[k]
  <2>1. k + 1 \in 1 .. n
    BY <1>3, <1>4, Zenon
  <2>2. (rr + k - 1) % c = (rd + (k + 1) - 1) % c
    BY <1>3, <1>5, <1>6, <2>1, Zenon
  <2> QED BY <1>3, <1>7, <2>1, <2>2, Zenon
<1> QED BY <1>1, <1>2, <1>3, <1>4, <1>7, <1>8, <1>9, Zenon DEF Ring

-----------------------------------------------------------------------------
(* yanin26: steps of threads *)

LEMMA TeamIsSmall ==
    /\ Producers \subseteq 1 .. 5 /\ Consumers \subseteq 1 .. 5 /\ Producers \cup Consumers \subseteq 1 .. 5
    /\ Producers \cap Consumers = {}
BY WorkshopAssumption, Zenon

\* From f to g the thread t has gone to l, and the others are where they were.
Moved(f, g, t, l) ==
    /\ g \in Threads /\ g[t].pc = l
    /\ \A u \in 1 .. 5 : u # t => g[u].pc = f[u].pc

LEMMA GoesMoves ==
    ASSUME NEW f \in Threads, NEW t \in 1 .. 5, NEW l \in Places
    PROVE  Moved(f, [f EXCEPT ![t].pc = l], t, l)
BY DEF Threads, Moved

LEMMA ReturnsMoves ==
    ASSUME NEW f \in Threads, NEW t \in 1 .. 5
    PROVE  Moved(f, Returns(f, t), t, "top")
<1>1. PICK n \in Nat : n = IF t \in Producers THEN (f[t].line + 1) % (t * DropEvery) ELSE 0
  <2>1. f[t].line + 1 \in Nat
    BY DEF Threads
  <2>2. PICK d \in Nat \ {0} : d = DropEvery
    BY Sizes, Zenon
  <2>3. t * d \in Nat \ {0}
    <3>1. (t = 1 \/ t = 2 \/ t = 3 \/ t = 4 \/ t = 5)
      OBVIOUS
    <3>2. 1 * d \in Nat \ {0} /\ 2 * d \in Nat \ {0} /\ 3 * d \in Nat \ {0} /\ 4 * d \in Nat \ {0} /\ 5 * d \in Nat \ {0}
      OBVIOUS
    <3> QED BY <3>1, <3>2, Zenon
  <2>4. (f[t].line + 1) % (t * d) \in 0 .. t * d - 1
    BY <2>1, <2>3, ModuloType, Zenon
  <2>5. 0 .. t * d - 1 \subseteq Nat
    BY <2>3
  <2>6. (f[t].line + 1) % (t * d) \in Nat /\ 0 \in Nat
    BY <2>4, <2>5
  <2> QED BY <2>2, <2>6, Zenon
<1>2. Returns(f, t) = [f EXCEPT ![t].pc = "top", ![t].line = n]
  BY <1>1, Zenon DEF Returns
<1>3. PICK g : g = [f EXCEPT ![t].pc = "top"]
  OBVIOUS
<1>4. Moved(f, g, t, "top")
  BY <1>3, GoesMoves DEF Places
<1>5. [g EXCEPT ![t].line = n] \in Threads /\ \A u \in 1 .. 5 : [g EXCEPT ![t].line = n][u].pc = g[u].pc
  BY <1>4 DEF Threads, Moved
<1> QED BY <1>2, <1>3, <1>4, <1>5, Zenon DEF Moved

\* From f to g the threads at c have gone to l.
Woke(f, g, c, l) ==
    /\ g \in Threads
    /\ \A u \in 1 .. 5 : (f[u].pc \in c => g[u].pc = l) /\ (f[u].pc \notin c => g[u].pc = f[u].pc)

LEMMA WakeMoves ==
    ASSUME NEW f \in Threads, NEW c \in SUBSET Places, NEW l \in Places
    PROVE  Woke(f, Wake(f, c, l), c, l)
BY DEF Threads, Wake, Woke

\* pthread_cond_signal wakes one of those that wait, if there are any.
LEMMA SignalMoves ==
    ASSUME NEW f \in Threads, NEW c \in Places, NEW g \in Signalled(f, c)
    PROVE  \/ g = f /\ \A u \in 1 .. 5 : f[u].pc # c
           \/ \E s \in 1 .. 5 : f[s].pc = c /\ Moved(f, g, s, "woken")
<1>1. DOMAIN f = 1 .. 5
  BY DEF Threads
<1>2. CASE \A u \in 1 .. 5 : f[u].pc # c
  <2>1. {t \in DOMAIN f : f[t].pc = c} = {}
    BY <1>1, <1>2, Zenon
  <2> QED BY <1>2, <2>1 DEF Signalled
<1>3. CASE \E u \in 1 .. 5 : f[u].pc = c
  <2>1. {t \in DOMAIN f : f[t].pc = c} # {}
    BY <1>1, <1>3, Zenon
  <2>2. PICK s \in 1 .. 5 : f[s].pc = c /\ g = [f EXCEPT ![s].pc = "woken"]
    BY <1>1, <2>1 DEF Signalled
  <2>3. "woken" \in Places
    BY Zenon DEF Places
  <2>4. Moved(f, g, s, "woken")
    BY <2>2, <2>3, GoesMoves, Zenon
  <2> QED BY <2>2, <2>4, Zenon
<1> QED BY <1>2, <1>3, Zenon

\* What a step of one thread does to the number of the calls under way.
LEMMA UnderFinite == ASSUME NEW f PROVE IsFiniteSet(Under(f)) /\ Cardinality(Under(f)) \in Nat
<1>1. IsFiniteSet(1 .. 5)
  <2>1. 1 \in Int /\ 5 \in Int
    OBVIOUS
  <2> QED BY <2>1, FS_Interval, Zenon
<1>2. Under(f) \subseteq 1 .. 5
  BY TeamIsSmall, Zenon DEF Under
<1>3. IsFiniteSet(Under(f))
  BY <1>1, <1>2, FS_Subset, Zenon
<1> QED BY <1>3, FS_CardinalityType, Zenon

Waiting == {"rd_wait", "wr_wait", "woken"}

LEMMA UnderSame ==
    ASSUME NEW f, NEW g, NEW t \in Producers \cup Consumers, NEW l, Moved(f, g, t, l),
           f[t].pc \in Waiting <=> l \in Waiting
    PROVE  Under(g) = Under(f)
<1>1. g[t].pc = l /\ \A u \in Producers \cup Consumers : u # t => g[u].pc = f[u].pc
  BY TeamIsSmall, Zenon DEF Moved
<1> QED BY <1>1, Zenon DEF Under, Waiting

LEMMA UnderLeaves ==
    ASSUME NEW f, NEW g, NEW t \in Producers \cup Consumers, NEW l, Moved(f, g, t, l),
           f[t].pc \in Waiting, l \notin Waiting
    PROVE  Cardinality(Under(g)) = Cardinality(Under(f)) - 1
<1>1. g[t].pc = l /\ \A u \in Producers \cup Consumers : u # t => g[u].pc = f[u].pc
  BY TeamIsSmall, Zenon DEF Moved
<1>2. Under(g) = Under(f) \ {t}
  BY <1>1, Zenon DEF Under, Waiting
<1>3. t \in Under(f)
  BY Zenon DEF Under, Waiting
<1> QED BY <1>2, <1>3, UnderFinite, FS_RemoveElement, Zenon

LEMMA UnderEnters ==
    ASSUME NEW f, NEW g, NEW t \in Producers \cup Consumers, NEW l, Moved(f, g, t, l),
           f[t].pc \notin Waiting, l \in Waiting
    PROVE  Cardinality(Under(g)) = Cardinality(Under(f)) + 1
<1>1. g[t].pc = l /\ \A u \in Producers \cup Consumers : u # t => g[u].pc = f[u].pc
  BY TeamIsSmall, Zenon DEF Moved
<1>2. Under(g) = Under(f) \cup {t}
  BY <1>1, Zenon DEF Under, Waiting
<1>3. t \notin Under(f)
  BY Zenon DEF Under, Waiting
<1> QED BY <1>2, <1>3, UnderFinite, FS_AddElement, Zenon

-----------------------------------------------------------------------------
(* yanin26: steps of the queue *)

SameRing(p, r) ==
    r.rd = p.rd /\ r.wr = p.wr /\ r.slot = p.slot /\ r.content = p.content /\ r.full = p.full

LEMMA PushFields ==
    ASSUME NEW p \in Queue, NEW m \in Nat, NEW r, r = quasi_push_unsync(p, m)
    PROVE  /\ r \in Queue /\ Pushed(p, r, m)
           /\ (r.full <=> r.wr = p.rd) /\ r.state = p.state /\ r.blocked = p.blocked
<1>1. PICK w \in 0 .. Capacity - 1 : w = (p.wr + 1) % Capacity
  <2>1. p.wr + 1 \in Nat
    BY RingType, Sizes
  <2> QED BY <2>1, Sizes, ModuloType, Zenon
<1>2. r = [p EXCEPT !.slot[p.wr] = m, !.wr = w, !.full = (w = p.rd), !.content = Append(@, m)]
  BY <1>1, Zenon DEF quasi_push_unsync
<1>3. p.content \in Seq(Nat)
  BY RingType, Zenon
<1>4. Append(p.content, m) \in Seq(Nat)
  BY <1>3
<1>5. PICK s \in Seq(Nat) : s = Append(p.content, m)
  BY <1>4, Zenon
<1>6. PICK a \in [0 .. Capacity - 1 -> Nat] : a = [p.slot EXCEPT ![p.wr] = m]
  <2>1. p.slot \in [0 .. Capacity - 1 -> Nat]
    BY RingType, Zenon
  <2> QED BY <2>1
<1>7. r = [p EXCEPT !.slot = a, !.wr = w, !.full = (w = p.rd), !.content = s]
  BY <1>2, <1>5, <1>6 DEF Queue
<1>8. /\ r.rd = p.rd /\ r.wr = w /\ r.slot = a /\ r.full = (w = p.rd) /\ r.state = p.state
      /\ r.blocked = p.blocked /\ r.content = s
  BY <1>7 DEF Queue
<1>9. r \in Queue
  BY <1>7 DEF Queue
<1> QED BY <1>1, <1>5, <1>6, <1>8, <1>9, Zenon DEF Pushed

LEMMA PopFields ==
    ASSUME NEW p \in Queue, Len(p.content) > 0, NEW r, r = quasi_pop_unsync(p)
    PROVE  /\ r \in Queue /\ Popped(p, r)
           /\ ~r.full /\ r.state = p.state /\ r.blocked = p.blocked
<1>1. PICK w \in 0 .. Capacity - 1 : w = (p.rd + 1) % Capacity
  <2>1. p.rd + 1 \in Nat
    BY RingType, Sizes
  <2> QED BY <2>1, Sizes, ModuloType, Zenon
<1>2. PICK s \in Seq(Nat) : s = SubSeq(p.content, 2, Len(p.content))
  BY RingType, Rest, Zenon
<1>3. r = [p EXCEPT !.rd = w, !.full = FALSE, !.content = s]
  BY <1>1, <1>2, Zenon DEF quasi_pop_unsync
<1>4. /\ r.rd = w /\ r.wr = p.wr /\ r.slot = p.slot /\ r.full = FALSE /\ r.state = p.state
      /\ r.blocked = p.blocked /\ r.content = s
  BY <1>3 DEF Queue
<1>5. r \in Queue
  BY <1>3 DEF Queue
<1> QED BY <1>1, <1>2, <1>4, <1>5, Zenon DEF Popped

LEMMA BlockedFields ==
    ASSUME NEW p \in Queue, NEW b \in Int, NEW r, r = [p EXCEPT !.blocked = b]
    PROVE  r \in Queue /\ SameRing(p, r) /\ r.state = p.state /\ r.blocked = b
<1>1. r \in Queue
  BY DEF Queue
<1>2. r.state = p.state /\ r.blocked = b
  BY DEF Queue
<1>3. SameRing(p, r)
  BY DEF Queue, SameRing
<1> QED BY <1>1, <1>2, <1>3

LEMMA FoundFields ==
    ASSUME NEW t, q \in Queue
    PROVE  /\ Found(t) \in Queue /\ SameRing(q, Found(t)) /\ Found(t).state = q.state
           /\ Found(t).blocked = IF At(t, "enter") THEN q.blocked + 1 ELSE q.blocked
<1>1. PICK b \in Int : b = q.blocked
  BY DEF Queue
<1>2. b + 1 \in Int
  OBVIOUS
<1>3. CASE At(t, "enter")
  <2>1. Found(t) = [q EXCEPT !.blocked = b + 1]
    BY <1>1, <1>3, Zenon DEF Found
  <2>2. Found(t) \in Queue /\ SameRing(q, Found(t)) /\ Found(t).state = q.state /\ Found(t).blocked = b + 1
    BY <1>2, <2>1, BlockedFields
  <2> QED BY <1>1, <1>3, <2>2, Zenon
<1>4. CASE ~At(t, "enter")
  <2>1. Found(t) = q
    BY <1>4, Zenon DEF Found
  <2> QED BY <1>4, <2>1, Zenon DEF SameRing
<1> QED BY <1>3, <1>4, Zenon

LEMMA LeavesFields ==
    ASSUME NEW p \in Queue
    PROVE  /\ Leaves(p) \in Queue /\ SameRing(p, Leaves(p)) /\ Leaves(p).state = p.state
           /\ Leaves(p).blocked = p.blocked - 1
<1>1. PICK b \in Int : b = p.blocked
  BY DEF Queue
<1>2. b - 1 \in Int
  OBVIOUS
<1>3. Leaves(p) = [p EXCEPT !.blocked = b - 1]
  BY <1>1, Zenon DEF Leaves
<1>4. Leaves(p) \in Queue /\ SameRing(p, Leaves(p)) /\ Leaves(p).state = p.state /\ Leaves(p).blocked = b - 1
  BY <1>2, <1>3, BlockedFields
<1> QED BY <1>1, <1>4, Zenon

LEMMA RingSame ==
    ASSUME NEW p, NEW r, SameRing(p, r), Ring(p)
    PROVE  Ring(r)
BY Zenon DEF SameRing, Ring

\* quasi_is_empty compares the cursors; full tells apart what they do not.
LEMMA EmptyRing ==
    ASSUME q \in Queue, Ring(q), q.full <=> Len(q.content) = Capacity
    PROVE  quasi_is_empty <=> Len(q.content) = 0
<1>1. PICK c \in Nat \ {0} : c = Capacity
  BY Sizes, Zenon
<1>2. PICK n \in Nat, rd \in 0 .. c - 1 : n = Len(q.content) /\ rd = q.rd
  BY <1>1, RingType, Zenon
<1>3. n <= c /\ q.wr = Wrap(rd + n, c)
  BY <1>1, <1>2, Around, Zenon DEF Ring
<1>4. n <= c => (n = 0 <=> Wrap(rd + n, c) = rd /\ n # c)
  BY DEF Wrap
<1> QED BY <1>1, <1>2, <1>3, <1>4, Zenon DEF quasi_is_empty

\* The queue as the last call of those under way at a drop leaves it.
LEMMA Unlocked ==
    ASSUME NEW p \in Queue, NEW f \in Threads, QuasiPre(p, f), quasi_unlock(p, f)
    PROVE  q' \in Queue /\ th' \in Threads /\ QuasiInv(q', th')
<1>1. Cardinality(Under(f)) = 0 <=> Under(f) = {}
  BY UnderFinite, FS_EmptySet, Zenon
<1>2. CASE p.state = "DROPPED" /\ p.blocked = 0
  <2>1. q' = [p EXCEPT !.state = "OK"] /\ th' = Wake(f, {"drop_wait"}, "enter")
    BY <1>2, Zenon DEF quasi_unlock
  <2>2. q' \in Queue /\ SameRing(p, q') /\ q'.state = "OK" /\ q'.blocked = p.blocked
    BY <2>1 DEF Queue, SameRing
  <2>3. PICK c \in SUBSET Places, l \in Places : c = {"drop_wait"} /\ l = "enter"
    BY DEF Places
  <2>4. /\ th' \in Threads
        /\ \A u \in 1 .. 5 : f[u].pc = "drop_wait" => th'[u].pc = "enter"
        /\ \A u \in 1 .. 5 : f[u].pc # "drop_wait" => th'[u].pc = f[u].pc
    <3>1. Woke(f, Wake(f, c, l), c, l)
      BY WakeMoves, Zenon
    <3>2. th' = Wake(f, c, l)
      BY <2>1, <2>3, Zenon
    <3> QED BY <2>3, <3>1, <3>2, Zenon DEF Woke
  <2>5. Under(f) = {} /\ ~Sleeps(f, "rd_wait") /\ ~Sleeps(f, "wr_wait")
    BY <1>1, <1>2, Zenon DEF QuasiPre
  <2>6. \A u \in Producers \cup Consumers : th'[u].pc \notin {"drop_wait", "rd_wait", "wr_wait", "woken"}
    BY <2>4, <2>5, TeamIsSmall DEF Under
  <2>7. Under(th') = {} /\ \A d \in {"drop_wait", "rd_wait", "wr_wait"} : ~Sleeps(th', d)
    BY <2>6, Zenon DEF Under, Sleeps
  <2>8. QuasiPlaces(th')
    BY <2>4, TeamIsSmall DEF QuasiPre, QuasiPlaces
  <2>9. Ring(q') /\ (q'.full <=> Len(q'.content) = Capacity)
    BY <2>2, RingSame, Zenon DEF QuasiPre, SameRing
  <2>10. q'.blocked = Cardinality(Under(th'))
    BY <2>2, <2>5, <2>7, Zenon DEF QuasiPre
  <2>11. q'.state # "DROPPED"
    BY <2>2
  <2> QED BY <2>2, <2>4, <2>7, <2>8, <2>9, <2>10, <2>11, Zenon DEF QuasiInv, QuasiPre
<1>3. CASE ~(p.state = "DROPPED" /\ p.blocked = 0)
  BY <1>1, <1>3, Zenon DEF quasi_unlock, QuasiInv, QuasiPre
<1> QED BY <1>2, <1>3, Zenon

-----------------------------------------------------------------------------
(* yanin26: the steps keep the invariant *)

Quasi == q \in Queue /\ th \in Threads /\ QuasiInv(q, th)

\* Awake: a reader, or a writer, that will look at the queue once more
Reads(f) == \E t \in Consumers : f[t].pc \in {"woken", "top", "enter", "done"}
Writes(f) == \E t \in Producers : f[t].pc \in {"woken", "top", "enter", "pushed", "done"}

\* The invariant, conjunct by conjunct.
LEMMA QuasiParts ==
    ASSUME NEW p, NEW f
    PROVE  QuasiPre(p, f) <=>
             /\ QuasiPlaces(f) /\ Ring(p) /\ (p.full <=> Len(p.content) = Capacity)
             /\ p.blocked = Cardinality(Under(f))
             /\ p.state = "DROPPED" => ~Sleeps(f, "rd_wait") /\ ~Sleeps(f, "wr_wait")
             /\ p.state = "OK" => ~Sleeps(f, "drop_wait")
             /\ Sleeps(f, "rd_wait") /\ Len(p.content) > 0 => Reads(f)
             /\ Sleeps(f, "wr_wait") /\ ~p.full => Writes(f)
BY Zenon DEF QuasiPre, Reads, Writes

\* A thread that is not counted as under way goes on, and none of those that
\* sleep on a condition of the queue.
LEMMA StepAside ==
    ASSUME Quasi, NEW t \in Producers \cup Consumers, NEW l, Moved(th, th', t, l), q' = q,
           th[t].pc \notin Waiting, l \in {"top", "enter", "done", "drop_wait"},
           l = "drop_wait" => q.state = "DROPPED"
    PROVE  Quasi'
<1>1. QuasiInv(q, th) /\ QuasiPre(q, th) /\ q' \in Queue /\ th' \in Threads
  BY Zenon DEF Quasi, QuasiInv, Moved
<1>2. th'[t].pc = l /\ t \in 1 .. 5 /\ \A u \in 1 .. 5 : u # t => th'[u].pc = th[u].pc
  BY TeamIsSmall, Zenon DEF Moved
<1>3. Under(th') = Under(th)
  <2>1. l \notin Waiting
    BY DEF Waiting
  <2> QED BY <2>1, UnderSame, Zenon
<1>4. QuasiPlaces(th')
  BY <1>1, <1>2, TeamIsSmall DEF QuasiPre, QuasiPlaces
<1>5. \A c \in {"rd_wait", "wr_wait"} : Sleeps(th', c) => Sleeps(th, c)
  BY <1>2, TeamIsSmall DEF Sleeps
<1>6. q.state = "OK" => ~Sleeps(th', "drop_wait")
  BY <1>1, <1>2, TeamIsSmall DEF Sleeps, QuasiPre
<1>7. q.state # "DROPPED" /\ Reads(th) => Reads(th')
  BY <1>2, TeamIsSmall DEF Reads
<1>8. q.state # "DROPPED" /\ Writes(th) => Writes(th')
  BY <1>2, TeamIsSmall DEF Writes
<1>9. QuasiPre(q, th')
  BY <1>1, <1>3, <1>4, <1>5, <1>6, <1>7, <1>8, QuasiParts
<1> QED BY <1>1, <1>3, <1>9, Zenon DEF Quasi, QuasiInv

\* A waiter is woken for no reason.
LEMMA SpuriousStep ==
    ASSUME Quasi, NEW t \in Producers \cup Consumers, Spurious(t)
    PROVE  Quasi'
<1>1. QuasiInv(q, th) /\ QuasiPre(q, th) /\ q \in Queue /\ th \in Threads
  BY Zenon DEF Quasi, QuasiInv
<1>2. th[t].pc \in {"rd_wait", "wr_wait"} /\ th' = [th EXCEPT ![t].pc = "woken"] /\ q' = q /\ t \in 1 .. 5
  BY TeamIsSmall, Zenon DEF Spurious, Goes
<1>3. "woken" \in Places
  BY Zenon DEF Places
<1>4. Moved(th, th', t, "woken")
  BY <1>1, <1>2, <1>3, GoesMoves, Zenon
<1>5. th'[t].pc = "woken" /\ (\A u \in 1 .. 5 : u # t => th'[u].pc = th[u].pc) /\ th' \in Threads
  BY <1>4, Zenon DEF Moved
<1>6. Under(th') = Under(th)
  <2>1. th[t].pc \in Waiting /\ "woken" \in Waiting
    BY <1>2, Zenon DEF Waiting
  <2> QED BY <1>4, <2>1, UnderSame, Zenon
<1>7. QuasiPlaces(th')
  BY <1>1, <1>2, <1>5, TeamIsSmall DEF QuasiPre, QuasiPlaces
<1>8. \A c \in {"rd_wait", "wr_wait", "drop_wait"} : Sleeps(th', c) => Sleeps(th, c)
  BY <1>5, TeamIsSmall DEF Sleeps
<1>9. (Reads(th) => Reads(th')) /\ (Writes(th) => Writes(th'))
  BY <1>5, TeamIsSmall DEF Reads, Writes
<1>10. QuasiPre(q, th')
  BY <1>1, <1>6, <1>7, <1>8, <1>9, QuasiParts
<1> QED BY <1>1, <1>2, <1>5, <1>6, <1>10, Zenon DEF Quasi, QuasiInv

\* The call of t is under way: what it finds.
LEMMA InsideFacts ==
    ASSUME Quasi, NEW t \in Producers \cup Consumers, Inside(t)
    PROVE  /\ QuasiInv(q, th) /\ QuasiPre(q, th) /\ q \in Queue /\ th \in Threads /\ t \in 1 .. 5
           /\ Found(t) \in Queue /\ SameRing(q, Found(t)) /\ Found(t).state = q.state
           /\ th[t].pc \in {"enter", "woken"} /\ Ring(Found(t))
           /\ th[t].pc = "enter" => Found(t).blocked = Cardinality(Under(th)) + 1
           /\ th[t].pc = "woken" => Found(t).blocked = Cardinality(Under(th))
           /\ Cardinality(Under(th)) \in Nat
           /\ th[t].pc = "enter" => q.state = "OK"
<1>1. QuasiInv(q, th) /\ QuasiPre(q, th) /\ q \in Queue /\ th \in Threads /\ t \in 1 .. 5
  BY TeamIsSmall, Zenon DEF Quasi, QuasiInv
<1>2. Found(t) \in Queue /\ SameRing(q, Found(t)) /\ Found(t).state = q.state
  BY <1>1, FoundFields, Zenon
<1>3. q.blocked = Cardinality(Under(th)) /\ Ring(q)
  BY <1>1, Zenon DEF QuasiPre
<1>4. th[t].pc = "enter" => Found(t).blocked = q.blocked + 1
  BY <1>1, FoundFields DEF At
<1>5. th[t].pc = "woken" => Found(t).blocked = q.blocked
  BY <1>1, FoundFields DEF At
<1>6. th[t].pc \in {"enter", "woken"} /\ (th[t].pc = "enter" => q.state = "OK")
  BY DEF Inside, At
<1>7. Ring(Found(t))
  BY <1>2, <1>3, RingSame, Zenon
<1> QED BY <1>1, <1>2, <1>3, <1>4, <1>5, <1>6, <1>7, UnderFinite, Zenon

\* A producer waits for a place, and a consumer for a message.
LEMMA WaitStep ==
    ASSUME Quasi, NEW t \in Producers \cup Consumers, Inside(t), q.state # "DROPPED", NEW l, q' = Found(t), Goes(t, l),
           (l = "wr_wait" /\ t \in Producers /\ q.full) \/ (l = "rd_wait" /\ t \in Consumers /\ Len(q.content) = 0)
    PROVE  Quasi'
<1>1. /\ QuasiInv(q, th) /\ QuasiPre(q, th) /\ q \in Queue /\ th \in Threads /\ t \in 1 .. 5
      /\ q' \in Queue /\ SameRing(q, q') /\ q'.state = q.state /\ Ring(q')
      /\ th[t].pc \in {"enter", "woken"}
      /\ th[t].pc = "enter" => q'.blocked = Cardinality(Under(th)) + 1
      /\ th[t].pc = "woken" => q'.blocked = Cardinality(Under(th))
  BY InsideFacts, Zenon
<1>2. l \in Places /\ th' = [th EXCEPT ![t].pc = l] /\ l \in Waiting
  BY DEF Goes, Places, Waiting
<1>3. Moved(th, th', t, l)
  BY <1>1, <1>2, GoesMoves, Zenon
<1>4. th'[t].pc = l /\ (\A u \in 1 .. 5 : u # t => th'[u].pc = th[u].pc) /\ th' \in Threads
  BY <1>3, Zenon DEF Moved
<1>5. q'.blocked = Cardinality(Under(th'))
  <2>1. "enter" \notin Waiting /\ "woken" \in Waiting
    BY DEF Waiting
  <2>2. CASE th[t].pc = "enter"
    BY <1>1, <1>2, <1>3, <2>1, <2>2, UnderEnters, Zenon
  <2>3. CASE th[t].pc = "woken"
    BY <1>1, <1>2, <1>3, <2>1, <2>3, UnderSame, Zenon
  <2> QED BY <1>1, <2>2, <2>3, Zenon
<1>6. QuasiPlaces(th')
  BY <1>1, <1>4, TeamIsSmall DEF QuasiPre, QuasiPlaces
<1>7. q.state = "OK" => ~Sleeps(th', "drop_wait")
  BY <1>1, <1>4, TeamIsSmall DEF QuasiPre, Sleeps
<1>8. Sleeps(th', "rd_wait") /\ Len(q.content) > 0 => Reads(th')
  <2> SUFFICES ASSUME Sleeps(th', "rd_wait"), Len(q.content) > 0 PROVE Reads(th')
    OBVIOUS
  <2>1. Len(q.content) # 0
    BY <1>1, RingType
  <2>2. l = "wr_wait" /\ t \in Producers
    BY <2>1, Zenon
  <2>3. Sleeps(th, "rd_wait")
    BY <1>4, <2>2, TeamIsSmall DEF Sleeps
  <2>4. Reads(th)
    BY <1>1, <2>3, QuasiParts, Zenon
  <2> QED BY <1>4, <2>2, <2>4, TeamIsSmall, Zenon DEF Reads
<1>9. Sleeps(th', "wr_wait") /\ ~q.full => Writes(th')
  <2> SUFFICES ASSUME Sleeps(th', "wr_wait"), ~q.full PROVE Writes(th')
    OBVIOUS
  <2>1. l = "rd_wait" /\ t \in Consumers
    BY Zenon
  <2>2. Sleeps(th, "wr_wait")
    BY <1>4, <2>1, TeamIsSmall DEF Sleeps
  <2>3. Writes(th)
    BY <1>1, <2>2, QuasiParts, Zenon
  <2> QED BY <1>4, <2>1, <2>3, TeamIsSmall, Zenon DEF Writes
<1>10. QuasiPre(q', th')
  <2>1. (q'.full <=> Len(q'.content) = Capacity) /\ q'.content = q.content /\ q'.full = q.full /\ q'.state # "DROPPED"
    BY <1>1, Zenon DEF SameRing, QuasiPre
  <2> QED BY <1>1, <1>5, <1>6, <1>7, <1>8, <1>9, <2>1, QuasiParts, Zenon
<1> QED BY <1>1, <1>4, <1>10, Zenon DEF Quasi, QuasiInv

\* A call that leaves is no longer counted; g: the threads when it has signalled.
LEMMA LeaveCounts ==
    ASSUME Quasi, NEW t \in Producers \cup Consumers, Inside(t), NEW g, Under(g) = Under(th), g[t].pc = th[t].pc,
           NEW f, NEW l \in {"top", "pushed"}, Moved(g, f, t, l), NEW b, b = Found(t).blocked
    PROVE  b - 1 = Cardinality(Under(f))
<1>1. /\ th[t].pc \in {"enter", "woken"} /\ Cardinality(Under(th)) \in Nat
      /\ th[t].pc = "enter" => b = Cardinality(Under(th)) + 1
      /\ th[t].pc = "woken" => b = Cardinality(Under(th))
  BY InsideFacts, Zenon
<1>2. "enter" \notin Waiting /\ "woken" \in Waiting /\ l \notin Waiting
  BY DEF Waiting
<1>3. PICK n \in Nat : n = Cardinality(Under(th))
  BY <1>1, Zenon
<1>4. CASE th[t].pc = "enter"
  <2>1. Under(f) = Under(g)
    BY <1>2, <1>4, UnderSame
  <2>2. (n + 1) - 1 = n
    OBVIOUS
  <2> QED BY <1>1, <1>3, <1>4, <2>1, <2>2, Zenon
<1>5. CASE th[t].pc = "woken"
  <2>1. Cardinality(Under(f)) = Cardinality(Under(g)) - 1
    BY <1>2, <1>5, UnderLeaves
  <2> QED BY <1>1, <1>5, <2>1, Zenon
<1> QED BY <1>1, <1>4, <1>5, Zenon

\* A call that finds the queue dropped returns.
LEMMA DroppedStep ==
    ASSUME Quasi, NEW t \in Producers \cup Consumers, Inside(t), q.state = "DROPPED", Dropped(t)
    PROVE  Quasi'
<1>1. /\ QuasiInv(q, th) /\ QuasiPre(q, th) /\ q \in Queue /\ th \in Threads /\ t \in 1 .. 5
      /\ Found(t) \in Queue /\ SameRing(q, Found(t)) /\ Found(t).state = q.state /\ Ring(Found(t))
      /\ th[t].pc \in {"enter", "woken"}
  BY InsideFacts, Zenon
<1>2. PICK p, f : p = Leaves(Found(t)) /\ f = Returns(th, t)
  OBVIOUS
<1>3. /\ p \in Queue /\ SameRing(Found(t), p) /\ p.state = Found(t).state /\ p.blocked = Found(t).blocked - 1
  BY <1>1, <1>2, LeavesFields, Zenon
<1>4. Moved(th, f, t, "top")
  BY <1>1, <1>2, ReturnsMoves, Zenon
<1>5. f[t].pc = "top" /\ (\A u \in 1 .. 5 : u # t => f[u].pc = th[u].pc) /\ f \in Threads
  BY <1>4, Zenon DEF Moved
<1>6. p.blocked = Cardinality(Under(f))
  <2>1. "top" \in {"top", "pushed"}
    OBVIOUS
  <2> QED BY <1>3, <1>4, <2>1, LeaveCounts, Zenon
<1>7. QuasiPlaces(f)
  BY <1>1, <1>5, TeamIsSmall DEF QuasiPre, QuasiPlaces
<1>8. ~Sleeps(f, "rd_wait") /\ ~Sleeps(f, "wr_wait")
  BY <1>1, <1>5, TeamIsSmall DEF QuasiPre, Sleeps
<1>9. Ring(p) /\ (p.full <=> Len(p.content) = Capacity)
  BY <1>1, <1>3, RingSame, Zenon DEF SameRing, QuasiPre
<1>10. p.state # "OK"
  BY <1>1, <1>3
<1>11. QuasiPre(p, f)
  BY <1>6, <1>7, <1>8, <1>9, <1>10, QuasiParts, Zenon
<1>12. quasi_unlock(p, f)
  BY <1>2, Zenon DEF Dropped
<1> QED BY <1>3, <1>5, <1>11, <1>12, Unlocked, Zenon DEF Quasi

\* What a signal to those at c leaves: g, in which one of them is awake, or none
\* was there.
LEMMA SignalFacts ==
    ASSUME Quasi, NEW c \in {"rd_wait", "wr_wait"}, NEW g \in Signalled(th, c)
    PROVE  /\ g \in Threads /\ Under(g) = Under(th) /\ QuasiPlaces(g)
           /\ \A u \in 1 .. 5 : g[u].pc = th[u].pc \/ (th[u].pc = c /\ g[u].pc = "woken")
           /\ \/ \A u \in 1 .. 5 : g[u].pc # c
              \/ \E s \in Producers \cup Consumers : th[s].pc = c /\ g[s].pc = "woken"
<1>1. th \in Threads /\ QuasiPlaces(th) /\ c \in Places /\ "woken" \in Places
  BY DEF Quasi, QuasiInv, QuasiPre, Places
<1>2. CASE g = th /\ \A u \in 1 .. 5 : th[u].pc # c
  BY <1>1, <1>2, Zenon
<1>3. ASSUME NEW s \in 1 .. 5, th[s].pc = c, Moved(th, g, s, "woken")
      PROVE  /\ g \in Threads /\ Under(g) = Under(th) /\ QuasiPlaces(g)
             /\ \A u \in 1 .. 5 : g[u].pc = th[u].pc \/ (th[u].pc = c /\ g[u].pc = "woken")
             /\ \E v \in Producers \cup Consumers : th[v].pc = c /\ g[v].pc = "woken"
  <2>1. g[s].pc = "woken" /\ (\A u \in 1 .. 5 : u # s => g[u].pc = th[u].pc) /\ g \in Threads
    BY <1>3, Zenon DEF Moved
  <2>2. s \in Producers \cup Consumers
    BY <1>1, <1>3 DEF QuasiPlaces
  <2>3. th[s].pc \in Waiting /\ "woken" \in Waiting
    BY <1>3, Zenon DEF Waiting
  <2>4. Under(g) = Under(th)
    BY <1>3, <2>2, <2>3, UnderSame, Zenon
  <2>5. QuasiPlaces(g)
    BY <1>1, <2>1, <2>2, TeamIsSmall DEF QuasiPlaces
  <2> QED BY <1>3, <2>1, <2>2, <2>4, <2>5, Zenon
<1> QED BY <1>1, <1>2, <1>3, SignalMoves, Zenon

\* A message is pushed.
LEMMA PushStep ==
    ASSUME Quasi, NEW t \in Producers, Inside(t), q.state # "DROPPED", ~quasi_is_full,
           NEW g, g \in IF quasi_is_empty THEN Signalled(th, "rd_wait") ELSE {th},
           quasi_unlock(Leaves(quasi_push_unsync(Found(t), t)),
                        IF th[t].line = 0 THEN [g EXCEPT ![t].pc = "pushed"] ELSE Returns(g, t))
    PROVE  Quasi'
<1>0. t \in Producers \cup Consumers /\ t \notin Consumers
  BY TeamIsSmall, Zenon
<1>1. /\ QuasiInv(q, th) /\ QuasiPre(q, th) /\ q \in Queue /\ th \in Threads /\ t \in 1 .. 5
      /\ Found(t) \in Queue /\ SameRing(q, Found(t)) /\ Found(t).state = q.state /\ Ring(Found(t))
      /\ th[t].pc \in {"enter", "woken"}
  BY <1>0, InsideFacts, Zenon
<1>2. PICK r, p, f : /\ r = quasi_push_unsync(Found(t), t) /\ p = Leaves(r)
                     /\ f = IF th[t].line = 0 THEN [g EXCEPT ![t].pc = "pushed"] ELSE Returns(g, t)
  OBVIOUS
<1>3. /\ r \in Queue /\ Pushed(Found(t), r, t) /\ (r.full <=> r.wr = Found(t).rd)
      /\ r.state = Found(t).state /\ r.blocked = Found(t).blocked
  <2>1. t \in Nat
    BY <1>1
  <2> QED BY <1>1, <1>2, <2>1, PushFields, Zenon
<1>4. Len(Found(t).content) < Capacity
  <2>1. Len(q.content) # Capacity /\ Len(q.content) <= Capacity /\ q.content = Found(t).content
    BY <1>1, Zenon DEF QuasiPre, Ring, quasi_is_full, SameRing
  <2>2. Len(q.content) \in Nat /\ Capacity \in Nat
    BY <1>1, RingType, Sizes, Zenon
  <2>3. PICK n \in Nat, c \in Nat : n = Len(q.content) /\ c = Capacity
    BY <2>2, Zenon
  <2>4. n # c /\ n <= c => n < c
    OBVIOUS
  <2> QED BY <2>1, <2>3, <2>4, Zenon
<1>5. Ring(r) /\ (r.wr = r.rd <=> Len(r.content) = Capacity) /\ Len(r.content) = Len(Found(t).content) + 1
  <2>1. t \in Nat
    BY <1>1
  <2> QED BY <1>1, <1>3, <1>4, <2>1, RingPush, Zenon
<1>6. p \in Queue /\ SameRing(r, p) /\ p.state = r.state /\ p.blocked = r.blocked - 1
  BY <1>2, <1>3, LeavesFields, Zenon
<1>7. Ring(p) /\ (p.full <=> Len(p.content) = Capacity) /\ p.state = q.state
  <2>1. Ring(p)
    BY <1>5, <1>6, RingSame, Zenon
  <2>2. r.full <=> Len(r.content) = Capacity
    BY <1>3, <1>5, Zenon DEF Pushed
  <2> QED BY <1>1, <1>3, <1>6, <2>1, <2>2, Zenon DEF SameRing
<1>8. /\ g \in Threads /\ Under(g) = Under(th) /\ QuasiPlaces(g)
      /\ \A u \in 1 .. 5 : g[u].pc = th[u].pc \/ (th[u].pc = "rd_wait" /\ g[u].pc = "woken")
  <2>1. CASE quasi_is_empty
    <3>1. g \in Signalled(th, "rd_wait") /\ "rd_wait" \in {"rd_wait", "wr_wait"}
      BY <2>1
    <3> QED BY <3>1, SignalFacts, Zenon
  <2>2. CASE ~quasi_is_empty
    BY <1>1, <2>2, Zenon DEF QuasiPre
  <2> QED BY <2>1, <2>2, Zenon
<1>9. PICK l \in {"top", "pushed"} : Moved(g, f, t, l)
  <2>1. "pushed" \in Places
    BY Zenon DEF Places
  <2>2. Moved(g, [g EXCEPT ![t].pc = "pushed"], t, "pushed") /\ Moved(g, Returns(g, t), t, "top")
    BY <1>1, <1>8, <2>1, GoesMoves, ReturnsMoves, Zenon
  <2> QED BY <1>2, <2>2, Zenon
<1>10. f[t].pc = l /\ (\A u \in 1 .. 5 : u # t => f[u].pc = g[u].pc) /\ f \in Threads
  BY <1>9, Zenon DEF Moved
<1>11. p.blocked = Cardinality(Under(f))
  <2>1. g[t].pc = th[t].pc
    BY <1>1, <1>8
  <2>2. \A b : b = Found(t).blocked => b - 1 = Cardinality(Under(f))
    BY <1>0, <1>8, <1>9, <2>1, LeaveCounts
  <2> QED BY <1>3, <1>6, <2>2, Zenon
<1>12. QuasiPlaces(f)
  BY <1>0, <1>8, <1>10, TeamIsSmall DEF QuasiPlaces
<1>13. p.state = "OK" => ~Sleeps(f, "drop_wait")
  BY <1>1, <1>7, <1>8, <1>10, TeamIsSmall, ZenonT(40) DEF QuasiPre, Sleeps
<1>14. Writes(f)
  BY <1>10, Zenon DEF Writes
<1>15. Sleeps(f, "rd_wait") => Reads(f)
  <2> SUFFICES ASSUME Sleeps(f, "rd_wait") PROVE Reads(f)
    OBVIOUS
  <2>1. CASE quasi_is_empty
    <3>1. g \in Signalled(th, "rd_wait") /\ "rd_wait" \in {"rd_wait", "wr_wait"}
      BY <2>1
    <3>2. \/ \A u \in 1 .. 5 : g[u].pc # "rd_wait"
          \/ \E s \in Producers \cup Consumers : th[s].pc = "rd_wait" /\ g[s].pc = "woken"
      BY <3>1, SignalFacts, Zenon
    <3>3. \E u \in 1 .. 5 : g[u].pc = "rd_wait"
      BY <1>10, TeamIsSmall DEF Sleeps
    <3>4. PICK s \in Producers \cup Consumers : th[s].pc = "rd_wait" /\ g[s].pc = "woken"
      BY <3>2, <3>3, Zenon
    <3>5. s \in Consumers
      BY <1>1, <3>4 DEF QuasiPre, QuasiPlaces
    <3> QED BY <1>0, <1>10, <3>4, <3>5, TeamIsSmall, Zenon DEF Reads
  <2>2. CASE ~quasi_is_empty
    <3>1. g = th
      BY <2>2, Zenon
    <3>2. Sleeps(th, "rd_wait")
      BY <1>10, <3>1, TeamIsSmall DEF Sleeps
    <3>3. Len(q.content) > 0
      <4>1. Len(q.content) # 0 /\ Len(q.content) \in Nat
        BY <1>1, <2>2, EmptyRing, RingType, Zenon DEF QuasiPre
      <4> QED BY <4>1
    <3>4. Reads(th)
      BY <1>1, <3>2, <3>3, QuasiParts, Zenon
    <3> QED BY <1>0, <1>10, <3>1, <3>4, TeamIsSmall, Zenon DEF Reads
  <2> QED BY <2>1, <2>2, Zenon
<1>16. p.state # "DROPPED"
  BY <1>7, Zenon
<1>17. QuasiPre(p, f)
  BY <1>7, <1>11, <1>12, <1>13, <1>14, <1>15, <1>16, QuasiParts, Zenon
<1>18. quasi_unlock(p, f)
  BY <1>2, Zenon
<1> QED BY <1>6, <1>10, <1>17, <1>18, Unlocked, Zenon DEF Quasi

\* A message is popped.
LEMMA PopStep ==
    ASSUME Quasi, NEW t \in Consumers, Inside(t), q.state # "DROPPED", ~quasi_is_empty,
           NEW g, g \in IF quasi_is_full THEN Signalled(th, "wr_wait") ELSE {th},
           quasi_unlock(Leaves(quasi_pop_unsync(Found(t))), Returns(g, t))
    PROVE  Quasi'
<1>0. t \in Producers \cup Consumers /\ t \notin Producers
  BY TeamIsSmall, Zenon
<1>1. /\ QuasiInv(q, th) /\ QuasiPre(q, th) /\ q \in Queue /\ th \in Threads /\ t \in 1 .. 5
      /\ Found(t) \in Queue /\ SameRing(q, Found(t)) /\ Found(t).state = q.state /\ Ring(Found(t))
      /\ th[t].pc \in {"enter", "woken"}
  BY <1>0, InsideFacts, Zenon
<1>2. PICK r, p, f : r = quasi_pop_unsync(Found(t)) /\ p = Leaves(r) /\ f = Returns(g, t)
  OBVIOUS
<1>3. Len(Found(t).content) > 0
  <2>1. Len(q.content) # 0 /\ Len(q.content) \in Nat
    BY <1>1, EmptyRing, RingType, Zenon DEF QuasiPre
  <2>2. Len(q.content) > 0
    BY <2>1
  <2> QED BY <1>1, <2>2, Zenon DEF SameRing
<1>4. /\ r \in Queue /\ Popped(Found(t), r) /\ ~r.full
      /\ r.state = Found(t).state /\ r.blocked = Found(t).blocked
  BY <1>1, <1>2, <1>3, PopFields, Zenon
<1>5. Ring(r) /\ Len(r.content) # Capacity
  <2>1. Ring(r) /\ Len(r.content) = Len(Found(t).content) - 1
    BY <1>1, <1>3, <1>4, RingPop, Zenon
  <2>2. Len(Found(t).content) <= Capacity
    BY <1>1, Zenon DEF Ring
  <2>3. PICK n \in Nat, c \in Nat : n = Len(Found(t).content) /\ c = Capacity
    BY <1>1, RingType, Sizes, Zenon
  <2>4. n <= c => n - 1 # c
    OBVIOUS
  <2> QED BY <2>1, <2>2, <2>3, <2>4, Zenon
<1>6. p \in Queue /\ SameRing(r, p) /\ p.state = r.state /\ p.blocked = r.blocked - 1
  BY <1>2, <1>4, LeavesFields, Zenon
<1>7. Ring(p) /\ (p.full <=> Len(p.content) = Capacity) /\ p.state = q.state
  <2>1. Ring(p)
    BY <1>5, <1>6, RingSame, Zenon
  <2> QED BY <1>1, <1>4, <1>5, <1>6, <2>1, Zenon DEF SameRing
<1>8. /\ g \in Threads /\ Under(g) = Under(th) /\ QuasiPlaces(g)
      /\ \A u \in 1 .. 5 : g[u].pc = th[u].pc \/ (th[u].pc = "wr_wait" /\ g[u].pc = "woken")
  <2>1. CASE quasi_is_full
    <3>1. g \in Signalled(th, "wr_wait") /\ "wr_wait" \in {"rd_wait", "wr_wait"}
      BY <2>1
    <3> QED BY <3>1, SignalFacts, Zenon
  <2>2. CASE ~quasi_is_full
    BY <1>1, <2>2, Zenon DEF QuasiPre
  <2> QED BY <2>1, <2>2, Zenon
<1>9. PICK l \in {"top", "pushed"} : Moved(g, f, t, l) /\ l = "top"
  <2>1. Moved(g, f, t, "top")
    BY <1>1, <1>2, <1>8, ReturnsMoves, Zenon
  <2> QED BY <2>1, Zenon
<1>10. f[t].pc = l /\ (\A u \in 1 .. 5 : u # t => f[u].pc = g[u].pc) /\ f \in Threads
  BY <1>9, Zenon DEF Moved
<1>11. p.blocked = Cardinality(Under(f))
  <2>1. g[t].pc = th[t].pc
    BY <1>1, <1>8
  <2>2. \A b : b = Found(t).blocked => b - 1 = Cardinality(Under(f))
    BY <1>0, <1>8, <1>9, <2>1, LeaveCounts
  <2> QED BY <1>4, <1>6, <2>2, Zenon
<1>12. QuasiPlaces(f)
  BY <1>0, <1>8, <1>9, <1>10, TeamIsSmall DEF QuasiPlaces
<1>13. p.state = "OK" => ~Sleeps(f, "drop_wait")
  BY <1>1, <1>7, <1>8, <1>10, TeamIsSmall, ZenonT(40) DEF QuasiPre, Sleeps
<1>14. Reads(f)
  BY <1>9, <1>10, Zenon DEF Reads
<1>15. Sleeps(f, "wr_wait") => Writes(f)
  <2> SUFFICES ASSUME Sleeps(f, "wr_wait") PROVE Writes(f)
    OBVIOUS
  <2>1. CASE quasi_is_full
    <3>1. g \in Signalled(th, "wr_wait") /\ "wr_wait" \in {"rd_wait", "wr_wait"}
      BY <2>1
    <3>2. \/ \A u \in 1 .. 5 : g[u].pc # "wr_wait"
          \/ \E s \in Producers \cup Consumers : th[s].pc = "wr_wait" /\ g[s].pc = "woken"
      BY <3>1, SignalFacts, Zenon
    <3>3. \E u \in 1 .. 5 : g[u].pc = "wr_wait"
      BY <1>10, TeamIsSmall DEF Sleeps
    <3>4. PICK s \in Producers \cup Consumers : th[s].pc = "wr_wait" /\ g[s].pc = "woken"
      BY <3>2, <3>3, Zenon
    <3>5. s \in Producers
      BY <1>1, <3>4 DEF QuasiPre, QuasiPlaces
    <3> QED BY <1>0, <1>10, <3>4, <3>5, TeamIsSmall, Zenon DEF Writes
  <2>2. CASE ~quasi_is_full
    <3>1. g = th
      BY <2>2, Zenon
    <3>2. Sleeps(th, "wr_wait")
      BY <1>10, <3>1, TeamIsSmall DEF Sleeps
    <3>3. ~q.full
      BY <2>2, Zenon DEF quasi_is_full
    <3>4. Writes(th)
      BY <1>1, <3>2, <3>3, QuasiParts, Zenon
    <3> QED BY <1>0, <1>10, <3>1, <3>4, TeamIsSmall, Zenon DEF Writes
  <2> QED BY <2>1, <2>2, Zenon
<1>16. p.state # "DROPPED"
  BY <1>7, Zenon
<1>17. QuasiPre(p, f)
  BY <1>7, <1>11, <1>12, <1>13, <1>14, <1>15, <1>16, QuasiParts, Zenon
<1>18. quasi_unlock(p, f)
  BY <1>2, Zenon
<1> QED BY <1>6, <1>10, <1>17, <1>18, Unlocked, Zenon DEF Quasi

\* A drop empties the queue and wakes all that wait in it; f: the threads when
\* the caller has gone on.
LEMMA DropStep ==
    ASSUME Quasi, NEW f \in Threads, Under(f) = Under(th), QuasiPlaces(f), quasi_drop(f)
    PROVE  Quasi'
<1>1. QuasiPre(q, th) /\ q \in Queue
  BY Zenon DEF Quasi, QuasiInv
<1>2. PICK p, g : /\ p = [q EXCEPT !.state = "DROPPED", !.rd = 0, !.wr = 0, !.full = FALSE, !.content = <<>>]
                  /\ g = Wake(f, quasi_drop_wakes, "woken")
  OBVIOUS
<1>3. /\ p \in Queue /\ p.state = "DROPPED" /\ p.rd = 0 /\ p.wr = 0 /\ ~p.full /\ p.content = <<>>
      /\ p.blocked = q.blocked
  <2>0. 0 \in 0 .. Capacity - 1 /\ <<>> \in Seq(Nat)
    BY Sizes
  <2>1. PICK z \in 0 .. Capacity - 1, e \in Seq(Nat) : z = 0 /\ e = <<>>
    BY <2>0, Zenon
  <2>2. p = [q EXCEPT !.state = "DROPPED", !.rd = z, !.wr = z, !.full = FALSE, !.content = e]
    BY <1>2, <2>1, Zenon
  <2>3. p \in Queue
    BY <1>1, <2>2 DEF Queue
  <2>4. p.state = "DROPPED" /\ p.rd = z /\ p.wr = z /\ ~p.full /\ p.content = e /\ p.blocked = q.blocked
    BY <1>1, <2>2 DEF Queue
  <2> QED BY <2>1, <2>3, <2>4, Zenon
<1>4. Ring(p) /\ (p.full <=> Len(p.content) = Capacity)
  <2>1. Len(p.content) = 0
    BY <1>3
  <2>2. (0 + 0) % Capacity = 0 /\ 0 <= Capacity /\ 0 # Capacity
    BY Sizes
  <2>3. \A k \in 1 .. 0 : FALSE
    OBVIOUS
  <2> QED BY <1>3, <2>1, <2>2, <2>3, Zenon DEF Ring
<1>5. Woke(f, g, {"rd_wait", "wr_wait"}, "woken")
  <2>1. PICK c \in SUBSET Places, l \in Places : c = {"rd_wait", "wr_wait"} /\ l = "woken"
    BY DEF Places
  <2>2. Woke(f, Wake(f, c, l), c, l)
    BY WakeMoves, Zenon
  <2> QED BY <1>2, <2>1, <2>2, Zenon DEF quasi_drop_wakes
<1>6. /\ g \in Threads
      /\ \A u \in 1 .. 5 : f[u].pc \in {"rd_wait", "wr_wait"} => g[u].pc = "woken"
      /\ \A u \in 1 .. 5 : f[u].pc \notin {"rd_wait", "wr_wait"} => g[u].pc = f[u].pc
  BY <1>5, Zenon DEF Woke
<1>7. Under(g) = Under(f)
  <2>1. Under(g) \subseteq Under(f)
    BY <1>6, TeamIsSmall DEF Under
  <2>2. Under(f) \subseteq Under(g)
    BY <1>6, TeamIsSmall DEF Under
  <2> QED BY <2>1, <2>2, Zenon
<1>8. p.blocked = Cardinality(Under(g))
  BY <1>1, <1>3, <1>7, Zenon DEF QuasiPre
<1>9. QuasiPlaces(g)
  BY <1>6, TeamIsSmall DEF QuasiPlaces
<1>10. ~Sleeps(g, "rd_wait") /\ ~Sleeps(g, "wr_wait")
  BY <1>6, TeamIsSmall DEF Sleeps
<1>11. p.state # "OK"
  BY <1>3
<1>12. QuasiPre(p, g)
  BY <1>4, <1>8, <1>9, <1>10, <1>11, QuasiParts, Zenon
<1>13. quasi_unlock(p, g)
  BY <1>2, Zenon DEF quasi_drop
<1> QED BY <1>3, <1>6, <1>12, <1>13, Unlocked, Zenon DEF Quasi

\* quasi_lock_clean and quasi_push, quasi_pop.
LEMMA CallStep ==
    ASSUME Quasi, NEW t,
           (t \in Producers /\ (quasi_lock_clean(t) \/ quasi_push(t)))
             \/ (t \in Consumers /\ (quasi_lock_clean(t) \/ quasi_pop(t)))
    PROVE  Quasi'
<1>1. t \in Producers \cup Consumers /\ t \in 1 .. 5 /\ th \in Threads /\ QuasiPre(q, th) /\ q \in Queue
  BY TeamIsSmall, Zenon DEF Quasi, QuasiInv
<1>2. CASE quasi_lock_clean(t)
  <2>1. th[t].pc = "enter" /\ q.state = "DROPPED" /\ th' = [th EXCEPT ![t].pc = "drop_wait"] /\ q' = q
    BY <1>2, Zenon DEF quasi_lock_clean, At, Goes
  <2>2. "drop_wait" \in Places /\ "enter" \notin Waiting
    BY DEF Places, Waiting
  <2>3. Moved(th, th', t, "drop_wait")
    BY <1>1, <2>1, <2>2, GoesMoves, Zenon
  <2> QED BY <1>1, <2>1, <2>2, <2>3, StepAside, Zenon
<1>3. CASE t \in Producers /\ quasi_push(t)
  <2>1. Inside(t)
    BY <1>3, Zenon DEF quasi_push
  <2>2. CASE q.state = "DROPPED"
    BY <1>1, <1>3, <2>1, <2>2, DroppedStep, Zenon DEF quasi_push
  <2>3. CASE q.state # "DROPPED" /\ quasi_is_full
    <3>1. q' = Found(t) /\ Goes(t, "wr_wait") /\ q.full
      BY <1>3, <2>3, Zenon DEF quasi_push, quasi_is_full
    <3> QED BY <1>1, <1>3, <2>1, <2>3, <3>1, WaitStep, Zenon
  <2>4. CASE q.state # "DROPPED" /\ ~quasi_is_full
    <3>1. PICK g \in IF quasi_is_empty THEN Signalled(th, "rd_wait") ELSE {th} :
            quasi_unlock(Leaves(quasi_push_unsync(Found(t), t)),
                         IF th[t].line = 0 THEN [g EXCEPT ![t].pc = "pushed"] ELSE Returns(g, t))
      BY <1>3, <2>4, Zenon DEF quasi_push
    <3> QED BY <1>3, <2>1, <2>4, <3>1, PushStep, Zenon
  <2> QED BY <2>2, <2>3, <2>4, Zenon
<1>4. CASE t \in Consumers /\ quasi_pop(t)
  <2>1. Inside(t)
    BY <1>4, Zenon DEF quasi_pop
  <2>2. CASE q.state = "DROPPED"
    BY <1>1, <1>4, <2>1, <2>2, DroppedStep, Zenon DEF quasi_pop
  <2>3. CASE q.state # "DROPPED" /\ quasi_is_empty
    <3>1. q' = Found(t) /\ Goes(t, "rd_wait")
      BY <1>4, <2>3, Zenon DEF quasi_pop
    <3>2. Len(q.content) = 0
      BY <1>1, <2>3, EmptyRing, Zenon DEF QuasiPre
    <3> QED BY <1>1, <1>4, <2>1, <2>3, <3>1, <3>2, WaitStep, Zenon
  <2>4. CASE q.state # "DROPPED" /\ ~quasi_is_empty
    <3>1. PICK g \in IF quasi_is_full THEN Signalled(th, "wr_wait") ELSE {th} :
            quasi_unlock(Leaves(quasi_pop_unsync(Found(t))), Returns(g, t))
      BY <1>4, <2>4, Zenon DEF quasi_pop
    <3> QED BY <1>4, <2>1, <2>4, <3>1, PopStep, Zenon
  <2> QED BY <2>2, <2>3, <2>4, Zenon
<1> QED BY <1>2, <1>3, <1>4, Zenon

\* A thread goes to the head of its loop, into a call, or ends.
LEMMA PlainStep ==
    ASSUME Quasi, NEW t \in Producers \cup Consumers, NEW l \in {"top", "enter", "done"},
           th[t].pc \in {"none", "top"}, Goes(t, l), q' = q
    PROVE  Quasi'
<1>1. t \in 1 .. 5 /\ th \in Threads
  BY TeamIsSmall, Zenon DEF Quasi
<1>2. l \in Places /\ th[t].pc \notin Waiting
  BY DEF Places, Waiting
<1>3. Moved(th, th', t, l)
  BY <1>1, <1>2, GoesMoves, Zenon DEF Goes
<1> QED BY <1>2, <1>3, StepAside

\* The environment keeps its shape, and nothing slips.
EnvKept == env' \in Environment /\ env'.slip = env.slip

LEMMA EnvChanges ==
    ASSUME env \in Environment
    PROVE  /\ UNCHANGED env => EnvKept
           /\ \A m \in {"create", "run", "drop", "flag", "join", "end"} : env' = [env EXCEPT !.main = m] => EnvKept
           /\ env' = [env EXCEPT !.main = "drop", !.faults = @ - 1] => EnvKept
           /\ env' = [env EXCEPT !.main = "join", !.interrupted = TRUE] => EnvKept
           /\ env' = [env EXCEPT !.faults = @ - 1, !.signal = TRUE] => EnvKept
           /\ env' = [env EXCEPT !.signal = TRUE] => EnvKept
           /\ \A b \in BOOLEAN : env' = [env EXCEPT !.late = b] => EnvKept
<1> USE DEF Environment, EnvKept
<1>1. UNCHANGED env => EnvKept
  OBVIOUS
<1>2. \A m \in {"create", "run", "drop", "flag", "join", "end"} : env' = [env EXCEPT !.main = m] => EnvKept
  OBVIOUS
<1>3. env' = [env EXCEPT !.main = "drop", !.faults = @ - 1] => EnvKept
  <2>1. PICK k \in Int : k = env.faults - 1
    OBVIOUS
  <2>2. env' = [env EXCEPT !.main = "drop", !.faults = k] => EnvKept
    OBVIOUS
  <2> QED BY <2>1, <2>2, Zenon
<1>4. env' = [env EXCEPT !.main = "join", !.interrupted = TRUE] => EnvKept
  OBVIOUS
<1>5. env' = [env EXCEPT !.faults = @ - 1, !.signal = TRUE] => EnvKept
  <2>1. PICK k \in Int : k = env.faults - 1
    OBVIOUS
  <2>2. env' = [env EXCEPT !.faults = k, !.signal = TRUE] => EnvKept
    OBVIOUS
  <2> QED BY <2>1, <2>2, Zenon
<1>6. env' = [env EXCEPT !.signal = TRUE] => EnvKept
  OBVIOUS
<1>7. \A b \in BOOLEAN : env' = [env EXCEPT !.late = b] => EnvKept
  OBVIOUS
<1> HIDE DEF Environment, EnvKept
<1> QED BY <1>1, <1>2, <1>3, <1>4, <1>5, <1>6, <1>7, Zenon

\* Every step of yanin26.
LEMMA QuasiNext ==
    ASSUME Quasi, env \in Environment, lab = "yanin26", Next
    PROVE  Quasi' /\ EnvKept
<1>1. Team = Producers \cup Consumers
  BY DEF Team, Queues
<1>2. Quasi /\ q' = q /\ th' = th => Quasi'
  BY Zenon DEF Quasi
<1>3. ASSUME NEW t \in Producers \cup Consumers, Spurious(t) PROVE Quasi' /\ EnvKept
  BY <1>3, SpuriousStep, EnvChanges, Zenon DEF Spurious
<1>4. CASE Interrupt
  BY <1>2, <1>4, EnvChanges, Zenon DEF Interrupt
<1>5. ASSUME NEW t, (t \in Producers /\ (quasi_lock_clean(t) \/ quasi_push(t)))
                      \/ (t \in Consumers /\ (quasi_lock_clean(t) \/ quasi_pop(t))),
             env' = [env EXCEPT !.late = @ \/ (Inside(t) /\ At(t, "enter") /\ env.main \in {"flag", "join"})]
      PROVE  Quasi' /\ EnvKept
  <2>1. PICK b \in BOOLEAN : b = (env.late \/ (Inside(t) /\ At(t, "enter") /\ env.main \in {"flag", "join"}))
    OBVIOUS
  <2>2. env' = [env EXCEPT !.late = b]
    BY <1>5, <2>1, Zenon
  <2> QED BY <1>5, <2>2, CallStep, EnvChanges, Zenon
<1>6. ASSUME NEW t \in Producers, yanin26_producer_thread(t) PROVE Quasi' /\ EnvKept
  <2>0. t \in Producers \cup Consumers /\ t \in 1 .. 5 /\ th \in Threads /\ QuasiPlaces(th)
    BY TeamIsSmall, Zenon DEF Quasi, QuasiInv, QuasiPre
  <2>1. CASE At(t, "top") /\ Goes(t, "done") /\ UNCHANGED <<q, env>>
    BY <2>0, <2>1, PlainStep, EnvChanges, Zenon DEF At
  <2>2. CASE At(t, "top") /\ Goes(t, "enter") /\ UNCHANGED <<q, env>>
    BY <2>0, <2>2, PlainStep, EnvChanges, Zenon DEF At
  <2>3. CASE At(t, "top") /\ Goes(t, "done") /\ UNCHANGED q /\ env' = [env EXCEPT !.faults = @ - 1, !.signal = TRUE]
    BY <2>0, <2>3, PlainStep, EnvChanges, Zenon DEF At
  <2>4. CASE At(t, "pushed") /\ quasi_drop(Returns(th, t)) /\ UNCHANGED env
    <3>1. PICK f : f = Returns(th, t)
      OBVIOUS
    <3>2. Moved(th, f, t, "top")
      BY <2>0, <3>1, ReturnsMoves, Zenon
    <3>3. f[t].pc = "top" /\ (\A u \in 1 .. 5 : u # t => f[u].pc = th[u].pc) /\ f \in Threads
      BY <3>2, Zenon DEF Moved
    <3>4. th[t].pc \notin Waiting /\ "top" \notin Waiting
      BY <2>4 DEF At, Waiting
    <3>5. Under(f) = Under(th)
      BY <2>0, <3>2, <3>4, UnderSame, Zenon
    <3>6. QuasiPlaces(f)
      BY <2>0, <3>3, TeamIsSmall DEF QuasiPlaces
    <3> QED BY <2>4, <3>1, <3>3, <3>5, <3>6, DropStep, EnvChanges, Zenon
  <2>5. CASE /\ quasi_lock_clean(t) \/ quasi_push(t)
             /\ env' = [env EXCEPT !.late = @ \/ (Inside(t) /\ At(t, "enter") /\ env.main \in {"flag", "join"})]
    BY <1>5, <2>5, Zenon
  <2> QED BY <1>6, <2>1, <2>2, <2>3, <2>4, <2>5, Zenon DEF yanin26_producer_thread
<1>7. ASSUME NEW t \in Consumers, yanin26_consumer_thread(t) PROVE Quasi' /\ EnvKept
  <2>1. CASE At(t, "top") /\ Goes(t, IF env.interrupted THEN "done" ELSE "enter") /\ UNCHANGED <<q, env>>
    <3>1. PICK l \in {"top", "enter", "done"} : Goes(t, l)
      BY <2>1, Zenon
    <3> QED BY <2>1, <3>1, PlainStep, EnvChanges, Zenon DEF At
  <2>2. CASE /\ quasi_lock_clean(t) \/ quasi_pop(t)
             /\ env' = [env EXCEPT !.late = @ \/ (Inside(t) /\ At(t, "enter") /\ env.main \in {"flag", "join"})]
    BY <1>5, <1>7, <2>2, Zenon
  <2> QED BY <1>7, <2>1, <2>2, Zenon DEF yanin26_consumer_thread
<1>8. CASE yanin26_main
  <2>1. ASSUME NEW t \in Producers \cup Consumers, Starts(t), Goes(t, "top"), UNCHANGED <<q, env>>
        PROVE  Quasi' /\ EnvKept
    BY <2>1, PlainStep, EnvChanges, Zenon DEF Starts
  <2>2. CASE env' = [env EXCEPT !.main = "drop", !.faults = @ - 1] /\ UNCHANGED <<th, q>>
    BY <1>2, <2>2, EnvChanges, Zenon
  <2>3. ASSUME NEW m \in {"create", "run", "drop", "flag", "join", "end"}, env' = [env EXCEPT !.main = m], UNCHANGED <<th, q>>
        PROVE  Quasi' /\ EnvKept
    BY <1>2, <2>3, EnvChanges, Zenon
  <2>4. CASE quasi_drop(th) /\ env' = [env EXCEPT !.main = "flag"]
    <3>1. th \in Threads /\ QuasiPlaces(th)
      BY Zenon DEF Quasi, QuasiInv, QuasiPre
    <3> QED BY <2>4, <3>1, DropStep, EnvChanges, Zenon
  <2>5. CASE env' = [env EXCEPT !.main = "join", !.interrupted = TRUE] /\ UNCHANGED <<th, q>>
    BY <1>2, <2>5, EnvChanges, Zenon
  <2> QED BY <1>1, <1>8, <2>1, <2>2, <2>3, <2>4, <2>5, Zenon DEF yanin26_main
<1>9. MainStep => yanin26_main
  BY DEF MainStep
<1>10. ASSUME NEW t, ThreadStep(t)
       PROVE  (t \in Producers /\ yanin26_producer_thread(t)) \/ (t \in Consumers /\ yanin26_consumer_thread(t))
  BY <1>10 DEF ThreadStep, Queues
<1> QED BY <1>1, <1>3, <1>4, <1>6, <1>7, <1>8, <1>9, <1>10, Zenon DEF Next

-----------------------------------------------------------------------------
(* pchelintsev25 *)

LEMMA CountedFinite ==
    ASSUME NEW f, NEW S \in SUBSET (1 .. 5), NEW c
    PROVE  IsFiniteSet(Counted(f, S, c)) /\ Cardinality(Counted(f, S, c)) \in Nat
<1>1. IsFiniteSet(1 .. 5)
  <2>1. 1 \in Int /\ 5 \in Int
    OBVIOUS
  <2> QED BY <2>1, FS_Interval, Zenon
<1>2. Counted(f, S, c) \subseteq 1 .. 5
  BY Zenon DEF Counted
<1>3. IsFiniteSet(Counted(f, S, c))
  BY <1>1, <1>2, FS_Subset, Zenon
<1> QED BY <1>3, FS_CardinalityType, Zenon

\* What the two counts of S become when t moves.
LEMMA CountsMove ==
    ASSUME NEW f, NEW g, NEW S \in SUBSET (1 .. 5), NEW t, NEW l, Moved(f, g, t, l)
    PROVE  /\ Holding(f, S) \in Nat /\ Locking(f, S) \in Nat
           /\ Holding(g, S) \in Nat /\ Locking(g, S) \in Nat
           /\ t \notin S => Holding(g, S) = Holding(f, S) /\ Locking(g, S) = Locking(f, S)
           /\ f[t].pc \notin {"look", "lock"} /\ l \notin {"look", "lock"} =>
                Holding(g, S) = Holding(f, S) /\ Locking(g, S) = Locking(f, S)
           /\ t \in S /\ f[t].pc = "sem_wait" /\ l = "look" =>
                Holding(g, S) = Holding(f, S) + 1 /\ Locking(g, S) = Locking(f, S)
           /\ t \in S /\ f[t].pc = "look" /\ l = "lock" =>
                Holding(g, S) = Holding(f, S) /\ Locking(g, S) = Locking(f, S) + 1
           /\ t \in S /\ f[t].pc = "look" /\ l = "done" => Locking(g, S) = Locking(f, S)
           /\ t \in S /\ f[t].pc = "lock" /\ l = "enter" =>
                Holding(g, S) = Holding(f, S) - 1 /\ Locking(g, S) = Locking(f, S) - 1
<1>1. PICK h, k : h = {"look", "lock"} /\ k = {"lock"}
  OBVIOUS
<1>2. "sem_wait" \notin h /\ "done" \notin h /\ "enter" \notin h /\ "look" \in h /\ "lock" \in h
       /\ "sem_wait" \notin k /\ "done" \notin k /\ "enter" \notin k /\ "look" \notin k /\ "lock" \in k
  BY <1>1
<1>3. \A x : Holding(x, S) = Cardinality(Counted(x, S, h)) /\ Locking(x, S) = Cardinality(Counted(x, S, k))
  BY <1>1, Zenon DEF Holding, Locking
<1>4. Holding(f, S) \in Nat /\ Locking(f, S) \in Nat /\ Holding(g, S) \in Nat /\ Locking(g, S) \in Nat
  BY <1>3, CountedFinite, Zenon
<1>5. g[t].pc = l /\ \A u \in S : u # t => g[u].pc = f[u].pc
  BY Zenon DEF Moved
<1>6. ASSUME NEW c, t \notin S \/ (f[t].pc \in c <=> l \in c)
      PROVE  Cardinality(Counted(g, S, c)) = Cardinality(Counted(f, S, c))
  <2>1. Counted(g, S, c) = Counted(f, S, c)
    BY <1>5, <1>6, Zenon DEF Counted
  <2> QED BY <2>1, Zenon
<1>7. ASSUME NEW c, t \in S, f[t].pc \notin c, l \in c
      PROVE  Cardinality(Counted(g, S, c)) = Cardinality(Counted(f, S, c)) + 1
  <2>1. Counted(g, S, c) = Counted(f, S, c) \cup {t} /\ t \notin Counted(f, S, c)
    BY <1>5, <1>7, Zenon DEF Counted
  <2> QED BY <2>1, CountedFinite, FS_AddElement, Zenon
<1>8. ASSUME NEW c, t \in S, f[t].pc \in c, l \notin c
      PROVE  Cardinality(Counted(g, S, c)) = Cardinality(Counted(f, S, c)) - 1
  <2>1. Counted(g, S, c) = Counted(f, S, c) \ {t} /\ t \in Counted(f, S, c)
    BY <1>5, <1>8, Zenon DEF Counted
  <2> QED BY <2>1, CountedFinite, FS_RemoveElement, Zenon
<1>9. t \notin S => Holding(g, S) = Holding(f, S) /\ Locking(g, S) = Locking(f, S)
  BY <1>3, <1>6, Zenon
<1>10. f[t].pc \notin {"look", "lock"} /\ l \notin {"look", "lock"} =>
                Holding(g, S) = Holding(f, S) /\ Locking(g, S) = Locking(f, S)
  <2>1. f[t].pc \notin {"look", "lock"} /\ l \notin {"look", "lock"} =>
          (f[t].pc \in h <=> l \in h) /\ (f[t].pc \in k <=> l \in k)
    BY <1>1, Zenon
  <2> QED BY <1>3, <1>6, <2>1, Zenon
<1>11. ASSUME t \in S, f[t].pc = "sem_wait", l = "look"
      PROVE  Holding(g, S) = Holding(f, S) + 1 /\ Locking(g, S) = Locking(f, S)
  <2>1. f[t].pc \notin h /\ l \in h /\ f[t].pc \notin k /\ l \notin k
    BY <1>11, <1>2, Zenon
  <2>2. Cardinality(Counted(g, S, h)) = Cardinality(Counted(f, S, h)) + 1
    BY <1>11, <2>1, <1>7, Zenon
  <2> QED BY <1>3, <1>6, <2>1, <2>2, Zenon
<1>12. ASSUME t \in S, f[t].pc = "look", l = "lock"
      PROVE  Holding(g, S) = Holding(f, S) /\ Locking(g, S) = Locking(f, S) + 1
  <2>1. f[t].pc \in h /\ l \in h /\ f[t].pc \notin k /\ l \in k
    BY <1>12, <1>2, Zenon
  <2>2. Cardinality(Counted(g, S, k)) = Cardinality(Counted(f, S, k)) + 1
    BY <1>12, <2>1, <1>7, Zenon
  <2> QED BY <1>3, <1>6, <2>1, <2>2, Zenon
<1>13. ASSUME t \in S, f[t].pc = "look", l = "done"
      PROVE  Locking(g, S) = Locking(f, S)
  <2>1. f[t].pc \notin k /\ l \notin k
    BY <1>13, <1>2, Zenon
  <2> QED BY <1>3, <1>6, <2>1, Zenon
<1>14. ASSUME t \in S, f[t].pc = "lock", l = "enter"
      PROVE  Holding(g, S) = Holding(f, S) - 1 /\ Locking(g, S) = Locking(f, S) - 1
  <2>1. f[t].pc \in h /\ l \notin h /\ f[t].pc \in k /\ l \notin k
    BY <1>14, <1>2, Zenon
  <2>2. Cardinality(Counted(g, S, h)) = Cardinality(Counted(f, S, h)) - 1
    BY <1>14, <2>1, <1>8, Zenon
  <2>3. Cardinality(Counted(g, S, k)) = Cardinality(Counted(f, S, k)) - 1
    BY <1>14, <2>1, <1>8, Zenon
  <2> QED BY <1>3, <2>2, <2>3, Zenon
<1> QED BY <1>4, <1>9, <1>10, <1>11, <1>12, <1>13, <1>14, Zenon

LEMMA CountsType ==
    ASSUME NEW f, NEW S \in SUBSET (1 .. 5)
    PROVE  Holding(f, S) \in Nat /\ Locking(f, S) \in Nat
BY CountedFinite, Zenon DEF Holding, Locking

LEMMA CountsAside ==
    ASSUME NEW f, NEW g, NEW S \in SUBSET (1 .. 5), NEW t, NEW l, Moved(f, g, t, l), t \notin S
    PROVE  Holding(g, S) = Holding(f, S) /\ Locking(g, S) = Locking(f, S)
BY CountsMove, Zenon

LEMMA CountsTake ==
    ASSUME NEW f, NEW g, NEW S \in SUBSET (1 .. 5), NEW t \in S, Moved(f, g, t, "look"), f[t].pc = "sem_wait"
    PROVE  Holding(g, S) = Holding(f, S) + 1 /\ Locking(g, S) = Locking(f, S)
BY CountsMove, Zenon

LEMMA CountsLock ==
    ASSUME NEW f, NEW g, NEW S \in SUBSET (1 .. 5), NEW t \in S, Moved(f, g, t, "lock"), f[t].pc = "look"
    PROVE  Holding(g, S) = Holding(f, S)
BY CountsMove, Zenon

LEMMA CountsLeave ==
    ASSUME NEW f, NEW g, NEW S \in SUBSET (1 .. 5), NEW t \in S, Moved(f, g, t, "done"), f[t].pc = "look"
    PROVE  Locking(g, S) = Locking(f, S)
BY CountsMove, Zenon

LEMMA CountsUse ==
    ASSUME NEW f, NEW g, NEW S \in SUBSET (1 .. 5), NEW t \in S, Moved(f, g, t, "enter"), f[t].pc = "lock"
    PROVE  Holding(g, S) = Holding(f, S) - 1 /\ Locking(g, S) = Locking(f, S) - 1
BY CountsMove, Zenon

\* Whoever locks holds a unit.
LEMMA LockingHolds ==
    ASSUME NEW f, NEW S \in SUBSET (1 .. 5)
    PROVE  Locking(f, S) <= Holding(f, S)
<1>1. Counted(f, S, {"lock"}) \subseteq Counted(f, S, {"look", "lock"})
  BY Zenon DEF Counted
<1> QED BY <1>1, CountedFinite, FS_Subset, Zenon DEF Holding, Locking

LEMMA LockerCounts ==
    ASSUME NEW f, NEW S \in SUBSET (1 .. 5), NEW t \in S, f[t].pc = "lock"
    PROVE  Locking(f, S) > 0
<1>1. t \in Counted(f, S, {"lock"})
  BY Zenon DEF Counted
<1>2. PICK k \in Nat : k = Locking(f, S)
  BY CountedFinite, Zenon DEF Locking
<1>3. k # 0
  BY <1>1, <1>2, CountedFinite, FS_EmptySet, Zenon DEF Locking
<1>4. k # 0 => k > 0
  OBVIOUS
<1> QED BY <1>2, <1>3, <1>4, Zenon

\* The threads at the queue, but for what env says.
Work == q \in Queue /\ th \in Threads /\ WorkQueueInv

LEMMA WorkTypes ==
    ASSUME Work
    PROVE  /\ Len(q.content) \in Nat /\ q.semFull \in Int /\ q.semFree \in Int /\ q.waiting \in Int
           /\ q.valid \in BOOLEAN
<1>1. q \in Queue
  BY Zenon DEF Work
<1>2. Len(q.content) \in Nat
  BY <1>1, RingType, Zenon
<1> QED BY <1>1, <1>2 DEF Queue

\* A thread t has moved to l: the invariant holds again if its conjuncts about
\* the queue do.
LEMMA WorkKeeps ==
    ASSUME Work, NEW t \in Producers \cup Consumers, NEW l \in {"enter", "sem_wait", "look", "lock", "done"},
           Moved(th, th', t, l), th[t].pc # "none", q' \in Queue, Ring(q'), Balanced(q', th'), env'.main = env.main
    PROVE  Work'
<1>1. t \in 1 .. 5 /\ th' \in Threads /\ th'[t].pc = l /\ \A u \in 1 .. 5 : u # t => th'[u].pc = th[u].pc
  BY TeamIsSmall, Zenon DEF Moved
<1>2. WorkQueueInv /\ Producers \cup Consumers \subseteq 1 .. 5
  BY TeamIsSmall, Zenon DEF Work
<1>3. \A u \in Producers \cup Consumers : th'[u].pc \in {"none", "enter", "sem_wait", "look", "lock", "done"}
  <2>1. l \in {"none", "enter", "sem_wait", "look", "lock", "done"}
    OBVIOUS
  <2> QED BY <1>1, <1>2, <2>1, Zenon DEF WorkQueueInv
<1>4. env'.main # "create"
  BY <1>2, Zenon DEF WorkQueueInv
<1> QED BY <1>1, <1>3, <1>4, Zenon DEF Work, WorkQueueInv

\* The places of a step of t.
LEMMA WorkMoves ==
    ASSUME Work, NEW t \in Producers \cup Consumers, NEW l \in {"enter", "sem_wait", "look", "lock", "done"}, Goes(t, l)
    PROVE  Moved(th, th', t, l)
<1>1. l \in Places
  BY DEF Places
<1> QED BY <1>1, TeamIsSmall, GoesMoves, Zenon DEF Work, Goes

\* wqSemDecrLockIncr: the call announces itself, or finds the queue invalid.
LEMMA Enter ==
    ASSUME Work, NEW t \in Producers \cup Consumers, At(t, "enter"), UNCHANGED env,
           IF q.valid THEN Goes(t, "sem_wait") /\ q' = [q EXCEPT !.waiting = @ + 1]
                      ELSE Goes(t, "done") /\ UNCHANGED q
    PROVE  Work'
<1>1. q \in Queue /\ Ring(q) /\ Balanced(q, th) /\ th[t].pc = "enter" /\ "enter" # "none"
  BY Zenon DEF Work, WorkQueueInv, At
<1>2. /\ q' \in Queue /\ SameRing(q, q')
      /\ q'.valid = q.valid /\ q'.semFull = q.semFull /\ q'.semFree = q.semFree
  <2>1. CASE q' = q
    BY <1>1, <2>1, Zenon DEF SameRing
  <2>2. CASE q' = [q EXCEPT !.waiting = @ + 1]
    <3>1. PICK w \in Int : w = q.waiting + 1
      BY WorkTypes
    <3>2. q' = [q EXCEPT !.waiting = w]
      BY <2>2, <3>1, Zenon
    <3>3. q' \in Queue
      BY <1>1, <3>2 DEF Queue
    <3>4. q'.valid = q.valid /\ q'.semFull = q.semFull /\ q'.semFree = q.semFree
      BY <1>1, <3>2 DEF Queue
    <3>5. SameRing(q, q')
      BY <1>1, <3>2 DEF Queue, SameRing
    <3> QED BY <3>3, <3>4, <3>5, Zenon
  <2> QED BY <2>1, <2>2, Zenon
<1>3. PICK l \in {"sem_wait", "done"} : Goes(t, l)
  BY Zenon
<1>4. l \in {"enter", "sem_wait", "look", "lock", "done"} /\ l \notin {"look", "lock"} /\ "enter" \notin {"look", "lock"}
  OBVIOUS
<1>5. Moved(th, th', t, l)
  BY <1>3, <1>4, WorkMoves, Zenon
<1>6. ASSUME NEW S \in SUBSET (1 .. 5) PROVE Holding(th', S) = Holding(th, S) /\ Locking(th', S) = Locking(th, S)
  BY <1>1, <1>4, <1>5, CountsMove, ZenonT(40)
<1>7. /\ Holding(th', Consumers) = Holding(th, Consumers) /\ Locking(th', Consumers) = Locking(th, Consumers)
      /\ Holding(th', Producers) = Holding(th, Producers) /\ Locking(th', Producers) = Locking(th, Producers)
  BY <1>6, TeamIsSmall, Zenon
<1>8. Balanced(q', th')
  <2>1. Len(q'.content) = Len(q.content)
    BY <1>2, Zenon DEF SameRing
  <2> QED BY <1>1, <1>2, <1>7, <2>1, Zenon DEF Balanced
<1> QED BY <1>1, <1>2, <1>4, <1>5, <1>8, RingSame, WorkKeeps, Zenon

\* A unit less in a semaphore is a unit more in somebody's hands.
LEMMA MessageTaken ==
    ASSUME NEW v, NEW n \in Nat, NEW s \in Int, NEW o \in Int, NEW h \in Nat, NEW k \in Nat, NEW lc, NEW lp,
           s > 0, Units(v, n, s, o, h, k, lc, lp)
    PROVE  Units(v, n, s - 1, o, h + 1, k, lc, lp)
BY Sizes DEF Units

LEMMA PlaceTaken ==
    ASSUME NEW v, NEW n \in Nat, NEW s \in Int, NEW o \in Int, NEW h \in Nat, NEW k \in Nat, NEW lc, NEW lp,
           s > 0, Units(v, n, o, s, k, h, lc, lp)
    PROVE  Units(v, n, o, s - 1, k, h + 1, lc, lp)
BY Sizes DEF Units

\* and takes a unit of its semaphore;
LEMMA TakesMessage ==
    ASSUME Work, NEW t \in Consumers, At(t, "sem_wait"), q.semFull > 0, Goes(t, "look"), UNCHANGED env,
           q' = [q EXCEPT !.semFull = @ - 1]
    PROVE  Work'
<1>1. /\ q \in Queue /\ Ring(q) /\ Balanced(q, th) /\ th[t].pc = "sem_wait" /\ "sem_wait" # "none"
      /\ t \in Producers \cup Consumers /\ t \notin Producers /\ Producers \in SUBSET (1 .. 5) /\ Consumers \in SUBSET (1 .. 5)
  BY TeamIsSmall, Zenon DEF Work, WorkQueueInv, At
<1>2. PICK s \in Int : s = q.semFull
  BY WorkTypes, Zenon
<1>3. /\ q' \in Queue /\ SameRing(q, q')
      /\ q'.valid = q.valid /\ q'.semFull = s - 1 /\ q'.semFree = q.semFree
  <2>1. PICK r \in Int : r = s - 1
    OBVIOUS
  <2>2. q' = [q EXCEPT !.semFull = r]
    BY <1>2, <2>1, Zenon
  <2>3. q' \in Queue
    BY <1>1, <2>2 DEF Queue
  <2>4. q'.valid = q.valid /\ q'.semFull = r /\ q'.semFree = q.semFree
    BY <1>1, <2>2 DEF Queue
  <2>5. SameRing(q, q')
    BY <1>1, <2>2 DEF Queue, SameRing
  <2> QED BY <2>1, <2>3, <2>4, <2>5, Zenon
<1>4. "look" \in {"enter", "sem_wait", "look", "lock", "done"}
  OBVIOUS
<1>5. Moved(th, th', t, "look")
  BY <1>1, <1>4, WorkMoves, Zenon
<1>6. /\ Holding(th, Consumers) \in Nat /\ Holding(th', Consumers) = Holding(th, Consumers) + 1 /\ Locking(th', Consumers) = Locking(th, Consumers)
      /\ Holding(th, Producers) \in Nat /\ Holding(th', Producers) = Holding(th, Producers) /\ Locking(th', Producers) = Locking(th, Producers)
  <2>1. Holding(th, Consumers) \in Nat /\ Holding(th', Consumers) = Holding(th, Consumers) + 1 /\ Locking(th', Consumers) = Locking(th, Consumers)
    BY <1>1, <1>5, CountsTake, CountsType, Zenon
  <2>2. Holding(th, Producers) \in Nat /\ Holding(th', Producers) = Holding(th, Producers) /\ Locking(th', Producers) = Locking(th, Producers)
    BY <1>1, <1>5, CountsAside, CountsType, Zenon
  <2> QED BY <2>1, <2>2, Zenon
<1>7. Balanced(q', th')
  <2>1. Len(q'.content) = Len(q.content)
    BY <1>3, Zenon DEF SameRing
  <2>2. PICK c \in Nat, n \in Nat, o \in Int, h \in Nat, k \in Nat :
            c = Capacity /\ n = Len(q.content) /\ o = q.semFree /\ h = Holding(th, Consumers) /\ k = Holding(th, Producers)
    BY <1>6, Sizes, WorkTypes
  <2>3. \A valid, lc, lp : s > 0 /\ Units(valid, n, s, o, h, k, lc, lp) => Units(valid, n, s - 1, o, h + 1, k, lc, lp)
    BY <2>2, MessageTaken, Zenon
  <2> QED BY <1>1, <1>2, <1>3, <1>6, <2>1, <2>2, <2>3, Zenon DEF Balanced
<1> QED BY <1>1, <1>3, <1>4, <1>5, <1>7, RingSame, WorkKeeps, Zenon

LEMMA TakesPlace ==
    ASSUME Work, NEW t \in Producers, At(t, "sem_wait"), q.semFree > 0, Goes(t, "look"), UNCHANGED env,
           q' = [q EXCEPT !.semFree = @ - 1]
    PROVE  Work'
<1>1. /\ q \in Queue /\ Ring(q) /\ Balanced(q, th) /\ th[t].pc = "sem_wait" /\ "sem_wait" # "none"
      /\ t \in Producers \cup Consumers /\ t \notin Consumers /\ Producers \in SUBSET (1 .. 5) /\ Consumers \in SUBSET (1 .. 5)
  BY TeamIsSmall, Zenon DEF Work, WorkQueueInv, At
<1>2. PICK s \in Int : s = q.semFree
  BY WorkTypes, Zenon
<1>3. /\ q' \in Queue /\ SameRing(q, q')
      /\ q'.valid = q.valid /\ q'.semFree = s - 1 /\ q'.semFull = q.semFull
  <2>1. PICK r \in Int : r = s - 1
    OBVIOUS
  <2>2. q' = [q EXCEPT !.semFree = r]
    BY <1>2, <2>1, Zenon
  <2>3. q' \in Queue
    BY <1>1, <2>2 DEF Queue
  <2>4. q'.valid = q.valid /\ q'.semFree = r /\ q'.semFull = q.semFull
    BY <1>1, <2>2 DEF Queue
  <2>5. SameRing(q, q')
    BY <1>1, <2>2 DEF Queue, SameRing
  <2> QED BY <2>1, <2>3, <2>4, <2>5, Zenon
<1>4. "look" \in {"enter", "sem_wait", "look", "lock", "done"}
  OBVIOUS
<1>5. Moved(th, th', t, "look")
  BY <1>1, <1>4, WorkMoves, Zenon
<1>6. /\ Holding(th, Producers) \in Nat /\ Holding(th', Producers) = Holding(th, Producers) + 1 /\ Locking(th', Producers) = Locking(th, Producers)
      /\ Holding(th, Consumers) \in Nat /\ Holding(th', Consumers) = Holding(th, Consumers) /\ Locking(th', Consumers) = Locking(th, Consumers)
  <2>1. Holding(th, Producers) \in Nat /\ Holding(th', Producers) = Holding(th, Producers) + 1 /\ Locking(th', Producers) = Locking(th, Producers)
    BY <1>1, <1>5, CountsTake, CountsType, Zenon
  <2>2. Holding(th, Consumers) \in Nat /\ Holding(th', Consumers) = Holding(th, Consumers) /\ Locking(th', Consumers) = Locking(th, Consumers)
    BY <1>1, <1>5, CountsAside, CountsType, Zenon
  <2> QED BY <2>1, <2>2, Zenon
<1>7. Balanced(q', th')
  <2>1. Len(q'.content) = Len(q.content)
    BY <1>3, Zenon DEF SameRing
  <2>2. PICK c \in Nat, n \in Nat, o \in Int, h \in Nat, k \in Nat :
            c = Capacity /\ n = Len(q.content) /\ o = q.semFull /\ h = Holding(th, Producers) /\ k = Holding(th, Consumers)
    BY <1>6, Sizes, WorkTypes
  <2>3. \A valid, lc, lp : s > 0 /\ Units(valid, n, o, s, k, h, lc, lp) => Units(valid, n, o, s - 1, k, h + 1, lc, lp)
    BY <2>2, PlaceTaken, Zenon
  <2> QED BY <1>1, <1>2, <1>3, <1>6, <2>1, <2>2, <2>3, Zenon DEF Balanced
<1> QED BY <1>1, <1>3, <1>4, <1>5, <1>7, RingSame, WorkKeeps, Zenon

\* it looks at the queue without the lock.  While the queue is valid, the units
\* of the semaphores are messages and places.
LEMMA Looks ==
    ASSUME Work, NEW t \in Producers \cup Consumers, At(t, "look"), Goes(t, IF q.valid THEN "lock" ELSE "done"),
           UNCHANGED q, UNCHANGED env
    PROVE  Work'
<1>1. /\ q \in Queue /\ Ring(q) /\ Balanced(q, th) /\ th[t].pc = "look" /\ "look" # "none"
      /\ Producers \in SUBSET (1 .. 5) /\ Consumers \in SUBSET (1 .. 5)
  BY TeamIsSmall, Zenon DEF Work, WorkQueueInv, At
<1>2. PICK l \in {"lock", "done"} : Goes(t, l) /\ (q.valid => l = "lock") /\ (~q.valid => l = "done")
  BY Zenon
<1>3. l \in {"enter", "sem_wait", "look", "lock", "done"}
  OBVIOUS
<1>4. Moved(th, th', t, l)
  BY <1>2, <1>3, WorkMoves, Zenon
<1>5. PICK c \in Nat, n \in Nat, x \in Int, y \in Int :
          c = Capacity /\ n = Len(q.content) /\ x = q.semFull /\ y = q.semFree
  BY Sizes, WorkTypes, Zenon
<1>6. ASSUME NEW S \in {Producers, Consumers}
      PROVE  /\ Locking(th, S) \in Nat /\ Holding(th', S) \in Nat /\ Locking(th', S) <= Holding(th', S)
             /\ q.valid => Holding(th', S) = Holding(th, S)
             /\ ~q.valid => Locking(th', S) = Locking(th, S)
  <2>1. S \in SUBSET (1 .. 5)
    BY <1>1, Zenon
  <2>2. Locking(th', S) <= Holding(th', S)
    BY <2>1, LockingHolds, Zenon
  <2>3. Locking(th, S) \in Nat /\ Holding(th', S) \in Nat
    BY <2>1, CountsType, Zenon
  <2>4. CASE t \notin S
    <3>1. Holding(th', S) = Holding(th, S) /\ Locking(th', S) = Locking(th, S)
      BY <1>4, <2>1, <2>4, CountsAside, Zenon
    <3> QED BY <2>2, <2>3, <3>1, Zenon
  <2>5. CASE t \in S /\ l = "lock"
    <3>1. Holding(th', S) = Holding(th, S)
      BY <1>1, <1>4, <2>1, <2>5, CountsLock, Zenon
    <3>2. "lock" # "done"
      OBVIOUS
    <3> QED BY <1>2, <2>2, <2>3, <2>5, <3>1, <3>2, Zenon
  <2>6. CASE t \in S /\ l = "done"
    <3>1. Locking(th', S) = Locking(th, S)
      BY <1>1, <1>4, <2>1, <2>6, CountsLeave, Zenon
    <3>2. "lock" # "done"
      OBVIOUS
    <3> QED BY <1>2, <2>2, <2>3, <2>6, <3>1, <3>2, Zenon
  <2> QED BY <2>4, <2>5, <2>6, Zenon
<1>7. Balanced(q', th')
  <2>1. CASE q.valid
    <3>1. Units(TRUE, n, x, y, Holding(th', Consumers), Holding(th', Producers), Locking(th, Consumers), Locking(th, Producers))
      BY <1>1, <1>5, <1>6, <2>1, Zenon DEF Balanced
    <3>2. PICK h \in Nat, k \in Nat, g \in Nat, j \in Nat :
              /\ h = Holding(th', Consumers) /\ k = Holding(th', Producers)
              /\ g = Locking(th', Consumers) /\ j = Locking(th', Producers) /\ g <= h /\ j <= k
      <4>1. Locking(th', Consumers) \in Nat /\ Locking(th', Producers) \in Nat
        BY <1>1, CountsType, Zenon
      <4> QED BY <1>6, <4>1, Zenon
    <3>3. n = x + h /\ c - n = y + k /\ x >= 0 /\ y >= 0 /\ g <= h /\ j <= k => g <= n /\ j <= c - n
      OBVIOUS
    <3>4. Units(TRUE, n, x, y, h, k, g, j)
      BY <1>5, <3>1, <3>2, <3>3, Zenon DEF Units
    <3> QED BY <1>5, <2>1, <3>2, <3>4, Zenon DEF Balanced
  <2>2. CASE ~q.valid
    <3>1. \A h, k, h1, k1, lc, lp : Units(FALSE, n, x, y, h, k, lc, lp) => Units(FALSE, n, x, y, h1, k1, lc, lp)
      BY Zenon DEF Units
    <3>2. q.valid = FALSE
      BY <2>2, WorkTypes, Zenon
    <3>3. Units(FALSE, n, x, y, Holding(th', Consumers), Holding(th', Producers), Locking(th, Consumers), Locking(th, Producers))
      <4>1. Units(FALSE, n, x, y, Holding(th, Consumers), Holding(th, Producers), Locking(th, Consumers), Locking(th, Producers))
        BY <1>1, <1>5, <3>2, Zenon DEF Balanced
      <4> QED BY <3>1, <4>1, Zenon
    <3>4. Locking(th', Consumers) = Locking(th, Consumers) /\ Locking(th', Producers) = Locking(th, Producers)
      BY <1>6, <2>2, Zenon
    <3> QED BY <1>5, <3>2, <3>3, <3>4, Zenon DEF Balanced
  <2> QED BY <2>1, <2>2, Zenon
<1> QED BY <1>1, <1>3, <1>4, <1>7, WorkKeeps, Zenon

\* A message more is a place less.
LEMMA UnitGiven ==
    ASSUME NEW v, NEW n \in Nat, NEW x \in Int, NEW y \in Int, NEW ho \in Nat, NEW hs \in Nat, NEW lo \in Nat,
           NEW ls \in Nat, Units(v, n, x, y, ho, hs, lo, ls)
    PROVE  Units(v, n + 1, x + 1, y, ho, hs - 1, lo, ls - 1)
BY Sizes DEF Units

LEMMA UnitTaken ==
    ASSUME NEW v, NEW n \in Nat, NEW x \in Int, NEW y \in Int, NEW ho \in Nat, NEW hs \in Nat, NEW lo \in Nat,
           NEW ls \in Nat, Units(v, n, x, y, hs, ho, ls, lo)
    PROVE  Units(v, n - 1, x, y + 1, hs - 1, ho, ls - 1, lo)
BY Sizes DEF Units

\* A locked producer finds a place, and writes its message to the next slot;
LEMMA Puts ==
    ASSUME Work, env \in Environment, NEW t \in Producers, At(t, "lock"), Goes(t, "enter"),
           q' = [q EXCEPT !.waiting = @ - 1, !.semFull = @ + 1, !.slot[q.wr] = t, !.wr = wqWrap(@, 1),
                         !.content = Append(@, t)],
           env' = [env EXCEPT !.slip = @ \/ Len(q.content) = Capacity]
    PROVE  Work' /\ EnvKept
<1>1. /\ q \in Queue /\ Ring(q) /\ Balanced(q, th) /\ th[t].pc = "lock" /\ "lock" # "none"
      /\ t \in Producers \cup Consumers /\ t \notin Consumers /\ Producers \in SUBSET (1 .. 5) /\ Consumers \in SUBSET (1 .. 5)
  BY TeamIsSmall, Zenon DEF Work, WorkQueueInv, At
<1>2. PICK c \in Nat, n \in Nat, x \in Int, y \in Int :
          c = Capacity /\ n = Len(q.content) /\ x = q.semFull /\ y = q.semFree
  BY Sizes, WorkTypes, Zenon
<1>3. PICK hs \in Nat, ho \in Nat, ls \in Nat, lo \in Nat :
          hs = Holding(th, Producers) /\ ho = Holding(th, Consumers) /\ ls = Locking(th, Producers) /\ lo = Locking(th, Consumers)
  BY <1>1, CountsType, Zenon
<1>4. Units(q.valid, n, x, y, ho, hs, lo, ls)
  BY <1>1, <1>2, <1>3, Zenon DEF Balanced
<1>5. n < c
  <2>1. ls > 0
    BY <1>1, <1>3, LockerCounts, Zenon
  <2>2. ls <= c - n
    BY <1>2, <1>4, Zenon DEF Units
  <2> QED BY <2>1, <2>2
<1>6. PICK w \in 0 .. Capacity - 1 : w = (q.wr + 1) % Capacity
  <2>1. Capacity \in Nat /\ q.wr \in 0 .. Capacity - 1
    BY <1>1, RingType, Sizes, Zenon
  <2>2. q.wr + 1 \in Nat
    BY <2>1, NextIndex, Zenon
  <2> QED BY <2>2, Sizes, ModuloType, Zenon
<1>7. PICK s \in Seq(Nat) : s = Append(q.content, t)
  <2>1. q.content \in Seq(Nat) /\ t \in Nat
    BY <1>1, SmallIsNat, RingType, Zenon
  <2>2. Append(q.content, t) \in Seq(Nat)
    BY <2>1
  <2> QED BY <2>2, Zenon
<1>8. PICK a \in Int, b \in Int : a = q.waiting - 1 /\ b = q.semFull + 1
  <2>1. q.waiting \in Int /\ q.semFull \in Int
    BY WorkTypes, Zenon
  <2>2. \A i \in Int : i - 1 \in Int /\ i + 1 \in Int
    OBVIOUS
  <2> QED BY <2>1, <2>2, Zenon
<1>9. q' = [q EXCEPT !.waiting = a, !.semFull = b, !.slot[q.wr] = t, !.wr = w, !.content = s]
  BY <1>6, <1>7, <1>8, Zenon DEF wqWrap
<1>10. t \in Nat /\ q.wr \in 0 .. Capacity - 1 /\ q.slot \in [0 .. Capacity - 1 -> Nat]
  BY <1>1, SmallIsNat, RingType, Zenon
<1>11. PICK d \in [0 .. Capacity - 1 -> Nat] : d = [q.slot EXCEPT ![q.wr] = t]
  <2>1. [q.slot EXCEPT ![q.wr] = t] \in [0 .. Capacity - 1 -> Nat]
    BY <1>10
  <2> QED BY <2>1, Zenon
<1>12. q' = [q EXCEPT !.waiting = a, !.semFull = b, !.slot = d, !.wr = w, !.content = s]
  BY <1>1, <1>9, <1>11 DEF Queue
<1>13. q' \in Queue
  BY <1>1, <1>12, ZenonT(40) DEF Queue
<1>14. /\ q'.valid = q.valid /\ q'.semFull = b /\ q'.semFree = q.semFree /\ q'.content = s
       /\ q'.slot = d /\ q'.wr = w /\ q'.rd = q.rd
  BY <1>1, <1>11, <1>12 DEF Queue
<1>15. Ring(q') /\ Len(q'.content) = n + 1
  <2>1. Pushed(q, q', t)
    BY <1>6, <1>7, <1>11, <1>14, Zenon DEF Pushed
  <2>2. Len(q.content) < Capacity
    BY <1>2, <1>5, Zenon
  <2>3. PICK r \in Queue : r = q'
    BY <1>13, Zenon
  <2>4. Pushed(q, r, t)
    BY <2>1, <2>3, Zenon
  <2>5. Ring(r) /\ Len(r.content) = Len(q.content) + 1 /\ (r.wr = r.rd <=> Len(r.content) = Capacity)
    BY <1>1, <1>10, <2>2, <2>4, RingPush, Zenon
  <2> QED BY <1>2, <2>3, <2>5, Zenon
<1>16. "enter" \in {"enter", "sem_wait", "look", "lock", "done"} /\ "enter" # "lock"
  OBVIOUS
<1>17. Moved(th, th', t, "enter")
  BY <1>1, <1>16, WorkMoves, Zenon
<1>18. Holding(th', Producers) = hs - 1 /\ Locking(th', Producers) = ls - 1
  BY <1>1, <1>3, <1>17, CountsUse, Zenon
<1>19. Holding(th', Consumers) = ho /\ Locking(th', Consumers) = lo
  BY <1>1, <1>3, <1>17, CountsAside, Zenon
<1>20. Balanced(q', th')
  <2>1. b = x + 1
    BY <1>2, <1>8, Zenon
  <2>2. Units(q.valid, n + 1, x + 1, y, ho, hs - 1, lo, ls - 1)
    BY <1>2, <1>3, <1>4, UnitGiven, Zenon
  <2> QED BY <1>2, <1>14, <1>15, <1>18, <1>19, <2>1, <2>2, Zenon DEF Balanced
<1>21. EnvKept /\ env'.main = env.main
  <2>1. ~(Len(q.content) = Capacity)
    BY <1>2, <1>5
  <2>2. env' = [env EXCEPT !.slip = @ \/ FALSE]
    BY <2>1, Zenon
  <2> QED BY <2>2 DEF Environment, EnvKept
<1> QED BY <1>1, <1>13, <1>15, <1>16, <1>17, <1>20, <1>21, WorkKeeps, Zenon

\* a locked consumer finds a message.
LEMMA Pops ==
    ASSUME Work, env \in Environment, NEW t \in Consumers, At(t, "lock"), Goes(t, "enter"),
           q' = [q EXCEPT !.waiting = @ - 1, !.semFree = @ + 1, !.rd = wqWrap(@, 1), !.content = SubSeq(@, 2, Len(@))],
           env' = [env EXCEPT !.slip = @ \/ q.content = <<>>]
    PROVE  Work' /\ EnvKept
<1>1. /\ q \in Queue /\ Ring(q) /\ Balanced(q, th) /\ th[t].pc = "lock" /\ "lock" # "none"
      /\ t \in Producers \cup Consumers /\ t \notin Producers /\ Producers \in SUBSET (1 .. 5) /\ Consumers \in SUBSET (1 .. 5)
  BY TeamIsSmall, Zenon DEF Work, WorkQueueInv, At
<1>2. PICK c \in Nat, n \in Nat, x \in Int, y \in Int :
          c = Capacity /\ n = Len(q.content) /\ x = q.semFull /\ y = q.semFree
  BY Sizes, WorkTypes, Zenon
<1>3. PICK hs \in Nat, ho \in Nat, ls \in Nat, lo \in Nat :
          hs = Holding(th, Consumers) /\ ho = Holding(th, Producers) /\ ls = Locking(th, Consumers) /\ lo = Locking(th, Producers)
  BY <1>1, CountsType, Zenon
<1>4. Units(q.valid, n, x, y, hs, ho, ls, lo)
  BY <1>1, <1>2, <1>3, Zenon DEF Balanced
<1>5. n > 0
  <2>1. ls > 0
    BY <1>1, <1>3, LockerCounts, Zenon
  <2>2. ls <= n
    BY <1>2, <1>4, Zenon DEF Units
  <2> QED BY <2>1, <2>2
<1>6. PICK w \in 0 .. Capacity - 1 : w = (q.rd + 1) % Capacity
  <2>1. Capacity \in Nat /\ q.rd \in 0 .. Capacity - 1
    BY <1>1, RingType, Sizes, Zenon
  <2>2. q.rd + 1 \in Nat
    BY <2>1, NextIndex, Zenon
  <2> QED BY <2>2, Sizes, ModuloType, Zenon
<1>7. PICK s \in Seq(Nat) : s = SubSeq(q.content, 2, Len(q.content))
  <2>1. q.content \in Seq(Nat) /\ t \in Nat
    BY <1>1, SmallIsNat, RingType, Zenon
  <2>2. SubSeq(q.content, 2, Len(q.content)) \in Seq(Nat)
    BY <1>2, <1>5, <2>1, Rest, Zenon
  <2> QED BY <2>2, Zenon
<1>8. PICK a \in Int, b \in Int : a = q.waiting - 1 /\ b = q.semFree + 1
  <2>1. q.waiting \in Int /\ q.semFree \in Int
    BY WorkTypes, Zenon
  <2>2. \A i \in Int : i - 1 \in Int /\ i + 1 \in Int
    OBVIOUS
  <2> QED BY <2>1, <2>2, Zenon
<1>9. q' = [q EXCEPT !.waiting = a, !.semFree = b, !.rd = w, !.content = s]
  BY <1>6, <1>7, <1>8, Zenon DEF wqWrap
<1>10. t \in Nat /\ q.wr \in 0 .. Capacity - 1 /\ q.slot \in [0 .. Capacity - 1 -> Nat]
  BY <1>1, SmallIsNat, RingType, Zenon
<1>11. PICK d \in [0 .. Capacity - 1 -> Nat] : d = q.slot
  BY <1>10, Zenon
<1>12. q' = [q EXCEPT !.waiting = a, !.semFree = b, !.rd = w, !.content = s]
  BY <1>9, Zenon
<1>13. q' \in Queue
  BY <1>1, <1>12, ZenonT(40) DEF Queue
<1>14. /\ q'.valid = q.valid /\ q'.semFree = b /\ q'.semFull = q.semFull /\ q'.content = s
       /\ q'.slot = d /\ q'.rd = w /\ q'.wr = q.wr
  BY <1>1, <1>11, <1>12 DEF Queue
<1>15. Ring(q') /\ Len(q'.content) = n - 1
  <2>1. Popped(q, q')
    BY <1>6, <1>7, <1>11, <1>14, Zenon DEF Popped
  <2>2. Len(q.content) > 0
    BY <1>2, <1>5, Zenon
  <2>3. PICK r \in Queue : r = q'
    BY <1>13, Zenon
  <2>4. Popped(q, r)
    BY <2>1, <2>3, Zenon
  <2>5. Ring(r) /\ Len(r.content) = Len(q.content) - 1
    BY <1>1, <1>10, <2>2, <2>4, RingPop, Zenon
  <2> QED BY <1>2, <2>3, <2>5, Zenon
<1>16. "enter" \in {"enter", "sem_wait", "look", "lock", "done"} /\ "enter" # "lock"
  OBVIOUS
<1>17. Moved(th, th', t, "enter")
  BY <1>1, <1>16, WorkMoves, Zenon
<1>18. Holding(th', Consumers) = hs - 1 /\ Locking(th', Consumers) = ls - 1
  BY <1>1, <1>3, <1>17, CountsUse, Zenon
<1>19. Holding(th', Producers) = ho /\ Locking(th', Producers) = lo
  BY <1>1, <1>3, <1>17, CountsAside, Zenon
<1>20. Balanced(q', th')
  <2>1. b = y + 1
    BY <1>2, <1>8, Zenon
  <2>2. Units(q.valid, n - 1, x, y + 1, hs - 1, ho, ls - 1, lo)
    BY <1>2, <1>3, <1>4, UnitTaken, Zenon
  <2> QED BY <1>2, <1>14, <1>15, <1>18, <1>19, <2>1, <2>2, Zenon DEF Balanced
<1>21. EnvKept /\ env'.main = env.main
  <2>1. ~(q.content = <<>>)
    BY <1>2, <1>5
  <2>2. env' = [env EXCEPT !.slip = @ \/ FALSE]
    BY <2>1, Zenon
  <2> QED BY <2>2 DEF Environment, EnvKept
<1> QED BY <1>1, <1>13, <1>15, <1>16, <1>17, <1>20, <1>21, WorkKeeps, Zenon

\* What is indexed with a field's name is the field.
LEMMA SemFields ==
    ASSUME q \in Queue
    PROVE  /\ q["semFree"] = q.semFree /\ q["semFull"] = q.semFull
           /\ \A i : [q EXCEPT !["semFree"] = i] = [q EXCEPT !.semFree = i]
           /\ \A i : [q EXCEPT !["semFull"] = i] = [q EXCEPT !.semFull = i]
BY DEF Queue

\* Steps of main and the reaper that leave the team where it is, or start it.
LEMMA TeamStarts ==
    ASSUME Work, lab = "pchelintsev25", env.main = "create", UNCHANGED q, env'.main # "create",
           th' = [t \in DOMAIN th |-> IF t \in Team THEN [th[t] EXCEPT !.pc = "enter"] ELSE th[t]]
    PROVE  Work'
<1>1. /\ q \in Queue /\ Ring(q) /\ Balanced(q, th) /\ th \in Threads
      /\ \A t \in Producers \cup Consumers : th[t].pc = "none"
  BY Zenon DEF Work, WorkQueueInv
<1>2. Team = Producers \cup Consumers /\ Team \subseteq 1 .. 5
  BY TeamIsSmall DEF Team, Queues
<1>3. th' = [t \in 1 .. 5 |-> IF t \in Team THEN [th[t] EXCEPT !.pc = "enter"] ELSE th[t]]
  BY <1>1, Zenon DEF Threads
<1>4. "enter" \in Places
  BY DEF Places
<1>5. ASSUME NEW t \in 1 .. 5 PROVE th[t] \in [pc : Places, at : Nat, line : Nat]
  BY <1>1, Zenon DEF Threads
<1>6. ASSUME NEW t \in 1 .. 5
      PROVE  [th[t] EXCEPT !.pc = "enter"] \in [pc : Places, at : Nat, line : Nat] /\ [th[t] EXCEPT !.pc = "enter"].pc = "enter"
  BY <1>4, <1>5
<1>7. th' \in Threads
  BY <1>3, <1>5, <1>6, Zenon DEF Threads
<1>8. \A t \in Producers \cup Consumers : th'[t].pc = "enter"
  BY <1>2, <1>3, <1>6, Zenon
<1>9. ASSUME NEW S \in SUBSET (Producers \cup Consumers)
      PROVE  Holding(th', S) = Holding(th, S) /\ Locking(th', S) = Locking(th, S)
  <2>1. "none" \notin {"look", "lock"} /\ "enter" \notin {"look", "lock"} /\ "none" \notin {"lock"} /\ "enter" \notin {"lock"}
    OBVIOUS
  <2>2. Counted(th', S, {"look", "lock"}) = {} /\ Counted(th, S, {"look", "lock"}) = {}
    BY <1>1, <1>8, <2>1, Zenon DEF Counted
  <2>3. Counted(th', S, {"lock"}) = {} /\ Counted(th, S, {"lock"}) = {}
    BY <1>1, <1>8, <2>1, Zenon DEF Counted
  <2> QED BY <2>2, <2>3, Zenon DEF Holding, Locking
<1>10. Balanced(q', th')
  <2>1. Producers \in SUBSET (Producers \cup Consumers) /\ Consumers \in SUBSET (Producers \cup Consumers)
    BY Zenon
  <2>2. /\ Holding(th', Consumers) = Holding(th, Consumers) /\ Locking(th', Consumers) = Locking(th, Consumers)
        /\ Holding(th', Producers) = Holding(th, Producers) /\ Locking(th', Producers) = Locking(th, Producers)
    BY <1>9, <2>1, Zenon
  <2> QED BY <1>1, <2>2, Zenon DEF Balanced
<1>11. \A t \in Producers \cup Consumers : th'[t].pc \in {"none", "enter", "sem_wait", "look", "lock", "done"}
  BY <1>8, Zenon
<1> QED BY <1>1, <1>7, <1>10, <1>11, Zenon DEF Work, WorkQueueInv

LEMMA UnitsLost ==
    ASSUME NEW v, NEW n, NEW x, NEW y, NEW h, NEW k, NEW lc, NEW lp, NEW x1, NEW y1,
           Units(v, n, x, y, h, k, lc, lp)
    PROVE  Units(FALSE, n, x1, y1, h, k, lc, lp)
BY DEF Units

\* wqInvalidate: the semaphores count nothing any more, the ring is as it was.
LEMMA Invalidates ==
    ASSUME Work, wqInvalidate, UNCHANGED th, env'.main # "create"
    PROVE  Work'
<1>1. q \in Queue /\ Ring(q) /\ Balanced(q, th) /\ th \in Threads
  BY Zenon DEF Work, WorkQueueInv
<1>2. PICK a \in Int, b \in Int, z \in Int : a = q.semFull + q.waiting /\ b = q.semFree + q.waiting /\ z = 0
  <2>1. q.semFull \in Int /\ q.semFree \in Int /\ q.waiting \in Int
    BY WorkTypes, Zenon
  <2>2. (\A i, j \in Int : i + j \in Int) /\ 0 \in Int
    OBVIOUS
  <2> QED BY <2>1, <2>2, Zenon
<1>3. q' = [[q EXCEPT !.semFull = a, !.semFree = b] EXCEPT !.valid = FALSE, !.waiting = z]
  BY <1>2, Zenon DEF wqInvalidate, wqPosts
<1>4. q' \in Queue
  BY <1>1, <1>3 DEF Queue
<1>5. q'.valid = FALSE
  BY <1>1, <1>3 DEF Queue
<1>6. SameRing(q, q')
  BY <1>1, <1>3 DEF Queue, SameRing
<1>7. Balanced(q', th')
  <2>1. PICK n, h, k, lc, lp :
            /\ n = Len(q.content) /\ h = Holding(th, Consumers) /\ k = Holding(th, Producers)
            /\ lc = Locking(th, Consumers) /\ lp = Locking(th, Producers)
    BY Zenon
  <2>2. Units(q.valid, n, q.semFull, q.semFree, h, k, lc, lp)
    BY <1>1, <2>1, Zenon DEF Balanced
  <2>3. Units(FALSE, n, q'.semFull, q'.semFree, h, k, lc, lp)
    BY <2>2, UnitsLost, Zenon
  <2>4. Len(q'.content) = n
    BY <1>6, <2>1, Zenon DEF SameRing
  <2> QED BY <1>5, <2>1, <2>3, <2>4, Zenon DEF Balanced
<1> QED BY <1>1, <1>4, <1>6, <1>7, RingSame, Zenon DEF Work, WorkQueueInv

\* Every step of pchelintsev25.
LEMMA WorkNext ==
    ASSUME Work, env \in Environment, lab = "pchelintsev25", Next
    PROVE  Work' /\ EnvKept
<1>1. q \in Queue /\ th \in Threads
  BY Zenon DEF Work
<1>2. ASSUME UNCHANGED <<th, q>>, env'.main # "create" PROVE Work'
  BY <1>2, Zenon DEF Work, WorkQueueInv, Balanced
<1>3. CASE Interrupt
  <2>1. env' = [env EXCEPT !.signal = TRUE] /\ env.main = "run" /\ UNCHANGED <<th, q>>
    BY <1>3, Zenon DEF Interrupt
  <2>2. env'.main # "create"
    BY <2>1 DEF Environment
  <2> QED BY <1>2, <2>1, <2>2, EnvChanges, Zenon
<1>4. CASE pchelintsev25_main \/ pchelintsev25_reaper
  <2>1. ASSUME NEW m \in {"run", "join", "end"}, env' = [env EXCEPT !.main = m] PROVE env'.main # "create" /\ EnvKept
    <3>1. m \in {"create", "run", "drop", "flag", "join", "end"}
      OBVIOUS
    <3>2. env'.main # "create"
      BY <2>1 DEF Environment
    <3> QED BY <2>1, <3>1, <3>2, EnvChanges, Zenon
  <2>2. CASE pchelintsev25_reaper
    BY <2>1, <2>2, Invalidates, Zenon DEF pchelintsev25_reaper
  <2>3. CASE pchelintsev25_main
    BY <1>2, <2>1, <2>3, TeamStarts, Zenon DEF pchelintsev25_main
  <2> QED BY <1>4, <2>2, <2>3, Zenon
<1>5. ASSUME NEW t \in Producers \cup Consumers, NEW d \in {"semFree", "semFull"}, wqSemDecrLockIncr(t, d), UNCHANGED env,
             t \in Producers => d = "semFree", t \in Consumers => d = "semFull"
      PROVE  Work' /\ EnvKept
  <2>1. EnvKept
    BY <1>5, EnvChanges, Zenon
  <2>2. CASE /\ At(t, "enter") /\ IF q.valid THEN Goes(t, "sem_wait") /\ q' = [q EXCEPT !.waiting = @ + 1]
                                             ELSE Goes(t, "done") /\ UNCHANGED q
    BY <1>5, <2>1, <2>2, Enter, Zenon
  <2>3. CASE At(t, "look") /\ Goes(t, IF q.valid THEN "lock" ELSE "done") /\ UNCHANGED q
    BY <1>5, <2>1, <2>3, Looks, Zenon
  <2>4. CASE At(t, "sem_wait") /\ q[d] > 0 /\ Goes(t, "look") /\ q' = [q EXCEPT ![d] = @ - 1]
    <3>1. CASE t \in Producers
      <4>1. q.semFree > 0 /\ q' = [q EXCEPT !.semFree = @ - 1]
        BY <1>1, <1>5, <2>4, <3>1, SemFields, Zenon
      <4> QED BY <1>5, <2>1, <2>4, <3>1, <4>1, TakesPlace, Zenon
    <3>2. CASE t \in Consumers
      <4>1. q.semFull > 0 /\ q' = [q EXCEPT !.semFull = @ - 1]
        BY <1>1, <1>5, <2>4, <3>2, SemFields, Zenon
      <4> QED BY <1>5, <2>1, <2>4, <3>2, <4>1, TakesMessage, Zenon
    <3> QED BY <3>1, <3>2, Zenon
  <2> QED BY <1>5, <2>2, <2>3, <2>4, Zenon DEF wqSemDecrLockIncr
<1>6. ASSUME NEW t \in Producers, wqPut(t) PROVE Work' /\ EnvKept
  <2>1. "semFree" \in {"semFree", "semFull"} /\ t \notin Consumers /\ t \in Producers \cup Consumers
    BY TeamIsSmall, Zenon
  <2>2. CASE wqSemDecrLockIncr(t, "semFree") /\ UNCHANGED env
    BY <1>5, <2>1, <2>2, Zenon
  <2> QED BY <1>6, <2>2, Puts, Zenon DEF wqPut
<1>7. ASSUME NEW t \in Consumers, wqPop(t) PROVE Work' /\ EnvKept
  <2>1. "semFull" \in {"semFree", "semFull"} /\ t \notin Producers /\ t \in Producers \cup Consumers
    BY TeamIsSmall, Zenon
  <2>2. CASE wqSemDecrLockIncr(t, "semFull") /\ UNCHANGED env
    BY <1>5, <2>1, <2>2, Zenon
  <2> QED BY <1>7, <2>2, Pops, Zenon DEF wqPop
<1>8. lab # "yanin26" /\ (MainStep => pchelintsev25_main \/ pchelintsev25_reaper)
  BY DEF MainStep
<1>9. ASSUME NEW t, ThreadStep(t)
      PROVE  (t \in Producers /\ wqPut(t)) \/ (t \in Consumers /\ wqPop(t))
  BY <1>9 DEF ThreadStep, Queues, pchelintsev25_producer, pchelintsev25_consoomer
<1> QED BY <1>3, <1>4, <1>6, <1>7, <1>8, <1>9, Zenon DEF Next

-----------------------------------------------------------------------------
(* What holds in every reachable state *)

LEMMA InitQueues == Init => QInv
<1> SUFFICES ASSUME Init, lab \in Queues PROVE QInv
  BY Zenon DEF QInv
<1>1. th = [t \in 1 .. 5 |-> [pc |-> "none", at |-> 0, line |-> 0]] /\ q = EmptyQueue
  BY Zenon DEF Init
<1>2. th \in Threads /\ \A t \in 1 .. 5 : th[t].pc = "none"
  BY <1>1 DEF Threads, Places
<1>3. env \in Environment /\ env.slip = FALSE
  BY WorkshopAssumption DEF Init, Environment
<1>4. PICK c \in Nat \ {0}, z \in 0 .. Capacity - 1, e \in Seq(Nat) : c = Capacity /\ z = 0 /\ e = <<>>
  <2>1. 0 \in 0 .. Capacity - 1 /\ <<>> \in Seq(Nat)
    BY Sizes
  <2> QED BY <2>1, Sizes, Zenon
<1>5. PICK d \in [0 .. Capacity - 1 -> Nat] : d = [i \in 0 .. Capacity - 1 |-> 0]
  <2>1. [i \in 0 .. Capacity - 1 |-> 0] \in [0 .. Capacity - 1 -> Nat]
    OBVIOUS
  <2> QED BY <2>1, Zenon
<1>6. q = [slot |-> d, rd |-> z, wr |-> z, full |-> FALSE, state |-> "OK", blocked |-> 0, semFull |-> 0,
           semFree |-> c, valid |-> TRUE, waiting |-> 0, content |-> e]
  BY <1>1, <1>4, <1>5, Zenon DEF EmptyQueue
<1>7. q \in Queue
  BY <1>6 DEF Queue
<1>8. /\ q.rd = z /\ q.wr = z /\ q.full = FALSE /\ q.state = "OK" /\ q.blocked = 0 /\ q.semFull = 0
      /\ q.semFree = c /\ q.valid = TRUE /\ q.content = e
  BY <1>6
<1>9. Len(e) = 0
  BY <1>4
<1>10. Ring(q)
  <2>1. 0 <= c /\ (z + 0) % c = z /\ 1 .. 0 = {}
    BY <1>4
  <2> QED BY <1>4, <1>8, <1>9, <2>1, Zenon DEF Ring
<1>11. ASSUME NEW S \in SUBSET (1 .. 5) PROVE Holding(th, S) = 0 /\ Locking(th, S) = 0
  <2>1. "none" \notin {"look", "lock"} /\ "none" \notin {"lock"}
    OBVIOUS
  <2>2. Counted(th, S, {"look", "lock"}) = {} /\ Counted(th, S, {"lock"}) = {}
    BY <1>2, <2>1, Zenon DEF Counted
  <2> QED BY <2>2, FS_EmptySet, Zenon DEF Holding, Locking
<1>12. WorkQueueInv
  <2>1. /\ Holding(th, Producers) = 0 /\ Locking(th, Producers) = 0
        /\ Holding(th, Consumers) = 0 /\ Locking(th, Consumers) = 0
    BY <1>11, TeamIsSmall, Zenon
  <2>2. 0 = 0 + 0 /\ c - 0 = c + 0 /\ 0 >= 0 /\ c >= 0 /\ 0 <= 0 /\ 0 <= c - 0
    BY <1>4
  <2>3. Balanced(q, th)
    BY <1>4, <1>8, <1>9, <2>1, <2>2, Zenon DEF Balanced, Units
  <2> QED BY <1>2, <1>10, <2>3, TeamIsSmall, Zenon DEF WorkQueueInv
<1>13. QuasiInv(q, th)
  <2>1. "none" \notin {"rd_wait", "wr_wait", "woken"} /\ "none" # "rd_wait" /\ "none" # "wr_wait" /\ "none" # "drop_wait"
    OBVIOUS
  <2>2. Under(th) = {}
    BY <1>2, <2>1, TeamIsSmall, Zenon DEF Under
  <2>3. Cardinality(Under(th)) = 0
    BY <2>2, FS_EmptySet, Zenon
  <2>4. ~Sleeps(th, "rd_wait") /\ ~Sleeps(th, "wr_wait") /\ ~Sleeps(th, "drop_wait")
    BY <1>2, <2>1, TeamIsSmall, Zenon DEF Sleeps
  <2>5. QuasiPlaces(th)
    BY <1>2, TeamIsSmall, Zenon DEF QuasiPlaces
  <2>6. ~q.full /\ Len(q.content) # Capacity
    BY <1>4, <1>8, <1>9
  <2>7. "OK" # "DROPPED"
    OBVIOUS
  <2> QED BY <1>8, <1>10, <2>3, <2>4, <2>5, <2>6, <2>7, Zenon DEF QuasiInv, QuasiPre
<1> QED BY <1>2, <1>3, <1>7, <1>12, <1>13, Zenon DEF QInv

LEMMA NextQueues == QInv /\ [Next]_vars => QInv'
<1> SUFFICES ASSUME QInv, [Next]_vars, lab' \in Queues PROVE QInv'
  BY Zenon DEF QInv
<1>1. lab' = lab
  BY Zenon DEF Next, vars
<1>2. th \in Threads /\ q \in Queue /\ env \in Environment /\ ~env.slip
  BY <1>1, Zenon DEF QInv
<1>3. CASE UNCHANGED vars
  <2>1. th' = th /\ q' = q /\ env' = env
    BY <1>3, Zenon DEF vars
  <2> QED BY <1>1, <2>1, Zenon DEF QInv, WorkQueueInv, Balanced
<1>4. CASE Next /\ lab = "yanin26"
  <2>1. Quasi
    BY <1>1, <1>2, <1>4, Zenon DEF QInv, Quasi
  <2>2. Quasi' /\ EnvKept
    BY <1>2, <1>4, <2>1, QuasiNext, Zenon
  <2>3. lab' # "pchelintsev25"
    BY <1>1, <1>4
  <2> QED BY <1>1, <1>2, <2>2, <2>3, Zenon DEF QInv, Quasi, EnvKept
<1>5. CASE Next /\ lab = "pchelintsev25"
  <2>1. Work
    BY <1>1, <1>2, <1>5, Zenon DEF QInv, Work
  <2>2. Work' /\ EnvKept
    BY <1>2, <1>5, <2>1, WorkNext, Zenon
  <2>3. lab' # "yanin26"
    BY <1>1, <1>5
  <2> QED BY <1>1, <1>2, <2>2, <2>3, Zenon DEF QInv, Work, EnvKept
<1> QED BY <1>1, <1>3, <1>4, <1>5, Zenon DEF Queues

LEMMA SpecQueues == Spec => []QInv
BY InitQueues, NextQueues, PTL DEF Spec

LEMMA QueuesRing == QInv => RingIsFifo
<1> SUFFICES ASSUME QInv, lab \in Queues PROVE RingIsFifo
  BY Zenon DEF RingIsFifo
<1>1. ~env.slip
  BY Zenon DEF QInv
<1>2. CASE lab = "yanin26"
  <2>1. QuasiPre(q, th)
    BY <1>2, Zenon DEF QInv, QuasiInv
  <2>2. lab # "pchelintsev25"
    BY <1>2
  <2> QED BY <1>1, <2>1, <2>2, Zenon DEF QuasiPre, Ring, RingIsFifo
<1>3. CASE lab = "pchelintsev25"
  <2>1. Ring(q) /\ Balanced(q, th)
    BY <1>3, Zenon DEF QInv, WorkQueueInv
  <2>2. lab # "yanin26"
    BY <1>3
  <2>3. q.valid => Len(q.content) = q.semFull + Cardinality({t \in Consumers : th[t].pc \in {"look", "lock"}})
    BY <2>1, Zenon DEF Balanced, Units, Holding, Counted
  <2> QED BY <1>1, <2>1, <2>2, <2>3, Zenon DEF Ring, RingIsFifo
<1> QED BY <1>2, <1>3, Zenon DEF Queues

LEMMA QueuesAwake == QInv => NobodyOversleeps
<1> SUFFICES ASSUME QInv, lab = "yanin26" PROVE NobodyOversleeps
  BY Zenon DEF NobodyOversleeps
<1>1. QuasiInv(q, th) /\ QuasiPre(q, th) /\ q \in Queue
  BY Zenon DEF QInv, QuasiInv, Queues
<1>2. Team = Producers \cup Consumers
  BY DEF Team, Queues
<1>3. Under(th) = {t \in Team : th[t].pc \in {"rd_wait", "wr_wait", "woken"}}
  BY <1>2, Zenon DEF Under
<1>4. \A c : Sleeps(th, c) <=> \E t \in Team : At(t, c)
  BY <1>2, Zenon DEF Sleeps, At
<1>5. quasi_is_empty <=> Len(q.content) = 0
  BY <1>1, EmptyRing, Zenon DEF QuasiPre
<1>6. ~quasi_is_empty => Len(q.content) > 0
  <2>1. Len(q.content) \in Nat
    BY <1>1, RingType, Zenon
  <2> QED BY <1>5, <2>1
<1>7. q.blocked = Cardinality({t \in Team : th[t].pc \in {"rd_wait", "wr_wait", "woken"}})
  BY <1>1, <1>3, Zenon DEF QuasiPre
<1>8. q.state = "DROPPED" => /\ {t \in Team : th[t].pc \in {"rd_wait", "wr_wait", "woken"}} # {}
                             /\ ~\E t \in Team : At(t, "rd_wait")
                             /\ ~\E t \in Team : At(t, "wr_wait")
  BY <1>1, <1>3, <1>4, Zenon DEF QuasiPre, QuasiInv
<1>9. q.state = "OK" => ~\E t \in Team : At(t, "drop_wait")
  BY <1>1, <1>4, Zenon DEF QuasiPre
<1>10. (\E t \in Team : At(t, "rd_wait")) /\ ~quasi_is_empty =>
           \E t \in Consumers : th[t].pc \in {"woken", "top", "enter", "done"}
  BY <1>1, <1>4, <1>6, Zenon DEF QuasiPre
<1>11. (\E t \in Team : At(t, "wr_wait")) /\ ~quasi_is_full =>
           \E t \in Producers : th[t].pc \in {"woken", "top", "enter", "pushed", "done"}
  BY <1>1, <1>4, Zenon DEF QuasiPre, quasi_is_full
<1> QED BY <1>7, <1>8, <1>9, <1>10, <1>11, Zenon DEF NobodyOversleeps

\* For every capacity and every team, the ring of slots of quasi.c and of
\* pchelintsev's queue holds exactly what was pushed and not yet popped, in
\* order, and no slot is overwritten or read twice, also while the queue is
\* dropped or invalidated under its users.
THEOREM WorkshopRing == Spec => []RingIsFifo
BY SpecQueues, QueuesRing, PTL

\* For every capacity and every team, signalling only when quasi_queue stops
\* being empty or full leaves nobody asleep whom no one will wake, and a drop is
\* noted by exactly the calls that were under way.
THEOREM WorkshopAwake == Spec => []NobodyOversleeps
BY SpecQueues, QueuesAwake, PTL
=============================================================================
