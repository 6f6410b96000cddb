------------------------- MODULE WorkshopFactories -------------------------
(***************************************************************************)
(* Proofs about the widget factories of lab 24 for every size of a store,  *)
(* every number of widgets and every number of failures.                   *)
(***************************************************************************)
EXTENDS Workshop, TLAPS, FiniteSetTheorems

-----------------------------------------------------------------------------
(* The inductive invariant *)

Factories == {"yanin24", "gerya24"}
Keys == Parts \X {"space", "out"}

\* What both keep to: a thread that does not run is at the head of its loop.
Makers ==
    /\ th \in Threads /\ sem \in [Keys -> Int] /\ made \in [Parts \cup {"w"} -> Int] /\ env \in Environment
    /\ \A t \in 1 .. 5 : th[t].pc \in {"none", "run", "done"} /\ (th[t].pc # "run" => th[t].at = 0)

\* yanin24: thread t, at place n of its loop, has part p in its hands.
Held(t, n, p) == n > 1 /\ yanin24_loop(t)[n] \in {<<"post", Out(p)>>, <<"post", Space(p)>>}
Hands(f, p) == {t \in 1 .. 5 : Held(t, f[t].at, p)}

YaninInv ==
    /\ \A t \in 1 .. 5 : th[t].at \in 0 .. Len(yanin24_loop(t))
    /\ \A p \in Parts : sem[Out(p)] + sem[Space(p)] + Cardinality(Hands(th, p)) = QueueSize

\* gerya24: 1 for a thread at one of the places ns of its loop
In(n, ns) == IF n \in ns THEN 1 ELSE 0

\* gerya24: what is taken of a part, and what lies there, was made.  The maker
\* of details posts before it counts, the maker of modules after.  ai: the place
\* of thread i; sp: the pieces of part p that lie there; mp: those made.
Books(a1, a2, a3, a4, a5, sa, sb, sc, sd, ma, mb, mc, md, mw) ==
    /\ sa >= 0 /\ sb >= 0 /\ sc >= 0 /\ sd >= 0
    /\ sa + md + In(a4, {2, 3}) <= ma + In(a1, {2})
    /\ sb + md + In(a4, {3}) <= mb + In(a2, {2})
    /\ sc + mw + In(a5, {2, 3}) <= mc + In(a3, {2})
    /\ sd + mw + In(a5, {3}) + In(a4, {4}) <= md
    /\ mw <= WidgetSuffice /\ (a5 > 0 => mw < WidgetSuffice)

GeryaBooks(f, s, m) ==
    Books(f[1].at, f[2].at, f[3].at, f[4].at, f[5].at, s[Out("a")], s[Out("b")], s[Out("c")], s[Out("d")],
          m["a"], m["b"], m["c"], m["d"], m["w"])

\* gerya24: how it ends.
GeryaEnds ==
    /\ th[5].pc = "done" /\ ~env.slip => made["w"] >= WidgetSuffice
    /\ env.main # "create" /\ ~env.interrupted => \A t \in 1 .. 5 : th[t].pc # "none"
    /\ env.main = "end" => \A t \in 1 .. 5 : th[t].pc # "run"

GeryaInv ==
    /\ \A t \in 1 .. 5 : th[t].at \in 0 .. Len(gerya24_loop(t))
    /\ GeryaBooks(th, sem, made) /\ GeryaEnds

FInv ==
    lab \in Factories => /\ Makers
                         /\ lab = "yanin24" => YaninInv
                         /\ lab = "gerya24" => GeryaInv

\* The loops, spelt out.
LEMMA Row2 == ASSUME NEW a, NEW b, NEW r, r = <<a, b>> PROVE Len(r) = 2 /\ r[1] = a /\ r[2] = b
OBVIOUS

LEMMA Row4 ==
    ASSUME NEW a, NEW b, NEW c, NEW d, NEW r, r = <<a, b>> \o <<c, d>>
    PROVE  Len(r) = 4 /\ r[1] = a /\ r[2] = b /\ r[3] = c /\ r[4] = d
OBVIOUS

LEMMA Row6 ==
    ASSUME NEW a, NEW b, NEW c, NEW d, NEW e, NEW f, NEW r, r = <<a, b>> \o <<c, d>> \o <<e, f>>
    PROVE  Len(r) = 6 /\ r[1] = a /\ r[2] = b /\ r[3] = c /\ r[4] = d /\ r[5] = e /\ r[6] = f
<1>1. PICK S : S = {a, b, c, d, e, f}
  OBVIOUS
<1>2. PICK s : s = <<a, b>> \o <<c, d>>
  OBVIOUS
<1>3. Len(s) = 4 /\ s[1] = a /\ s[2] = b /\ s[3] = c /\ s[4] = d
  BY <1>2, Row4
<1>4. s \in Seq(S) /\ <<e, f>> \in Seq(S)
  <2>1. <<a, b>> \in Seq(S) /\ <<c, d>> \in Seq(S) /\ <<e, f>> \in Seq(S)
    BY <1>1
  <2> QED BY <1>2, <2>1
<1>5. r = s \o <<e, f>>
  BY <1>2
<1> HIDE <1>2
<1> QED BY <1>3, <1>4, <1>5

\* A semaphore names its part.
LEMMA KeysDiffer ==
    ASSUME NEW p \in Parts, NEW r \in Parts
    PROVE  /\ Out(p) \in Keys /\ Space(p) \in Keys /\ Out(p) # Space(r)
           /\ Out(p) = Out(r) <=> p = r
           /\ Space(p) = Space(r) <=> p = r
BY DEF Keys, Out, Space

WaitsFor(p) == {<<"wait", Out(p)>>, <<"wait", Space(p)>>}
PostsOf(p) == {<<"post", Out(p)>>, <<"post", Space(p)>>}

LEMMA OpsDiffer ==
    ASSUME NEW p \in Parts, NEW x
    PROVE  /\ x \in WaitsFor(p) => x[1] = "wait" /\ x[2] \in {Out(p), Space(p)} /\ \A r \in Parts : x \notin PostsOf(r)
           /\ x \in PostsOf(p) => x[1] = "post" /\ x[2] \in {Out(p), Space(p)} /\ \A r \in Parts : x \in PostsOf(r) <=> r = p
<1>1. x \in WaitsFor(p) => x[1] = "wait" /\ x[2] \in {Out(p), Space(p)}
  BY DEF WaitsFor
<1>2. x \in PostsOf(p) => x[1] = "post" /\ x[2] \in {Out(p), Space(p)}
  BY DEF PostsOf
<1>3. ASSUME NEW r \in Parts, x \in PostsOf(r) PROVE x[1] = "post" /\ x[2] \in {Out(r), Space(r)}
  BY <1>3 DEF PostsOf
<1>4. "wait" # "post"
  OBVIOUS
<1>5. ASSUME NEW r \in Parts, x \in PostsOf(p), x \in PostsOf(r) PROVE r = p
  BY <1>2, <1>3, <1>5, KeysDiffer, ZenonT(40)
<1> QED BY <1>1, <1>2, <1>3, <1>4, <1>5, Zenon

\* A thread of yanin24 waits for a part, or a place for one, and then posts the
\* other.
YaninRow(row) ==
    \A n \in 1 .. Len(row) : \E p \in Parts :
        \/ row[n] \in WaitsFor(p) /\ n + 1 <= Len(row) /\ row[n + 1] \in PostsOf(p)
        \/ row[n] \in PostsOf(p) /\ n > 1 /\ (n + 1 <= Len(row) => \E r \in Parts : row[n + 1] \in WaitsFor(r))

LEMMA Pairs ==
    ASSUME NEW p \in Parts
    PROVE  /\ produce_part(p)[1] \in WaitsFor(p) /\ produce_part(p)[2] \in PostsOf(p) /\ Len(produce_part(p)) = 2
           /\ retrieve_part(p)[1] \in WaitsFor(p) /\ retrieve_part(p)[2] \in PostsOf(p) /\ Len(retrieve_part(p)) = 2
BY Row2 DEF produce_part, retrieve_part, WaitsFor, PostsOf

LEMMA YaninRows == ASSUME NEW t \in 1 .. 5 PROVE YaninRow(yanin24_loop(t)) /\ Len(yanin24_loop(t)) \in Nat
<1>1. "a" \in Parts /\ "b" \in Parts /\ "c" \in Parts /\ "d" \in Parts
  BY DEF Parts
<1>2. CASE t <= 3
  <2>1. PICK p \in Parts : p = Kind(t)
    <3>1. t = 1 \/ t = 2 \/ t = 3
      BY <1>2
    <3> QED BY <1>1, <3>1 DEF Kind
  <2>2. PICK r : r = produce_part(p)
    BY Zenon
  <2>3. yanin24_loop(t) = r
    BY <1>2, <2>1, <2>2, Zenon DEF yanin24_loop, run_generic_producer
  <2>4. Len(r) = 2 /\ r[1] \in WaitsFor(p) /\ r[2] \in PostsOf(p)
    BY <2>2, Pairs, Zenon
  <2>5. YaninRow(r) /\ Len(r) \in Nat
    BY <2>4 DEF YaninRow
  <2> QED BY <2>3, <2>5, Zenon
<1>3. CASE t = 5
  <2>1. PICK r : r = retrieve_part("c") \o retrieve_part("d")
    BY Zenon
  <2>2. yanin24_loop(t) = r
    <3>1. ~(5 <= 3) /\ 5 # 4
      OBVIOUS
    <3> QED BY <1>3, <2>1, <3>1, Zenon DEF yanin24_loop, run_widget_producer
  <2>3. Len(r) = 4 /\ r[1] \in WaitsFor("c") /\ r[2] \in PostsOf("c") /\ r[3] \in WaitsFor("d") /\ r[4] \in PostsOf("d")
    BY <2>1, Row4 DEF retrieve_part, WaitsFor, PostsOf
  <2>4. YaninRow(r) /\ Len(r) \in Nat
    <3>1. PICK c \in Parts, d \in Parts : c = "c" /\ d = "d"
      BY <1>1, Zenon
    <3>2. Len(r) = 4 /\ r[1] \in WaitsFor(c) /\ r[2] \in PostsOf(c) /\ r[3] \in WaitsFor(d) /\ r[4] \in PostsOf(d)
      BY <2>3, <3>1, Zenon
    <3> QED BY <3>2 DEF YaninRow
  <2> QED BY <2>2, <2>4, Zenon
<1>4. CASE t = 4
  <2>1. PICK r : r = retrieve_part("a") \o retrieve_part("b") \o produce_part("d")
    BY Zenon
  <2>2. yanin24_loop(t) = r
    <3>1. ~(4 <= 3)
      OBVIOUS
    <3> QED BY <1>4, <2>1, <3>1, Zenon DEF yanin24_loop, run_d_producer
  <2>3. /\ Len(r) = 6 /\ r[1] \in WaitsFor("a") /\ r[2] \in PostsOf("a") /\ r[3] \in WaitsFor("b") /\ r[4] \in PostsOf("b")
        /\ r[5] \in WaitsFor("d") /\ r[6] \in PostsOf("d")
    BY <2>1, Row6 DEF retrieve_part, produce_part, WaitsFor, PostsOf
  <2>4. YaninRow(r) /\ Len(r) \in Nat
    <3>1. PICK a \in Parts, b \in Parts, d \in Parts : a = "a" /\ b = "b" /\ d = "d"
      BY <1>1, Zenon
    <3>2. /\ Len(r) = 6 /\ r[1] \in WaitsFor(a) /\ r[2] \in PostsOf(a) /\ r[3] \in WaitsFor(b) /\ r[4] \in PostsOf(b)
          /\ r[5] \in WaitsFor(d) /\ r[6] \in PostsOf(d)
      BY <2>3, <3>1, Zenon
    <3> QED BY <3>2 DEF YaninRow
  <2> QED BY <2>2, <2>4, Zenon
<1>5. t <= 3 \/ t = 4 \/ t = 5
  OBVIOUS
<1> QED BY <1>2, <1>3, <1>4, <1>5, Zenon

LEMMA YaninLong == ASSUME NEW t \in 1 .. 5 PROVE Len(yanin24_loop(t)) >= 1
<1>1. PICK row, p : row = yanin24_loop(t) /\ p = Kind(t)
  BY Zenon
<1>2. CASE t <= 3
  BY <1>1, <1>2, Row2 DEF yanin24_loop, run_generic_producer, produce_part
<1>3. CASE t = 4
  <2>1. row = run_d_producer
    BY <1>1, <1>3 DEF yanin24_loop
  <2> QED BY <1>1, <2>1, Row6 DEF run_d_producer, retrieve_part, produce_part
<1>4. CASE t = 5
  <2>1. row = run_widget_producer
    BY <1>1, <1>4 DEF yanin24_loop
  <2> QED BY <1>1, <2>1, Row4 DEF run_widget_producer, retrieve_part
<1> QED BY <1>2, <1>3, <1>4

\* From f to g the thread t has gone to place n of its loop, in state l, and the
\* others are where they were.
Turned(f, g, t, l, n) ==
    /\ g \in Threads /\ g[t].pc = l /\ g[t].at = n
    /\ \A u \in 1 .. 5 : u # t => g[u].pc = f[u].pc /\ g[u].at = f[u].at

LEMMA Turns ==
    ASSUME NEW f \in Threads, NEW t \in 1 .. 5, NEW n \in Nat, NEW l \in Places
    PROVE  /\ Turned(f, [f EXCEPT ![t].at = n], t, f[t].pc, n)
           /\ Turned(f, [f EXCEPT ![t].pc = l, ![t].at = n], t, l, n)
<1>1. Turned(f, [f EXCEPT ![t].at = n], t, f[t].pc, n)
  BY DEF Turned, Threads
<1>2. Turned(f, [f EXCEPT ![t].pc = l, ![t].at = n], t, l, n)
  BY DEF Turned, Threads
<1> QED BY <1>1, <1>2, Zenon

\* A thread that takes a part in its hands, or lets it go.
LEMMA HandsFinite == ASSUME NEW f, NEW p PROVE IsFiniteSet(Hands(f, p)) /\ Cardinality(Hands(f, p)) \in Nat
<1>1. IsFiniteSet(1 .. 5)
  <2>1. 1 \in Int /\ 5 \in Int
    OBVIOUS
  <2> QED BY <2>1, FS_Interval, Zenon
<1>2. Hands(f, p) \subseteq 1 .. 5
  BY Zenon DEF Hands
<1> QED BY <1>1, <1>2, FS_Subset, FS_CardinalityType, Zenon

LEMMA HandsSame ==
    ASSUME NEW f, NEW g, NEW p, \A u \in 1 .. 5 : Held(u, g[u].at, p) <=> Held(u, f[u].at, p)
    PROVE  Hands(g, p) = Hands(f, p)
BY Zenon DEF Hands

LEMMA HandsGain ==
    ASSUME NEW f, NEW g, NEW p, NEW t \in 1 .. 5, \A u \in 1 .. 5 : u # t => g[u].at = f[u].at,
           ~Held(t, f[t].at, p), Held(t, g[t].at, p)
    PROVE  Cardinality(Hands(g, p)) = Cardinality(Hands(f, p)) + 1
<1>1. t \notin Hands(f, p)
  BY Zenon DEF Hands
<1>2. Hands(g, p) = Hands(f, p) \cup {t}
  <2>1. ASSUME NEW u \in 1 .. 5 PROVE u \in Hands(g, p) <=> u \in Hands(f, p) \/ u = t
    BY Zenon DEF Hands
  <2>2. Hands(g, p) \subseteq 1 .. 5 /\ Hands(f, p) \subseteq 1 .. 5
    BY Zenon DEF Hands
  <2> QED BY <2>1, <2>2, Zenon
<1> QED BY <1>1, <1>2, HandsFinite, FS_AddElement, Zenon

\* One of the two semaphores of p goes by k, no other semaphore of the parts.
Goods(s, p) == s[Out(p)] + s[Space(p)]
Shifted(s, z, x, k) == z = [s EXCEPT ![x] = s[x] + k]

Trade(s, z, p, x, k) ==
    s \in [Keys -> Int] /\ p \in Parts /\ x \in {Out(p), Space(p)} /\ k \in Int /\ Shifted(s, z, x, k)

Traded(s, z, p, k) ==
    z \in [Keys -> Int] /\ Goods(z, p) = Goods(s, p) + k /\ \A r \in Parts : r # p => Goods(z, r) = Goods(s, r)

LEMMA GoodsMove ==
    ASSUME NEW s, NEW p, NEW x, NEW k, NEW z, Trade(s, z, p, x, k)
    PROVE  Traded(s, z, p, k)
<1> s \in [Keys -> Int] /\ p \in Parts /\ x \in {Out(p), Space(p)} /\ k \in Int /\ Shifted(s, z, x, k)
  BY Zenon DEF Trade
<1>1. x \in Keys /\ s[x] + k \in Int
  BY KeysDiffer
<1>2. z \in [Keys -> Int] /\ z[x] = s[x] + k /\ \A y \in Keys : y # x => z[y] = s[y]
  BY <1>1 DEF Shifted
<1>3. ASSUME NEW r \in Parts, r # p PROVE Goods(z, r) = Goods(s, r)
  <2>1. Out(r) \in Keys /\ Space(r) \in Keys /\ Out(r) # x /\ Space(r) # x
    <3>1. Out(r) \in Keys /\ Space(r) \in Keys /\ Out(r) # Space(p) /\ Out(p) # Space(r)
      BY KeysDiffer, Zenon
    <3>2. Out(r) # Out(p) /\ Space(r) # Space(p)
      BY <1>3, KeysDiffer, Zenon
    <3> QED BY <3>1, <3>2, Zenon
  <2>2. z[Out(r)] = s[Out(r)] /\ z[Space(r)] = s[Space(r)]
    BY <1>2, <2>1, Zenon
  <2> QED BY <2>2, Zenon DEF Goods
<1>4. Goods(z, p) = Goods(s, p) + k
  <2>1. PICK a \in Int, b \in Int : a = s[Out(p)] /\ b = s[Space(p)]
    BY KeysDiffer
  <2>2. CASE x = Out(p)
    <3>1. z[Out(p)] = a + k /\ z[Space(p)] = b
      BY <1>2, <2>1, <2>2, KeysDiffer, Zenon
    <3>2. (a + k) + b = (a + b) + k
      OBVIOUS
    <3> QED BY <2>1, <3>1, <3>2, Zenon DEF Goods
  <2>3. CASE x = Space(p)
    <3>1. z[Out(p)] = a /\ z[Space(p)] = b + k
      BY <1>2, <2>1, <2>3, KeysDiffer, Zenon
    <3>2. a + (b + k) = (a + b) + k
      OBVIOUS
    <3> QED BY <2>1, <3>1, <3>2, Zenon DEF Goods
  <2> QED BY <2>2, <2>3
<1> QED BY <1>2, <1>3, <1>4, Zenon DEF Traded

\* Which parts thread t has in its hands before and after the operation at n.
LEMMA HeldPlaces ==
    ASSUME NEW t \in 1 .. 5, NEW n \in 1 .. Len(yanin24_loop(t))
    PROVE  \E p \in Parts :
             \/ /\ yanin24_loop(t)[n] \in WaitsFor(p) /\ n # Len(yanin24_loop(t))
                /\ \A r \in Parts : ~Held(t, n, r) /\ (Held(t, n + 1, r) <=> r = p)
             \/ /\ yanin24_loop(t)[n] \in PostsOf(p)
                /\ \A r \in Parts : (Held(t, n, r) <=> r = p) /\ (n # Len(yanin24_loop(t)) => ~Held(t, n + 1, r))
<1>0. PICK row : row = yanin24_loop(t)
  BY Zenon
<1>1. PICK m \in Nat : row = yanin24_loop(t) /\ m = Len(row) /\ YaninRow(row)
  BY <1>0, YaninRows, Zenon
<1>2. n \in 1 .. m
  BY <1>1
<1>3. ASSUME NEW i, NEW r PROVE Held(t, i, r) <=> i > 1 /\ row[i] \in PostsOf(r)
  BY <1>1, Zenon DEF Held, PostsOf
<1>4. PICK p \in Parts :
        \/ row[n] \in WaitsFor(p) /\ n + 1 <= m /\ row[n + 1] \in PostsOf(p)
        \/ row[n] \in PostsOf(p) /\ n > 1 /\ (n + 1 <= m => \E r \in Parts : row[n + 1] \in WaitsFor(r))
  BY <1>1, <1>2, Zenon DEF YaninRow
<1>5. n + 1 > 1 /\ (n + 1 <= m <=> n # m)
  BY <1>2
<1>6. CASE row[n] \in WaitsFor(p) /\ n + 1 <= m /\ row[n + 1] \in PostsOf(p)
  <2>1. \A r \in Parts : row[n] \notin PostsOf(r) /\ (row[n + 1] \in PostsOf(r) <=> r = p)
    BY <1>6, OpsDiffer, Zenon
  <2> QED BY <1>1, <1>3, <1>5, <1>6, <2>1, Zenon
<1>7. CASE row[n] \in PostsOf(p) /\ n > 1 /\ (n + 1 <= m => \E r \in Parts : row[n + 1] \in WaitsFor(r))
  <2>1. \A r \in Parts : (row[n] \in PostsOf(r) <=> r = p) /\ (n # m => row[n + 1] \notin PostsOf(r))
    BY <1>5, <1>7, OpsDiffer, Zenon
  <2> QED BY <1>1, <1>3, <1>5, <1>7, <2>1, Zenon
<1> QED BY <1>4, <1>6, <1>7, Zenon

LEMMA NothingHeld == ASSUME NEW t, NEW p PROVE ~Held(t, 0, p) /\ ~Held(t, 1, p)
BY DEF Held

Yanin == Makers /\ YaninInv

\* The place after n in a loop, and what an operation adds to its semaphore.
After(row, n) == IF n = Len(row) THEN 0 ELSE n + 1
Gain(op) == IF op[1] = "post" THEN 1 ELSE -1

\* An operation of a thread of yanin24 on one of its semaphores.
LEMMA YaninTurn ==
    ASSUME Yanin, NEW t \in 1 .. 5, NEW n \in 1 .. Len(yanin24_loop(t)), th[t].at = n,
           NEW m, m = After(yanin24_loop(t), n),
           Turned(th, th', t, th[t].pc, m), NEW op, op = yanin24_loop(t)[n], NEW k \in Int,
           k = Gain(op), Shifted(sem, sem', op[2], k)
    PROVE  YaninInv' /\ sem' \in [Keys -> Int]
<1>1. PICK p \in Parts :
        \/ /\ op \in WaitsFor(p) /\ n # Len(yanin24_loop(t))
           /\ \A r \in Parts : ~Held(t, n, r) /\ (Held(t, n + 1, r) <=> r = p)
        \/ /\ op \in PostsOf(p)
           /\ \A r \in Parts : (Held(t, n, r) <=> r = p) /\ (n # Len(yanin24_loop(t)) => ~Held(t, n + 1, r))
  <2>1. PICK p \in Parts :
          \/ /\ yanin24_loop(t)[n] \in WaitsFor(p) /\ n # Len(yanin24_loop(t))
             /\ \A r \in Parts : ~Held(t, n, r) /\ (Held(t, n + 1, r) <=> r = p)
          \/ /\ yanin24_loop(t)[n] \in PostsOf(p)
             /\ \A r \in Parts : (Held(t, n, r) <=> r = p) /\ (n # Len(yanin24_loop(t)) => ~Held(t, n + 1, r))
    BY HeldPlaces, Zenon
  <2> QED BY <2>1, Zenon
<1>2. \/ op[1] = "wait" /\ op[2] \in {Out(p), Space(p)} /\ \A r \in Parts : ~Held(t, n, r) /\ (Held(t, m, r) <=> r = p)
      \/ op[1] = "post" /\ op[2] \in {Out(p), Space(p)} /\ \A r \in Parts : ~Held(t, m, r) /\ (Held(t, n, r) <=> r = p)
  BY <1>1, OpsDiffer, NothingHeld, Zenon DEF After
<1>3. sem \in [Keys -> Int]
  BY Zenon DEF Yanin, Makers
<1>4. sem' \in [Keys -> Int] /\ Goods(sem', p) = Goods(sem, p) + k /\ \A r \in Parts : r # p => Goods(sem', r) = Goods(sem, r)
  <2>1. PICK x \in {Out(p), Space(p)} : x = op[2]
    BY <1>2, Zenon
  <2>2. PICK s, z : s = sem /\ z = sem' /\ s \in [Keys -> Int]
    BY <1>3, Zenon
  <2>3. Trade(s, z, p, x, k)
    BY <2>1, <2>2, Zenon DEF Trade
  <2>4. Traded(s, z, p, k)
    BY <2>3, GoodsMove, Zenon
  <2> QED BY <2>2, <2>4, Zenon DEF Traded
<1>5. th'[t].at = m /\ \A u \in 1 .. 5 : u # t => th'[u].at = th[u].at
  BY Zenon DEF Turned
<1>6. \A r \in Parts : Goods(sem, r) + Cardinality(Hands(th, r)) = QueueSize
  BY Zenon DEF Yanin, YaninInv, Goods
<1>7. ASSUME NEW r \in Parts, r # p PROVE Goods(sem', r) + Cardinality(Hands(th', r)) = QueueSize
  <2>1. Held(t, m, r) <=> Held(t, n, r)
    BY <1>2, <1>7, Zenon
  <2>2. Hands(th', r) = Hands(th, r)
    <3>1. \A u \in 1 .. 5 : Held(u, th'[u].at, r) <=> Held(u, th[u].at, r)
      BY <1>5, <2>1, Zenon
    <3> QED BY <3>1, HandsSame, Zenon
  <2> QED BY <1>4, <1>6, <1>7, <2>2, Zenon
<1>8. Goods(sem', p) + Cardinality(Hands(th', p)) = QueueSize
  <2>1. PICK a \in Int, b \in Int : a = Goods(sem, p) /\ b = Goods(sem', p)
    <3>1. \A s \in [Keys -> Int] : Goods(s, p) \in Int
      BY KeysDiffer DEF Goods
    <3> QED BY <1>3, <1>4, <3>1, Zenon
  <2>2. PICK c \in Nat, d \in Nat : c = Cardinality(Hands(th, p)) /\ d = Cardinality(Hands(th', p))
    BY HandsFinite, Zenon
  <2>3. d = c - k
    <3>1. CASE op[1] = "wait"
      <4>1. "wait" # "post"
        OBVIOUS
      <4>2. k = -1 /\ ~Held(t, n, p) /\ Held(t, m, p)
        BY <1>2, <3>1, <4>1, Zenon DEF Gain
      <4>3. d = c + 1
        BY <1>5, <2>2, <4>2, HandsGain, Zenon
      <4>4. d = c + 1 /\ k = -1 => d = c - k
        OBVIOUS
      <4> QED BY <4>2, <4>3, <4>4, Zenon
    <3>2. CASE op[1] = "post"
      <4>1. "wait" # "post"
        OBVIOUS
      <4>2. k = 1 /\ Held(t, n, p) /\ ~Held(t, m, p)
        BY <1>2, <3>2, <4>1, Zenon DEF Gain
      <4>3. \A u \in 1 .. 5 : u # t => th[u].at = th'[u].at
        BY <1>5, Zenon
      <4>4. c = d + 1
        BY <1>5, <2>2, <4>2, <4>3, HandsGain, Zenon
      <4>5. c = d + 1 /\ k = 1 => d = c - k
        OBVIOUS
      <4> QED BY <4>2, <4>4, <4>5, Zenon
    <3> QED BY <1>2, <3>1, <3>2, Zenon
  <2>4. b = a + k /\ a + c = QueueSize
    BY <1>4, <1>6, <2>1, <2>2, Zenon
  <2>5. b + d = QueueSize
    <3>1. a + c = QueueSize => (a + k) + (c - k) = QueueSize
      OBVIOUS
    <3> QED BY <2>3, <2>4, <3>1, Zenon
  <2> QED BY <2>1, <2>2, <2>5, Zenon
<1>9. \A r \in Parts : sem'[Out(r)] + sem'[Space(r)] + Cardinality(Hands(th', r)) = QueueSize
  BY <1>7, <1>8, Zenon DEF Goods
<1>10. \A u \in 1 .. 5 : th'[u].at \in 0 .. Len(yanin24_loop(u))
  <2>1. m \in 0 .. Len(yanin24_loop(t))
    <3>1. PICK x \in Nat : x = Len(yanin24_loop(t))
      BY YaninRows, Zenon
    <3>2. n \in 1 .. x /\ m = IF n = x THEN 0 ELSE n + 1
      BY <3>1 DEF After
    <3>3. m \in 0 .. x
      BY <3>2
    <3> QED BY <3>1, <3>3, Zenon
  <2> QED BY <1>5, <2>1, Zenon DEF Yanin, YaninInv
<1> QED BY <1>4, <1>9, <1>10, Zenon DEF YaninInv

\* The steps of main and of the threads that both factories have.
LEMMA OrderIsTeam == \A k \in 1 .. 5 : Order[k] \in 1 .. 5
<1>1. CASE lab = "gerya24"
  BY <1>1 DEF Order
<1>2. CASE lab # "gerya24"
  BY <1>2 DEF Order
<1> QED BY <1>1, <1>2

FirstPlace(t) == IF lab = "gerya24" /\ t <= 3 THEN 1 ELSE 0

\* env goes on with main at m, interrupted or not.
EnvGoes(m, b) == env' \in Environment /\ env'.main = m /\ env'.interrupted = b /\ env'.slip = env.slip

LEMMA FactoryEnv ==
    ASSUME env \in Environment, NEW m \in {"create", "run", "drop", "flag", "join", "end"}
    PROVE  /\ env' = [env EXCEPT !.main = m] => EnvGoes(m, env.interrupted)
           /\ env' = [env EXCEPT !.main = "join", !.interrupted = TRUE] => EnvGoes("join", TRUE)
           /\ env' = [env EXCEPT !.signal = TRUE] => EnvGoes(env.main, env.interrupted)
           /\ env' = [[env EXCEPT !.main = "join", !.interrupted = TRUE] EXCEPT !.faults = @ - 1] => EnvGoes("join", TRUE)
<1> USE DEF Environment, EnvGoes
<1>1. env' = [env EXCEPT !.main = m] => EnvGoes(m, env.interrupted)
  OBVIOUS
<1>2. env' = [env EXCEPT !.main = "join", !.interrupted = TRUE] => EnvGoes("join", TRUE)
  OBVIOUS
<1>3. env' = [env EXCEPT !.signal = TRUE] => EnvGoes(env.main, env.interrupted)
  OBVIOUS
<1>4. env' = [[env EXCEPT !.main = "join", !.interrupted = TRUE] EXCEPT !.faults = @ - 1] => EnvGoes("join", TRUE)
  <2>1. PICK f : f = [env EXCEPT !.main = "join", !.interrupted = TRUE]
    BY Zenon
  <2>2. f \in Environment /\ f.main = "join" /\ f.interrupted = TRUE /\ f.slip = env.slip
    BY <2>1
  <2>3. PICK k \in Int : k = f.faults - 1
    BY <2>2
  <2>4. ASSUME NEW e, e = [f EXCEPT !.faults = k]
        PROVE  e \in Environment /\ e.main = f.main /\ e.interrupted = f.interrupted /\ e.slip = f.slip
    BY <2>2, <2>4
  <2> QED BY <2>1, <2>2, <2>3, <2>4, Zenon
<1> QED BY <1>1, <1>2, <1>3, <1>4, Zenon

CreateCases ==
    \/ /\ env.main = "create" /\ UNCHANGED env
       /\ \E u \in 1 .. 5 : th[u].pc = "none" /\ Turned(th, th', u, "run", FirstPlace(u))
    \/ env.main = "create" /\ UNCHANGED th /\ EnvGoes("join", TRUE)
    \/ env.main = "create" /\ UNCHANGED th /\ EnvGoes("run", env.interrupted) /\ \A t \in 1 .. 5 : th[t].pc # "none"

LEMMA Creates ==
    ASSUME Makers, lab \in Factories, CreatesTeam([env EXCEPT !.main = "join", !.interrupted = TRUE])
    PROVE  UNCHANGED <<sem, made>> /\ CreateCases
<1>1. th \in Threads /\ env \in Environment
  BY Zenon DEF Makers
<1>2. env.main = "create" /\ UNCHANGED <<sem, made>>
  BY Zenon DEF CreatesTeam
<1>3. Team = 1 .. 5
  BY DEF Team, Factories, Queues
<1>4. ASSUME NEW k \in 1 .. 5, th[Order[k]].pc = "none",
             th' = [th EXCEPT ![Order[k]].pc = "run",
                              ![Order[k]].at = IF lab = "gerya24" /\ Order[k] <= 3 THEN 1 ELSE 0],
             UNCHANGED env
      PROVE  CreateCases
  <2>1. PICK u \in 1 .. 5 : u = Order[k]
    BY OrderIsTeam, Zenon
  <2>2. PICK n \in Nat : n = FirstPlace(u)
    <3>1. 0 \in Nat /\ 1 \in Nat
      OBVIOUS
    <3> QED BY <3>1, Zenon DEF FirstPlace
  <2>3. th' = [th EXCEPT ![u].pc = "run", ![u].at = n]
    BY <1>4, <2>1, <2>2, Zenon DEF FirstPlace
  <2>4. "run" \in Places
    BY DEF Places
  <2>5. Turned(th, th', u, "run", n)
    BY <1>1, <2>3, <2>4, Turns, Zenon
  <2> QED BY <1>2, <1>4, <2>1, <2>2, <2>5, Zenon DEF CreateCases
<1>5. ASSUME env' = [[env EXCEPT !.main = "join", !.interrupted = TRUE] EXCEPT !.faults = @ - 1], UNCHANGED th
      PROVE  CreateCases
  <2>1. "join" \in {"create", "run", "drop", "flag", "join", "end"}
    OBVIOUS
  <2>2. EnvGoes("join", TRUE)
    BY <1>1, <1>5, <2>1, FactoryEnv, Zenon
  <2> QED BY <1>2, <1>5, <2>2, Zenon DEF CreateCases
<1>6. ASSUME \A t \in Team : th[t].pc # "none", env' = [env EXCEPT !.main = "run"], UNCHANGED th
      PROVE  CreateCases
  <2>1. "run" \in {"create", "run", "drop", "flag", "join", "end"}
    OBVIOUS
  <2>2. EnvGoes("run", env.interrupted)
    BY <1>1, <1>6, <2>1, FactoryEnv, Zenon
  <2> QED BY <1>2, <1>3, <1>6, <2>2, Zenon DEF CreateCases
<1> QED BY <1>2, <1>4, <1>5, <1>6, Zenon DEF CreatesTeam

\* The cases of a thread's step.
TurnCases(t, n, row, op) ==
    \/ /\ n = 0 /\ UNCHANGED <<sem, made, env>>
       /\ (Enough(t) /\ Turned(th, th', t, "done", 0)) \/ (~Enough(t) /\ Turned(th, th', t, "run", 1))
    \/ /\ n > 0 /\ op[1] \in {"post", "wait", "timed"} /\ (op[1] # "post" => sem[op[2]] > 0)
       /\ Turned(th, th', t, "run", After(row, n)) /\ Shifted(sem, sem', op[2], Gain(op)) /\ UNCHANGED <<made, env>>
    \/ /\ n > 0 /\ op[1] = "timed" /\ Turned(th, th', t, "done", 0)
       /\ env' = [env EXCEPT !.slip = TRUE] /\ UNCHANGED <<sem, made>>
    \/ /\ n > 0 /\ op[1] = "made" /\ Turned(th, th', t, "run", After(row, n))
       /\ Shifted(made, made', op[2], 1) /\ UNCHANGED <<sem, env>>

LEMMA RepeatCases ==
    ASSUME Makers, NEW t \in 1 .. 5, NEW n, n = th[t].at, NEW row, row = Loop(t), Len(row) \in Nat,
           NEW op, op = row[n], Repeats(t)
    PROVE  TurnCases(t, n, row, op) /\ th[t].pc = "run"
<1>1. th \in Threads /\ n \in Nat /\ sem \in [Keys -> Int]
  BY DEF Makers, Threads
<1>2. th[t].pc = "run" /\ {"run", "done"} \subseteq Places
  BY DEF Repeats, At, Places
<1>3. PICK m \in Nat : m = After(row, n)
  BY <1>1 DEF After
<1>4. 0 \in Nat /\ 1 \in Nat
  OBVIOUS
<1>5. ASSUME NEW l \in {"run", "done"}, NEW i \in Nat, th' = [th EXCEPT ![t].pc = l, ![t].at = i]
      PROVE  Turned(th, th', t, l, i)
  BY <1>1, <1>2, <1>5, Turns, Zenon
<1>6. ASSUME th' = [th EXCEPT ![t].at = IF n = Len(row) THEN 0 ELSE n + 1]
      PROVE  Turned(th, th', t, "run", m)
  <2>1. th' = [th EXCEPT ![t].at = m]
    BY <1>3, <1>6, Zenon DEF After
  <2> QED BY <1>1, <1>2, <2>1, Turns, Zenon
<1>7. CASE /\ n = 0 /\ UNCHANGED <<sem, made, env>>
           /\ th' = [th EXCEPT ![t].pc = IF Enough(t) THEN "done" ELSE @, ![t].at = IF Enough(t) THEN 0 ELSE 1]
  <2>1. CASE Enough(t)
    <3>1. th' = [th EXCEPT ![t].pc = "done", ![t].at = 0]
      BY <1>7, <2>1, Zenon
    <3> QED BY <1>2, <1>4, <1>5, <1>7, <2>1, <3>1, Zenon DEF TurnCases
  <2>2. CASE ~Enough(t)
    <3>1. th' = [th EXCEPT ![t].pc = "run", ![t].at = 1]
      BY <1>2, <1>7, <2>2, Zenon
    <3> QED BY <1>2, <1>4, <1>5, <1>7, <2>2, <3>1, Zenon DEF TurnCases
  <2> QED BY <2>1, <2>2, Zenon
<1>8. CASE /\ n > 0 /\ op[1] = "post" /\ th' = [th EXCEPT ![t].at = IF n = Len(row) THEN 0 ELSE n + 1]
           /\ sem' = [sem EXCEPT ![op[2]] = @ + 1] /\ UNCHANGED <<made, env>>
  <2>1. Gain(op) = 1
    BY <1>8, Zenon DEF Gain
  <2>2. Shifted(sem, sem', op[2], Gain(op))
    BY <1>8, <2>1, Zenon DEF Shifted
  <2> QED BY <1>2, <1>3, <1>6, <1>8, <2>2, Zenon DEF TurnCases
<1>9. CASE /\ n > 0 /\ op[1] \in {"wait", "timed"} /\ sem[op[2]] > 0
           /\ th' = [th EXCEPT ![t].at = IF n = Len(row) THEN 0 ELSE n + 1]
           /\ sem' = [sem EXCEPT ![op[2]] = @ - 1] /\ UNCHANGED <<made, env>>
  <2>1. Gain(op) = -1
    <3>1. "wait" # "post" /\ "timed" # "post"
      OBVIOUS
    <3> QED BY <1>9, <3>1, Zenon DEF Gain
  <2>2. Shifted(sem, sem', op[2], Gain(op))
    <3>1. sem' = [sem EXCEPT ![op[2]] = @ + -1]
      BY <1>1, <1>9
    <3> QED BY <2>1, <3>1, Zenon DEF Shifted
  <2> QED BY <1>2, <1>3, <1>6, <1>9, <2>2, Zenon DEF TurnCases
<1>10. CASE /\ n > 0 /\ op[1] = "timed" /\ sem[op[2]] = 0
            /\ th' = [th EXCEPT ![t].pc = "done", ![t].at = 0]
            /\ env' = [env EXCEPT !.slip = TRUE] /\ UNCHANGED <<sem, made>>
  BY <1>2, <1>4, <1>5, <1>10, Zenon DEF TurnCases
<1>11. CASE /\ n > 0 /\ op[1] = "made" /\ th' = [th EXCEPT ![t].at = IF n = Len(row) THEN 0 ELSE n + 1]
            /\ made' = [made EXCEPT ![op[2]] = @ + 1] /\ UNCHANGED <<sem, env>>
  BY <1>2, <1>3, <1>6, <1>11, Zenon DEF TurnCases, Shifted
<1> QED BY <1>2, <1>7, <1>8, <1>9, <1>10, <1>11, Zenon DEF Repeats

LEMMA MakersTurn ==
    ASSUME Makers, NEW t \in 1 .. 5, NEW l \in {"run", "done"}, NEW n, l = "done" => n = 0, Turned(th, th', t, l, n),
           sem' \in [Keys -> Int], made' \in [Parts \cup {"w"} -> Int], env' \in Environment
    PROVE  Makers'
<1>1. th' \in Threads
  BY Zenon DEF Turned
<1>2. ASSUME NEW u \in 1 .. 5 PROVE th'[u].pc \in {"none", "run", "done"} /\ (th'[u].pc # "run" => th'[u].at = 0)
  <2>1. CASE u = t
    BY <2>1, Zenon DEF Turned
  <2>2. CASE u # t
    BY <2>2, Zenon DEF Turned, Makers
  <2> QED BY <2>1, <2>2, Zenon
<1> QED BY <1>1, <1>2, Zenon DEF Makers

\* Steps that leave the threads and the semaphores alone.
LEMMA YaninRests ==
    ASSUME Yanin, UNCHANGED <<th, sem, made>>, env' \in Environment
    PROVE  Yanin'
<1>1. Makers'
  BY Zenon DEF Yanin, Makers
<1>2. \A p : Hands(th', p) = Hands(th, p)
  BY Zenon DEF Hands
<1>3. YaninInv'
  BY <1>2, Zenon DEF Yanin, YaninInv
<1> QED BY <1>1, <1>3, Zenon DEF Yanin

\* A thread that holds nothing goes to a place where it holds nothing.
LEMMA YaninEmptyHanded ==
    ASSUME Yanin, NEW t \in 1 .. 5, NEW l, NEW n \in {0, 1}, Turned(th, th', t, l, n), th[t].at = 0, UNCHANGED sem
    PROVE  YaninInv'
<1>1. ASSUME NEW p PROVE Hands(th', p) = Hands(th, p)
  <2>1. ASSUME NEW u \in 1 .. 5 PROVE Held(u, th'[u].at, p) <=> Held(u, th[u].at, p)
    <3>1. CASE u = t
      BY <3>1, NothingHeld, Zenon DEF Turned
    <3>2. CASE u # t
      BY <3>2, Zenon DEF Turned
    <3> QED BY <3>1, <3>2, Zenon
  <2> QED BY <2>1, HandsSame, Zenon
<1>2. ASSUME NEW u \in 1 .. 5 PROVE th'[u].at \in 0 .. Len(yanin24_loop(u))
  <2>1. CASE u # t
    BY <2>1, Zenon DEF Turned, Yanin, YaninInv
  <2>2. CASE u = t
    <3>1. PICK x \in Nat : x = Len(yanin24_loop(t)) /\ x >= 1
      BY YaninLong
    <3>2. n \in 0 .. x
      BY <3>1
    <3> QED BY <2>2, <3>1, <3>2, Zenon DEF Turned
  <2> QED BY <2>1, <2>2, Zenon
<1>3. \A p \in Parts : sem'[Out(p)] + sem'[Space(p)] + Cardinality(Hands(th', p)) = QueueSize
  BY <1>1, Zenon DEF Yanin, YaninInv
<1> QED BY <1>2, <1>3, Zenon DEF YaninInv

\* Every step of yanin24.
LEMMA YaninNext ==
    ASSUME Yanin, lab = "yanin24", Next
    PROVE  Yanin'
<1>1. Makers /\ th \in Threads /\ sem \in [Keys -> Int] /\ made \in [Parts \cup {"w"} -> Int] /\ env \in Environment
  BY Zenon DEF Yanin, Makers
<1>2. lab \in Factories /\ lab # "gerya24" /\ lab # "yanin26" /\ lab \notin Queues
  BY DEF Factories, Queues
<1>3. Team = 1 .. 5
  BY <1>2, Zenon DEF Team
<1>4. {"join", "end"} \subseteq {"create", "run", "drop", "flag", "join", "end"}
  OBVIOUS
<1>5. CASE Interrupt
  <2>1. env' \in Environment
    BY <1>1, <1>4, <1>5, FactoryEnv, Zenon DEF Interrupt, EnvGoes
  <2> QED BY <1>5, <2>1, YaninRests, Zenon DEF Interrupt
<1>6. CASE yanin24_main
  <2>1. CASE env' = [env EXCEPT !.main = "join", !.interrupted = TRUE] /\ UNCHANGED <<th, sem, made>>
    <3>1. env' \in Environment
      BY <1>1, <1>4, <2>1, FactoryEnv, Zenon DEF EnvGoes
    <3> QED BY <2>1, <3>1, YaninRests, Zenon
  <2>2. CASE JoinsTeam("end")
    <3>1. env' = [env EXCEPT !.main = "end"] /\ UNCHANGED <<th, sem, made>>
      BY <2>2, Zenon DEF JoinsTeam
    <3>2. env' \in Environment
      BY <1>1, <1>4, <3>1, FactoryEnv, Zenon DEF EnvGoes
    <3> QED BY <3>1, <3>2, YaninRests, Zenon
  <2>3. CASE CreatesTeam([env EXCEPT !.main = "join", !.interrupted = TRUE])
    <3>1. UNCHANGED <<sem, made>> /\ CreateCases
      BY <1>1, <1>2, <2>3, Creates, Zenon
    <3>2. CASE UNCHANGED th /\ env' \in Environment
      BY <3>1, <3>2, YaninRests, Zenon
    <3>3. ASSUME NEW u \in 1 .. 5, th[u].pc = "none", Turned(th, th', u, "run", FirstPlace(u)), UNCHANGED env
          PROVE  Yanin'
      <4>1. FirstPlace(u) = 0
        BY <1>2, Zenon DEF FirstPlace
      <4>2. Turned(th, th', u, "run", 0)
        BY <3>3, <4>1, Zenon
      <4>3. th[u].at = 0
        <5>1. "none" # "run"
          OBVIOUS
        <5> QED BY <3>3, <5>1, Zenon DEF Yanin, Makers
      <4>4. Makers'
        BY <1>1, <3>1, <3>3, <4>2, MakersTurn, Zenon
      <4>5. YaninInv'
        BY <3>1, <4>2, <4>3, YaninEmptyHanded, Zenon
      <4> QED BY <4>4, <4>5, Zenon DEF Yanin
    <3> QED BY <3>1, <3>2, <3>3, Zenon DEF CreateCases, EnvGoes
  <2> QED BY <1>6, <2>1, <2>2, <2>3, Zenon DEF yanin24_main
<1>7. ASSUME NEW t \in 1 .. 5, Repeats(t) PROVE Yanin'
  <2>1. PICK n, row, op : n = th[t].at /\ row = Loop(t) /\ op = row[n]
    BY Zenon
  <2>2. row = yanin24_loop(t)
    BY <2>1, Zenon DEF Loop
  <2>3. Len(row) \in Nat /\ n \in 0 .. Len(row)
    BY <2>1, <2>2, YaninRows, Zenon DEF Yanin, YaninInv
  <2>4. TurnCases(t, n, row, op)
    BY <1>1, <1>7, <2>1, <2>3, RepeatCases, Zenon
  <2>5. CASE n = 0
    <3>1. ~(0 > 0)
      OBVIOUS
    <3>2. /\ UNCHANGED <<sem, made, env>>
          /\ Turned(th, th', t, "done", 0) \/ Turned(th, th', t, "run", 1)
      BY <2>4, <2>5, <3>1, Zenon DEF TurnCases
    <3>3. YaninInv'
      BY <2>1, <2>5, <3>2, YaninEmptyHanded, Zenon
    <3>4. Makers'
      <4>1. "run" # "done"
        OBVIOUS
      <4> QED BY <1>1, <3>2, <4>1, MakersTurn, Zenon
    <3> QED BY <3>3, <3>4, Zenon DEF Yanin
  <2>6. CASE n # 0
    <3>1. n \in 1 .. Len(row)
      BY <2>3, <2>6
    <3>2. op[1] \in {"wait", "post"}
      <4>1. PICK p \in Parts : op \in WaitsFor(p) \/ op \in PostsOf(p)
        BY <2>1, <2>2, <3>1, HeldPlaces, Zenon
      <4> QED BY <4>1, OpsDiffer, Zenon
    <3>3. "wait" \notin {"timed", "made"} /\ "post" \notin {"timed", "made"}
      OBVIOUS
    <3>4. /\ Turned(th, th', t, "run", After(row, n)) /\ Shifted(sem, sem', op[2], Gain(op))
          /\ UNCHANGED <<made, env>>
      BY <2>4, <2>6, <3>2, <3>3, Zenon DEF TurnCases
    <3>5. PICK k, m : k = Gain(op) /\ m = After(row, n) /\ k \in Int
      <4>1. Gain(op) \in Int
        BY DEF Gain
      <4> QED BY <4>1, Zenon
    <3>6. th[t].pc = "run"
      BY <1>7, Zenon DEF Repeats, At
    <3>7. Turned(th, th', t, th[t].pc, m) /\ Shifted(sem, sem', op[2], k)
      BY <3>4, <3>5, <3>6, Zenon
    <3>8. YaninInv' /\ sem' \in [Keys -> Int]
      BY <2>1, <2>2, <3>1, <3>5, <3>7, YaninTurn, Zenon
    <3>9. Makers'
      <4>1. "run" # "done" /\ "run" \in {"run", "done"}
        OBVIOUS
      <4> QED BY <1>1, <3>4, <3>8, <4>1, MakersTurn, Zenon
    <3> QED BY <3>8, <3>9, Zenon DEF Yanin
  <2> QED BY <2>5, <2>6, Zenon
<1>8. MainStep => yanin24_main
  BY DEF MainStep
<1>9. ASSUME NEW t, ThreadStep(t) PROVE Repeats(t)
  BY <1>9 DEF ThreadStep
<1> QED BY <1>2, <1>3, <1>5, <1>6, <1>7, <1>8, <1>9, Zenon DEF Next

\* gerya24, the same.
LEMMA Suffice == WidgetSuffice \in Int
BY WorkshopAssumption

LEMMA GeryaRows ==
    /\ \A t \in 1 .. 3 : /\ Kind(t) \in Parts /\ Len(gerya24_loop(t)) = 2
                         /\ gerya24_loop(t)[1] = <<"post", Out(Kind(t))>> /\ gerya24_loop(t)[2] = <<"made", Kind(t)>>
    /\ Len(gerya24_loop(4)) = 4
    /\ gerya24_loop(4)[1] = <<"timed", Out("a")>> /\ gerya24_loop(4)[2] = <<"timed", Out("b")>>
    /\ gerya24_loop(4)[3] = <<"made", "d">> /\ gerya24_loop(4)[4] = <<"post", Out("d")>>
    /\ Len(gerya24_loop(5)) = 3
    /\ gerya24_loop(5)[1] = <<"timed", Out("c")>> /\ gerya24_loop(5)[2] = <<"timed", Out("d")>>
    /\ gerya24_loop(5)[3] = <<"made", "w">>
<1>1. ASSUME NEW t \in 1 .. 3
      PROVE  /\ Kind(t) \in Parts /\ Len(gerya24_loop(t)) = 2
             /\ gerya24_loop(t)[1] = <<"post", Out(Kind(t))>> /\ gerya24_loop(t)[2] = <<"made", Kind(t)>>
  <2>1. t <= 3 /\ (t = 1 \/ t = 2 \/ t = 3)
    OBVIOUS
  <2>2. Kind(t) \in Parts
    BY <2>1 DEF Kind, Parts
  <2>3. PICK row, p : row = gerya24_loop(t) /\ p = Kind(t)
    BY Zenon
  <2>4. row = << <<"post", Out(p)>>, <<"made", p>> >>
    BY <2>1, <2>3, Zenon DEF gerya24_loop, produceDetail
  <2>5. Len(row) = 2 /\ row[1] = <<"post", Out(p)>> /\ row[2] = <<"made", p>>
    BY <2>4, Row2, Zenon
  <2> QED BY <2>2, <2>3, <2>5, Zenon
<1>2. ~(4 <= 3) /\ ~(5 <= 3) /\ 5 # 4
  OBVIOUS
<1>3. gerya24_loop(4) = produceModule /\ gerya24_loop(5) = produceWidget
  BY <1>2, Zenon DEF gerya24_loop
<1>4. /\ Len(produceModule) = 4
      /\ produceModule[1] = <<"timed", Out("a")>> /\ produceModule[2] = <<"timed", Out("b")>>
      /\ produceModule[3] = <<"made", "d">> /\ produceModule[4] = <<"post", Out("d")>>
  BY DEF produceModule
<1>5. /\ Len(produceWidget) = 3
      /\ produceWidget[1] = <<"timed", Out("c")>> /\ produceWidget[2] = <<"timed", Out("d")>>
      /\ produceWidget[3] = <<"made", "w">>
  BY DEF produceWidget
<1> QED BY <1>1, <1>3, <1>4, <1>5, Zenon

\* What each operation does to the books.
LEMMA DetailBooks ==
    ASSUME NEW a1 \in Nat, NEW a2 \in Nat, NEW a3 \in Nat, NEW a4 \in Nat, NEW a5 \in Nat,
           NEW sa \in Int, NEW sb \in Int, NEW sc \in Int, NEW sd \in Int,
           NEW ma \in Int, NEW mb \in Int, NEW mc \in Int, NEW md \in Int, NEW mw \in Int,
           Books(a1, a2, a3, a4, a5, sa, sb, sc, sd, ma, mb, mc, md, mw)
    PROVE  /\ a1 = 1 => Books(2, a2, a3, a4, a5, sa + 1, sb, sc, sd, ma, mb, mc, md, mw)
           /\ a1 = 2 => Books(0, a2, a3, a4, a5, sa, sb, sc, sd, ma + 1, mb, mc, md, mw)
           /\ a2 = 1 => Books(a1, 2, a3, a4, a5, sa, sb + 1, sc, sd, ma, mb, mc, md, mw)
           /\ a2 = 2 => Books(a1, 0, a3, a4, a5, sa, sb, sc, sd, ma, mb + 1, mc, md, mw)
           /\ a3 = 1 => Books(a1, a2, 2, a4, a5, sa, sb, sc + 1, sd, ma, mb, mc, md, mw)
           /\ a3 = 2 => Books(a1, a2, 0, a4, a5, sa, sb, sc, sd, ma, mb, mc + 1, md, mw)
<1> USE Suffice DEF Books, In
<1>1. a1 = 1 => Books(2, a2, a3, a4, a5, sa + 1, sb, sc, sd, ma, mb, mc, md, mw)
  OBVIOUS
<1>2. a1 = 2 => Books(0, a2, a3, a4, a5, sa, sb, sc, sd, ma + 1, mb, mc, md, mw)
  OBVIOUS
<1>3. a2 = 1 => Books(a1, 2, a3, a4, a5, sa, sb + 1, sc, sd, ma, mb, mc, md, mw)
  OBVIOUS
<1>4. a2 = 2 => Books(a1, 0, a3, a4, a5, sa, sb, sc, sd, ma, mb + 1, mc, md, mw)
  OBVIOUS
<1>5. a3 = 1 => Books(a1, a2, 2, a4, a5, sa, sb, sc + 1, sd, ma, mb, mc, md, mw)
  OBVIOUS
<1>6. a3 = 2 => Books(a1, a2, 0, a4, a5, sa, sb, sc, sd, ma, mb, mc + 1, md, mw)
  OBVIOUS
<1> QED BY <1>1, <1>2, <1>3, <1>4, <1>5, <1>6, Zenon

LEMMA ModuleBooks ==
    ASSUME NEW a1 \in Nat, NEW a2 \in Nat, NEW a3 \in Nat, NEW a4 \in Nat, NEW a5 \in Nat,
           NEW sa \in Int, NEW sb \in Int, NEW sc \in Int, NEW sd \in Int,
           NEW ma \in Int, NEW mb \in Int, NEW mc \in Int, NEW md \in Int, NEW mw \in Int,
           Books(a1, a2, a3, a4, a5, sa, sb, sc, sd, ma, mb, mc, md, mw)
    PROVE  /\ a4 = 1 /\ sa > 0 => Books(a1, a2, a3, 2, a5, sa + -1, sb, sc, sd, ma, mb, mc, md, mw)
           /\ a4 = 2 /\ sb > 0 => Books(a1, a2, a3, 3, a5, sa, sb + -1, sc, sd, ma, mb, mc, md, mw)
           /\ a4 = 3 => Books(a1, a2, a3, 4, a5, sa, sb, sc, sd, ma, mb, mc, md + 1, mw)
           /\ a4 = 4 => Books(a1, a2, a3, 0, a5, sa, sb, sc, sd + 1, ma, mb, mc, md, mw)
           /\ Books(a1, a2, a3, 0, a5, sa, sb, sc, sd, ma, mb, mc, md, mw)
<1> USE Suffice DEF Books, In
<1>1. a4 = 1 /\ sa > 0 => Books(a1, a2, a3, 2, a5, sa + -1, sb, sc, sd, ma, mb, mc, md, mw)
  OBVIOUS
<1>2. a4 = 2 /\ sb > 0 => Books(a1, a2, a3, 3, a5, sa, sb + -1, sc, sd, ma, mb, mc, md, mw)
  OBVIOUS
<1>3. a4 = 3 => Books(a1, a2, a3, 4, a5, sa, sb, sc, sd, ma, mb, mc, md + 1, mw)
  OBVIOUS
<1>4. a4 = 4 => Books(a1, a2, a3, 0, a5, sa, sb, sc, sd + 1, ma, mb, mc, md, mw)
  OBVIOUS
<1>5. Books(a1, a2, a3, 0, a5, sa, sb, sc, sd, ma, mb, mc, md, mw)
  OBVIOUS
<1> QED BY <1>1, <1>2, <1>3, <1>4, <1>5, Zenon

LEMMA WidgetBooks ==
    ASSUME NEW a1 \in Nat, NEW a2 \in Nat, NEW a3 \in Nat, NEW a4 \in Nat, NEW a5 \in Nat,
           NEW sa \in Int, NEW sb \in Int, NEW sc \in Int, NEW sd \in Int,
           NEW ma \in Int, NEW mb \in Int, NEW mc \in Int, NEW md \in Int, NEW mw \in Int,
           Books(a1, a2, a3, a4, a5, sa, sb, sc, sd, ma, mb, mc, md, mw)
    PROVE  /\ a5 = 1 /\ sc > 0 => Books(a1, a2, a3, a4, 2, sa, sb, sc + -1, sd, ma, mb, mc, md, mw)
           /\ a5 = 2 /\ sd > 0 => Books(a1, a2, a3, a4, 3, sa, sb, sc, sd + -1, ma, mb, mc, md, mw)
           /\ a5 = 3 => Books(a1, a2, a3, a4, 0, sa, sb, sc, sd, ma, mb, mc, md, mw + 1)
           /\ Books(a1, a2, a3, a4, 0, sa, sb, sc, sd, ma, mb, mc, md, mw)
<1> USE Suffice DEF Books, In
<1>1. a5 = 1 /\ sc > 0 => Books(a1, a2, a3, a4, 2, sa, sb, sc + -1, sd, ma, mb, mc, md, mw)
  OBVIOUS
<1>2. a5 = 2 /\ sd > 0 => Books(a1, a2, a3, a4, 3, sa, sb, sc, sd + -1, ma, mb, mc, md, mw)
  OBVIOUS
<1>3. a5 = 3 => Books(a1, a2, a3, a4, 0, sa, sb, sc, sd, ma, mb, mc, md, mw + 1)
  OBVIOUS
<1>4. Books(a1, a2, a3, a4, 0, sa, sb, sc, sd, ma, mb, mc, md, mw)
  OBVIOUS
<1> QED BY <1>1, <1>2, <1>3, <1>4, Zenon

\* A thread at the head of its loop goes to its first place, or ends.
Heads(a1, a2, a3, a4, a5, b1, b2, b3, b4, b5, mw) ==
    /\ b1 = a1 \/ (a1 = 0 /\ b1 = 1)
    /\ b2 = a2 \/ (a2 = 0 /\ b2 = 1)
    /\ b3 = a3 \/ (a3 = 0 /\ b3 = 1)
    /\ b4 = a4 \/ (a4 = 0 /\ b4 = 1)
    /\ b5 = a5 \/ (a5 = 0 /\ b5 = 1 /\ mw < WidgetSuffice)

LEMMA HeadBooks ==
    ASSUME NEW a1 \in Nat, NEW a2 \in Nat, NEW a3 \in Nat, NEW a4 \in Nat, NEW a5 \in Nat,
           NEW sa \in Int, NEW sb \in Int, NEW sc \in Int, NEW sd \in Int,
           NEW ma \in Int, NEW mb \in Int, NEW mc \in Int, NEW md \in Int, NEW mw \in Int,
           Books(a1, a2, a3, a4, a5, sa, sb, sc, sd, ma, mb, mc, md, mw),
           NEW b1 \in Nat, NEW b2 \in Nat, NEW b3 \in Nat, NEW b4 \in Nat, NEW b5 \in Nat,
           Heads(a1, a2, a3, a4, a5, b1, b2, b3, b4, b5, mw)
    PROVE  Books(b1, b2, b3, b4, b5, sa, sb, sc, sd, ma, mb, mc, md, mw)
<1>1. In(b1, {2}) = In(a1, {2}) /\ In(b2, {2}) = In(a2, {2}) /\ In(b3, {2}) = In(a3, {2})
  BY DEF In, Heads
<1>2. In(b4, {2, 3}) = In(a4, {2, 3}) /\ In(b4, {3}) = In(a4, {3}) /\ In(b4, {4}) = In(a4, {4})
  BY DEF In, Heads
<1>3. In(b5, {2, 3}) = In(a5, {2, 3}) /\ In(b5, {3}) = In(a5, {3})
  BY DEF In, Heads
<1>4. b5 > 0 => mw < WidgetSuffice
  BY Suffice DEF Books, Heads
<1> QED BY <1>1, <1>2, <1>3, <1>4, Zenon DEF Books

\* The numbers the books are about, by name.
Stand(f, a1, a2, a3, a4, a5) == f[1].at = a1 /\ f[2].at = a2 /\ f[3].at = a3 /\ f[4].at = a4 /\ f[5].at = a5
Lie(s, sa, sb, sc, sd) == s[Out("a")] = sa /\ s[Out("b")] = sb /\ s[Out("c")] = sc /\ s[Out("d")] = sd
Count(m, ma, mb, mc, md, mw) == m["a"] = ma /\ m["b"] = mb /\ m["c"] = mc /\ m["d"] = md /\ m["w"] = mw

LEMMA Rebooked ==
    ASSUME NEW f, NEW s, NEW m, NEW a1, NEW a2, NEW a3, NEW a4, NEW a5, NEW sa, NEW sb, NEW sc, NEW sd,
           NEW ma, NEW mb, NEW mc, NEW md, NEW mw,
           Stand(f, a1, a2, a3, a4, a5), Lie(s, sa, sb, sc, sd), Count(m, ma, mb, mc, md, mw),
           Books(a1, a2, a3, a4, a5, sa, sb, sc, sd, ma, mb, mc, md, mw)
    PROVE  GeryaBooks(f, s, m)
BY Zenon DEF Stand, Lie, Count, GeryaBooks

LEMMA Booked ==
    ASSUME NEW f, NEW s, NEW m, NEW a1, NEW a2, NEW a3, NEW a4, NEW a5, NEW sa, NEW sb, NEW sc, NEW sd,
           NEW ma, NEW mb, NEW mc, NEW md, NEW mw, GeryaBooks(f, s, m),
           Stand(f, a1, a2, a3, a4, a5), Lie(s, sa, sb, sc, sd), Count(m, ma, mb, mc, md, mw)
    PROVE  Books(a1, a2, a3, a4, a5, sa, sb, sc, sd, ma, mb, mc, md, mw)
BY Zenon DEF Stand, Lie, Count, GeryaBooks

LEMMA Stand1 ==
    ASSUME NEW f, NEW g, NEW l, NEW n, NEW a1, NEW a2, NEW a3, NEW a4, NEW a5,
           Stand(f, a1, a2, a3, a4, a5), Turned(f, g, 1, l, n)
    PROVE  Stand(g, n, a2, a3, a4, a5)
<1>1. {1, 2, 3, 4, 5} \subseteq 1 .. 5 /\ \A u \in {1, 2, 3, 4, 5} \ {1} : u # 1
  OBVIOUS
<1>2. \A u \in {1, 2, 3, 4, 5} \ {1} : g[u].at = f[u].at
  BY <1>1, Zenon DEF Turned
<1>3. {2, 3, 4, 5} \subseteq {1, 2, 3, 4, 5} \ {1}
  OBVIOUS
<1> QED BY <1>2, <1>3, Zenon DEF Stand, Turned

LEMMA Stand2 ==
    ASSUME NEW f, NEW g, NEW l, NEW n, NEW a1, NEW a2, NEW a3, NEW a4, NEW a5,
           Stand(f, a1, a2, a3, a4, a5), Turned(f, g, 2, l, n)
    PROVE  Stand(g, a1, n, a3, a4, a5)
<1>1. {1, 2, 3, 4, 5} \subseteq 1 .. 5 /\ \A u \in {1, 2, 3, 4, 5} \ {2} : u # 2
  OBVIOUS
<1>2. \A u \in {1, 2, 3, 4, 5} \ {2} : g[u].at = f[u].at
  BY <1>1, Zenon DEF Turned
<1>3. {1, 3, 4, 5} \subseteq {1, 2, 3, 4, 5} \ {2}
  OBVIOUS
<1> QED BY <1>2, <1>3, Zenon DEF Stand, Turned

LEMMA Stand3 ==
    ASSUME NEW f, NEW g, NEW l, NEW n, NEW a1, NEW a2, NEW a3, NEW a4, NEW a5,
           Stand(f, a1, a2, a3, a4, a5), Turned(f, g, 3, l, n)
    PROVE  Stand(g, a1, a2, n, a4, a5)
<1>1. {1, 2, 3, 4, 5} \subseteq 1 .. 5 /\ \A u \in {1, 2, 3, 4, 5} \ {3} : u # 3
  OBVIOUS
<1>2. \A u \in {1, 2, 3, 4, 5} \ {3} : g[u].at = f[u].at
  BY <1>1, Zenon DEF Turned
<1>3. {1, 2, 4, 5} \subseteq {1, 2, 3, 4, 5} \ {3}
  OBVIOUS
<1> QED BY <1>2, <1>3, Zenon DEF Stand, Turned

LEMMA Stand4 ==
    ASSUME NEW f, NEW g, NEW l, NEW n, NEW a1, NEW a2, NEW a3, NEW a4, NEW a5,
           Stand(f, a1, a2, a3, a4, a5), Turned(f, g, 4, l, n)
    PROVE  Stand(g, a1, a2, a3, n, a5)
<1>1. {1, 2, 3, 4, 5} \subseteq 1 .. 5 /\ \A u \in {1, 2, 3, 4, 5} \ {4} : u # 4
  OBVIOUS
<1>2. \A u \in {1, 2, 3, 4, 5} \ {4} : g[u].at = f[u].at
  BY <1>1, Zenon DEF Turned
<1>3. {1, 2, 3, 5} \subseteq {1, 2, 3, 4, 5} \ {4}
  OBVIOUS
<1> QED BY <1>2, <1>3, Zenon DEF Stand, Turned

LEMMA Stand5 ==
    ASSUME NEW f, NEW g, NEW l, NEW n, NEW a1, NEW a2, NEW a3, NEW a4, NEW a5,
           Stand(f, a1, a2, a3, a4, a5), Turned(f, g, 5, l, n)
    PROVE  Stand(g, a1, a2, a3, a4, n)
<1>1. {1, 2, 3, 4, 5} \subseteq 1 .. 5 /\ \A u \in {1, 2, 3, 4, 5} \ {5} : u # 5
  OBVIOUS
<1>2. \A u \in {1, 2, 3, 4, 5} \ {5} : g[u].at = f[u].at
  BY <1>1, Zenon DEF Turned
<1>3. {1, 2, 3, 4} \subseteq {1, 2, 3, 4, 5} \ {5}
  OBVIOUS
<1> QED BY <1>2, <1>3, Zenon DEF Stand, Turned

LEMMA Lies ==
    ASSUME NEW s \in [Keys -> Int], NEW z, NEW k \in Int, NEW p \in Parts, NEW sa, NEW sb, NEW sc, NEW sd,
           Lie(s, sa, sb, sc, sd), Shifted(s, z, Out(p), k)
    PROVE  /\ z \in [Keys -> Int]
           /\ p = "a" => Lie(z, sa + k, sb, sc, sd)
           /\ p = "b" => Lie(z, sa, sb + k, sc, sd)
           /\ p = "c" => Lie(z, sa, sb, sc + k, sd)
           /\ p = "d" => Lie(z, sa, sb, sc, sd + k)
<1>1. Out(p) \in Keys /\ s[Out(p)] + k \in Int
  BY KeysDiffer
<1>2. z \in [Keys -> Int] /\ z[Out(p)] = s[Out(p)] + k /\ \A y \in Keys : y # Out(p) => z[y] = s[y]
  BY <1>1 DEF Shifted
<1>3. \A r \in Parts : r # p => z[Out(r)] = s[Out(r)]
  BY <1>2, KeysDiffer, Zenon
<1>4. {"a", "b", "c", "d"} = Parts /\ "a" # "b" /\ "a" # "c" /\ "a" # "d" /\ "b" # "c" /\ "b" # "d" /\ "c" # "d"
  BY DEF Parts
<1>5. p = "a" => Lie(z, sa + k, sb, sc, sd)
  BY <1>2, <1>3, <1>4, Zenon DEF Lie
<1>6. p = "b" => Lie(z, sa, sb + k, sc, sd)
  BY <1>2, <1>3, <1>4, Zenon DEF Lie
<1>7. p = "c" => Lie(z, sa, sb, sc + k, sd)
  BY <1>2, <1>3, <1>4, Zenon DEF Lie
<1>8. p = "d" => Lie(z, sa, sb, sc, sd + k)
  BY <1>2, <1>3, <1>4, Zenon DEF Lie
<1> QED BY <1>2, <1>5, <1>6, <1>7, <1>8, Zenon

LEMMA Counted5 ==
    ASSUME NEW m \in [Parts \cup {"w"} -> Int], NEW z, NEW p \in Parts \cup {"w"},
           NEW ma, NEW mb, NEW mc, NEW md, NEW mw, Count(m, ma, mb, mc, md, mw), Shifted(m, z, p, 1)
    PROVE  /\ z \in [Parts \cup {"w"} -> Int]
           /\ p = "a" => Count(z, ma + 1, mb, mc, md, mw)
           /\ p = "b" => Count(z, ma, mb + 1, mc, md, mw)
           /\ p = "c" => Count(z, ma, mb, mc + 1, md, mw)
           /\ p = "d" => Count(z, ma, mb, mc, md + 1, mw)
           /\ p = "w" => Count(z, ma, mb, mc, md, mw + 1)
<1>1. z \in [Parts \cup {"w"} -> Int] /\ z[p] = m[p] + 1 /\ \A y \in Parts \cup {"w"} : y # p => z[y] = m[y]
  BY DEF Shifted
<1>2. /\ {"a", "b", "c", "d", "w"} = Parts \cup {"w"}
      /\ "a" # "b" /\ "a" # "c" /\ "a" # "d" /\ "b" # "c" /\ "b" # "d" /\ "c" # "d"
      /\ "a" # "w" /\ "b" # "w" /\ "c" # "w" /\ "d" # "w"
  BY DEF Parts
<1>3. p = "a" => Count(z, ma + 1, mb, mc, md, mw)
  BY <1>1, <1>2, Zenon DEF Count
<1>4. p = "b" => Count(z, ma, mb + 1, mc, md, mw)
  BY <1>1, <1>2, Zenon DEF Count
<1>5. p = "c" => Count(z, ma, mb, mc + 1, md, mw)
  BY <1>1, <1>2, Zenon DEF Count
<1>6. p = "d" => Count(z, ma, mb, mc, md + 1, mw)
  BY <1>1, <1>2, Zenon DEF Count
<1>7. p = "w" => Count(z, ma, mb, mc, md, mw + 1)
  BY <1>1, <1>2, Zenon DEF Count
<1> QED BY <1>1, <1>3, <1>4, <1>5, <1>6, <1>7, Zenon

Does(row, n, op, m, kind, x) == After(row, n) = m /\ op[1] = kind /\ op[2] = x

GeryaPlace(t, row, n, op) ==
    \/ t = 1 /\ n = 1 /\ Does(row, n, op, 2, "post", Out("a"))
    \/ t = 1 /\ n = 2 /\ Does(row, n, op, 0, "made", "a")
    \/ t = 2 /\ n = 1 /\ Does(row, n, op, 2, "post", Out("b"))
    \/ t = 2 /\ n = 2 /\ Does(row, n, op, 0, "made", "b")
    \/ t = 3 /\ n = 1 /\ Does(row, n, op, 2, "post", Out("c"))
    \/ t = 3 /\ n = 2 /\ Does(row, n, op, 0, "made", "c")
    \/ t = 4 /\ n = 1 /\ Does(row, n, op, 2, "timed", Out("a"))
    \/ t = 4 /\ n = 2 /\ Does(row, n, op, 3, "timed", Out("b"))
    \/ t = 4 /\ n = 3 /\ Does(row, n, op, 4, "made", "d")
    \/ t = 4 /\ n = 4 /\ Does(row, n, op, 0, "post", Out("d"))
    \/ t = 5 /\ n = 1 /\ Does(row, n, op, 2, "timed", Out("c"))
    \/ t = 5 /\ n = 2 /\ Does(row, n, op, 3, "timed", Out("d"))
    \/ t = 5 /\ n = 3 /\ Does(row, n, op, 0, "made", "w")

LEMMA GeryaPlaces ==
    ASSUME NEW t \in 1 .. 5, NEW row, row = gerya24_loop(t), NEW n \in 1 .. Len(row), NEW op, op = row[n]
    PROVE  GeryaPlace(t, row, n, op)
<1>1. Kind(1) = "a" /\ Kind(2) = "b" /\ Kind(3) = "c"
  BY DEF Kind
<1>2. {1, 2, 3} \subseteq 1 .. 3
  OBVIOUS
<1>3. ASSUME NEW i, i = n, NEW x, NEW y, row[i] = <<x, y>>, NEW m, After(row, i) = m PROVE Does(row, n, op, m, x, y)
  BY <1>3 DEF Does
<1>4. CASE t = 1
  <2>1. Len(row) = 2 /\ row[1] = <<"post", Out("a")>> /\ row[2] = <<"made", "a">>
    BY <1>1, <1>2, <1>4, GeryaRows, Zenon
  <2>2. n = 1 \/ n = 2
    BY <2>1
  <2>3. After(row, 1) = 2 /\ After(row, 2) = 0
    BY <2>1 DEF After
  <2>4. n = 1 => Does(row, n, op, 2, "post", Out("a"))
    BY <1>3, <2>1, <2>3, Zenon
  <2>5. n = 2 => Does(row, n, op, 0, "made", "a")
    BY <1>3, <2>1, <2>3, Zenon
  <2> QED BY <1>4, <2>2, <2>4, <2>5, Zenon DEF GeryaPlace
<1>5. CASE t = 2
  <2>1. Len(row) = 2 /\ row[1] = <<"post", Out("b")>> /\ row[2] = <<"made", "b">>
    BY <1>1, <1>2, <1>5, GeryaRows, Zenon
  <2>2. n = 1 \/ n = 2
    BY <2>1
  <2>3. After(row, 1) = 2 /\ After(row, 2) = 0
    BY <2>1 DEF After
  <2>4. n = 1 => Does(row, n, op, 2, "post", Out("b"))
    BY <1>3, <2>1, <2>3, Zenon
  <2>5. n = 2 => Does(row, n, op, 0, "made", "b")
    BY <1>3, <2>1, <2>3, Zenon
  <2> QED BY <1>5, <2>2, <2>4, <2>5, Zenon DEF GeryaPlace
<1>6. CASE t = 3
  <2>1. Len(row) = 2 /\ row[1] = <<"post", Out("c")>> /\ row[2] = <<"made", "c">>
    BY <1>1, <1>2, <1>6, GeryaRows, Zenon
  <2>2. n = 1 \/ n = 2
    BY <2>1
  <2>3. After(row, 1) = 2 /\ After(row, 2) = 0
    BY <2>1 DEF After
  <2>4. n = 1 => Does(row, n, op, 2, "post", Out("c"))
    BY <1>3, <2>1, <2>3, Zenon
  <2>5. n = 2 => Does(row, n, op, 0, "made", "c")
    BY <1>3, <2>1, <2>3, Zenon
  <2> QED BY <1>6, <2>2, <2>4, <2>5, Zenon DEF GeryaPlace
<1>7. CASE t = 4
  <2>1. /\ Len(row) = 4 /\ row[1] = <<"timed", Out("a")>> /\ row[2] = <<"timed", Out("b")>>
        /\ row[3] = <<"made", "d">> /\ row[4] = <<"post", Out("d")>>
    BY <1>7, GeryaRows, Zenon
  <2>2. n = 1 \/ n = 2 \/ n = 3 \/ n = 4
    BY <2>1
  <2>3. After(row, 1) = 2 /\ After(row, 2) = 3 /\ After(row, 3) = 4 /\ After(row, 4) = 0
    BY <2>1 DEF After
  <2>4. n = 1 => Does(row, n, op, 2, "timed", Out("a"))
    BY <1>3, <2>1, <2>3, Zenon
  <2>5. n = 2 => Does(row, n, op, 3, "timed", Out("b"))
    BY <1>3, <2>1, <2>3, Zenon
  <2>6. n = 3 => Does(row, n, op, 4, "made", "d")
    BY <1>3, <2>1, <2>3, Zenon
  <2>7. n = 4 => Does(row, n, op, 0, "post", Out("d"))
    BY <1>3, <2>1, <2>3, Zenon
  <2> QED BY <1>7, <2>2, <2>4, <2>5, <2>6, <2>7, Zenon DEF GeryaPlace
<1>8. CASE t = 5
  <2>1. /\ Len(row) = 3 /\ row[1] = <<"timed", Out("c")>> /\ row[2] = <<"timed", Out("d")>>
        /\ row[3] = <<"made", "w">>
    BY <1>8, GeryaRows, Zenon
  <2>2. n = 1 \/ n = 2 \/ n = 3
    BY <2>1
  <2>3. After(row, 1) = 2 /\ After(row, 2) = 3 /\ After(row, 3) = 0
    BY <2>1 DEF After
  <2>4. n = 1 => Does(row, n, op, 2, "timed", Out("c"))
    BY <1>3, <2>1, <2>3, Zenon
  <2>5. n = 2 => Does(row, n, op, 3, "timed", Out("d"))
    BY <1>3, <2>1, <2>3, Zenon
  <2>6. n = 3 => Does(row, n, op, 0, "made", "w")
    BY <1>3, <2>1, <2>3, Zenon
  <2> QED BY <1>8, <2>2, <2>4, <2>5, <2>6, Zenon DEF GeryaPlace
<1>9. t = 1 \/ t = 2 \/ t = 3 \/ t = 4 \/ t = 5
  OBVIOUS
<1> QED BY <1>4, <1>5, <1>6, <1>7, <1>8, <1>9, Zenon

Gerya == Makers /\ GeryaInv

\* Thread t of gerya24 is about to do op, at place n of its row.
AtWork(t, row, n, op) ==
    /\ Gerya /\ t \in 1 .. 5 /\ row = gerya24_loop(t) /\ n \in 1 .. Len(row) /\ n = th[t].at
    /\ op = row[n] /\ TurnCases(t, n, row, op)

BooksKept ==
    GeryaBooks(th', sem', made') /\ sem' \in [Keys -> Int] /\ made' \in [Parts \cup {"w"} -> Int]

\* An operation of a thread of gerya24 keeps the books.
LEMMA GeryaTurn ==
    ASSUME NEW t, NEW row, NEW n, NEW op, AtWork(t, row, n, op)
    PROVE  /\ BooksKept
           /\ \E m \in 0 .. Len(row), l \in {"run", "done"} : (l = "done" => m = 0) /\ Turned(th, th', t, l, m)
<1>0. /\ Gerya /\ t \in 1 .. 5 /\ row = gerya24_loop(t) /\ n \in 1 .. Len(row) /\ n = th[t].at
      /\ op = row[n] /\ TurnCases(t, n, row, op)
  BY Zenon DEF AtWork
<1>1. th \in Threads /\ sem \in [Keys -> Int] /\ made \in [Parts \cup {"w"} -> Int] /\ GeryaBooks(th, sem, made)
  BY <1>0, Zenon DEF Gerya, Makers, GeryaInv
<1>2. {"a", "b", "c", "d"} = Parts
  BY DEF Parts
<1>3. PICK a1 \in Nat, a2 \in Nat, a3 \in Nat, a4 \in Nat, a5 \in Nat : Stand(th, a1, a2, a3, a4, a5)
  <2>1. th[1].at \in Nat /\ th[2].at \in Nat /\ th[3].at \in Nat /\ th[4].at \in Nat /\ th[5].at \in Nat
    <3>1. \A u \in 1 .. 5 : th[u].at \in Nat
      BY <1>1 DEF Threads
    <3>2. {1, 2, 3, 4, 5} \subseteq 1 .. 5
      OBVIOUS
    <3> QED BY <3>1, <3>2, Zenon
  <2> QED BY <2>1, Zenon DEF Stand
<1>4. PICK sa \in Int, sb \in Int, sc \in Int, sd \in Int : Lie(sem, sa, sb, sc, sd)
  <2>1. sem[Out("a")] \in Int /\ sem[Out("b")] \in Int /\ sem[Out("c")] \in Int /\ sem[Out("d")] \in Int
    BY <1>1, <1>2, KeysDiffer
  <2> QED BY <2>1, Zenon DEF Lie
<1>5. PICK ma \in Int, mb \in Int, mc \in Int, md \in Int, mw \in Int : Count(made, ma, mb, mc, md, mw)
  <2>1. made["a"] \in Int /\ made["b"] \in Int /\ made["c"] \in Int /\ made["d"] \in Int /\ made["w"] \in Int
    BY <1>1 DEF Parts
  <2> QED BY <2>1, Zenon DEF Count
<1>6. Books(a1, a2, a3, a4, a5, sa, sb, sc, sd, ma, mb, mc, md, mw)
  BY <1>1, <1>3, <1>4, <1>5, Booked, Zenon
<1>7. "run" \in {"run", "done"} /\ "done" \in {"run", "done"} /\ "run" # "done" /\ n > 0 /\ n # 0
  BY <1>0
<1>8. 1 \in Int /\ -1 \in Int
  OBVIOUS
<1>9. After(row, n) \in 0 .. Len(row) /\ 0 \in 0 .. Len(row)
  <2>1. PICK x \in Nat : x = Len(row) /\ n \in 1 .. x
    <3>1. Len(row) \in Nat
      BY <1>0, GeryaRows
    <3> QED BY <1>0, <3>1, Zenon
  <2>2. (IF n = x THEN 0 ELSE n + 1) \in 0 .. x /\ 0 \in 0 .. x
    BY <2>1
  <2> QED BY <2>1, <2>2, Zenon DEF After
<1>10. ASSUME op[1] = "post" PROVE Turned(th, th', t, "run", After(row, n)) /\ Shifted(sem, sem', op[2], 1) /\ UNCHANGED made
  <2>1. "post" # "timed" /\ "post" # "made"
    OBVIOUS
  <2> QED BY <1>0, <1>7, <1>10, <2>1, Zenon DEF TurnCases, Gain
<1>11. ASSUME op[1] = "made" PROVE Turned(th, th', t, "run", After(row, n)) /\ Shifted(made, made', op[2], 1) /\ UNCHANGED sem
  <2>1. "made" # "timed" /\ "made" # "post" /\ "made" # "wait"
    OBVIOUS
  <2> QED BY <1>0, <1>7, <1>11, <2>1, Zenon DEF TurnCases
<1>12. ASSUME op[1] = "timed"
       PROVE  \/ /\ Turned(th, th', t, "run", After(row, n)) /\ sem[op[2]] > 0
                 /\ Shifted(sem, sem', op[2], -1) /\ UNCHANGED made
              \/ Turned(th, th', t, "done", 0) /\ UNCHANGED <<sem, made>>
  <2>1. "timed" # "post" /\ "timed" # "made"
    OBVIOUS
  <2> QED BY <1>0, <1>7, <1>12, <2>1, Zenon DEF TurnCases, Gain
<1>13. ASSUME t = 1, n = 1, Does(row, n, op, 2, "post", Out("a"))
      PROVE  BooksKept
  <2>1. a1 = 1
    BY <1>0, <1>3, <1>13, Zenon DEF Stand
  <2>2. Stand(th', 2, a2, a3, a4, a5)
    <3>1. Turned(th, th', 1, "run", 2)
      BY <1>10, <1>13, Zenon DEF Does
    <3> QED BY <1>3, <3>1, Stand1, Zenon
  <2>3. sem' \in [Keys -> Int] /\ Lie(sem', sa + 1, sb, sc, sd)
    <3>1. Shifted(sem, sem', Out("a"), 1) /\ "a" \in Parts
      BY <1>2, <1>10, <1>13, Zenon DEF Does
    <3> QED BY <1>1, <1>4, <1>8, <3>1, Lies, Zenon
  <2>4. Count(made', ma, mb, mc, md, mw) /\ made' \in [Parts \cup {"w"} -> Int]
    BY <1>1, <1>5, <1>10, <1>13, Zenon DEF Count, Does
  <2>5. Books(2, a2, a3, a4, a5, sa + 1, sb, sc, sd, ma, mb, mc, md, mw)
    BY <1>6, <2>1, DetailBooks, Zenon
  <2>6. GeryaBooks(th', sem', made')
    BY <2>2, <2>3, <2>4, <2>5, Rebooked, Zenon
  <2> QED BY <2>3, <2>4, <2>6, Zenon DEF BooksKept
<1>14. ASSUME t = 1, n = 2, Does(row, n, op, 0, "made", "a")
      PROVE  BooksKept
  <2>1. a1 = 2
    BY <1>0, <1>3, <1>14, Zenon DEF Stand
  <2>2. Stand(th', 0, a2, a3, a4, a5)
    <3>1. Turned(th, th', 1, "run", 0)
      BY <1>11, <1>14, Zenon DEF Does
    <3> QED BY <1>3, <3>1, Stand1, Zenon
  <2>3. sem' \in [Keys -> Int] /\ Lie(sem', sa, sb, sc, sd)
    BY <1>1, <1>4, <1>11, <1>14, Zenon DEF Lie, Does
  <2>4. Count(made', ma + 1, mb, mc, md, mw) /\ made' \in [Parts \cup {"w"} -> Int]
    <3>1. Shifted(made, made', "a", 1) /\ "a" \in Parts \cup {"w"}
      BY <1>2, <1>11, <1>14, Zenon DEF Does
    <3> QED BY <1>1, <1>5, <3>1, Counted5, Zenon
  <2>5. Books(0, a2, a3, a4, a5, sa, sb, sc, sd, ma + 1, mb, mc, md, mw)
    BY <1>6, <2>1, DetailBooks, Zenon
  <2>6. GeryaBooks(th', sem', made')
    BY <2>2, <2>3, <2>4, <2>5, Rebooked, Zenon
  <2> QED BY <2>3, <2>4, <2>6, Zenon DEF BooksKept
<1>15. ASSUME t = 2, n = 1, Does(row, n, op, 2, "post", Out("b"))
      PROVE  BooksKept
  <2>1. a2 = 1
    BY <1>0, <1>3, <1>15, Zenon DEF Stand
  <2>2. Stand(th', a1, 2, a3, a4, a5)
    <3>1. Turned(th, th', 2, "run", 2)
      BY <1>10, <1>15, Zenon DEF Does
    <3> QED BY <1>3, <3>1, Stand2, Zenon
  <2>3. sem' \in [Keys -> Int] /\ Lie(sem', sa, sb + 1, sc, sd)
    <3>1. Shifted(sem, sem', Out("b"), 1) /\ "b" \in Parts
      BY <1>2, <1>10, <1>15, Zenon DEF Does
    <3> QED BY <1>1, <1>4, <1>8, <3>1, Lies, Zenon
  <2>4. Count(made', ma, mb, mc, md, mw) /\ made' \in [Parts \cup {"w"} -> Int]
    BY <1>1, <1>5, <1>10, <1>15, Zenon DEF Count, Does
  <2>5. Books(a1, 2, a3, a4, a5, sa, sb + 1, sc, sd, ma, mb, mc, md, mw)
    BY <1>6, <2>1, DetailBooks, Zenon
  <2>6. GeryaBooks(th', sem', made')
    BY <2>2, <2>3, <2>4, <2>5, Rebooked, Zenon
  <2> QED BY <2>3, <2>4, <2>6, Zenon DEF BooksKept
<1>16. ASSUME t = 2, n = 2, Does(row, n, op, 0, "made", "b")
      PROVE  BooksKept
  <2>1. a2 = 2
    BY <1>0, <1>3, <1>16, Zenon DEF Stand
  <2>2. Stand(th', a1, 0, a3, a4, a5)
    <3>1. Turned(th, th', 2, "run", 0)
      BY <1>11, <1>16, Zenon DEF Does
    <3> QED BY <1>3, <3>1, Stand2, Zenon
  <2>3. sem' \in [Keys -> Int] /\ Lie(sem', sa, sb, sc, sd)
    BY <1>1, <1>4, <1>11, <1>16, Zenon DEF Lie, Does
  <2>4. Count(made', ma, mb + 1, mc, md, mw) /\ made' \in [Parts \cup {"w"} -> Int]
    <3>1. Shifted(made, made', "b", 1) /\ "b" \in Parts \cup {"w"}
      BY <1>2, <1>11, <1>16, Zenon DEF Does
    <3> QED BY <1>1, <1>5, <3>1, Counted5, Zenon
  <2>5. Books(a1, 0, a3, a4, a5, sa, sb, sc, sd, ma, mb + 1, mc, md, mw)
    BY <1>6, <2>1, DetailBooks, Zenon
  <2>6. GeryaBooks(th', sem', made')
    BY <2>2, <2>3, <2>4, <2>5, Rebooked, Zenon
  <2> QED BY <2>3, <2>4, <2>6, Zenon DEF BooksKept
<1>17. ASSUME t = 3, n = 1, Does(row, n, op, 2, "post", Out("c"))
      PROVE  BooksKept
  <2>1. a3 = 1
    BY <1>0, <1>3, <1>17, Zenon DEF Stand
  <2>2. Stand(th', a1, a2, 2, a4, a5)
    <3>1. Turned(th, th', 3, "run", 2)
      BY <1>10, <1>17, Zenon DEF Does
    <3> QED BY <1>3, <3>1, Stand3, Zenon
  <2>3. sem' \in [Keys -> Int] /\ Lie(sem', sa, sb, sc + 1, sd)
    <3>1. Shifted(sem, sem', Out("c"), 1) /\ "c" \in Parts
      BY <1>2, <1>10, <1>17, Zenon DEF Does
    <3> QED BY <1>1, <1>4, <1>8, <3>1, Lies, Zenon
  <2>4. Count(made', ma, mb, mc, md, mw) /\ made' \in [Parts \cup {"w"} -> Int]
    BY <1>1, <1>5, <1>10, <1>17, Zenon DEF Count, Does
  <2>5. Books(a1, a2, 2, a4, a5, sa, sb, sc + 1, sd, ma, mb, mc, md, mw)
    BY <1>6, <2>1, DetailBooks, Zenon
  <2>6. GeryaBooks(th', sem', made')
    BY <2>2, <2>3, <2>4, <2>5, Rebooked, Zenon
  <2> QED BY <2>3, <2>4, <2>6, Zenon DEF BooksKept
<1>18. ASSUME t = 3, n = 2, Does(row, n, op, 0, "made", "c")
      PROVE  BooksKept
  <2>1. a3 = 2
    BY <1>0, <1>3, <1>18, Zenon DEF Stand
  <2>2. Stand(th', a1, a2, 0, a4, a5)
    <3>1. Turned(th, th', 3, "run", 0)
      BY <1>11, <1>18, Zenon DEF Does
    <3> QED BY <1>3, <3>1, Stand3, Zenon
  <2>3. sem' \in [Keys -> Int] /\ Lie(sem', sa, sb, sc, sd)
    BY <1>1, <1>4, <1>11, <1>18, Zenon DEF Lie, Does
  <2>4. Count(made', ma, mb, mc + 1, md, mw) /\ made' \in [Parts \cup {"w"} -> Int]
    <3>1. Shifted(made, made', "c", 1) /\ "c" \in Parts \cup {"w"}
      BY <1>2, <1>11, <1>18, Zenon DEF Does
    <3> QED BY <1>1, <1>5, <3>1, Counted5, Zenon
  <2>5. Books(a1, a2, 0, a4, a5, sa, sb, sc, sd, ma, mb, mc + 1, md, mw)
    BY <1>6, <2>1, DetailBooks, Zenon
  <2>6. GeryaBooks(th', sem', made')
    BY <2>2, <2>3, <2>4, <2>5, Rebooked, Zenon
  <2> QED BY <2>3, <2>4, <2>6, Zenon DEF BooksKept
<1>19. ASSUME t = 4, n = 1, Does(row, n, op, 2, "timed", Out("a"))
      PROVE  BooksKept
  <2>1. a4 = 1
    BY <1>0, <1>3, <1>19, Zenon DEF Stand
  <2>2. CASE /\ Turned(th, th', t, "run", 2) /\ sem[Out("a")] > 0 /\ Shifted(sem, sem', Out("a"), -1) /\ UNCHANGED made
    <3>1. Stand(th', a1, a2, a3, 2, a5)
      <4>1. Turned(th, th', 4, "run", 2)
        BY <1>19, <2>2, Zenon
      <4> QED BY <1>3, <4>1, Stand4, Zenon
    <3>2. sem' \in [Keys -> Int] /\ Lie(sem', sa + -1, sb, sc, sd)
      BY <1>1, <1>2, <1>4, <1>8, <2>2, Lies, Zenon
    <3>3. Count(made', ma, mb, mc, md, mw) /\ sa > 0
      BY <1>4, <1>5, <2>2, Zenon DEF Count, Lie
    <3>4. Books(a1, a2, a3, 2, a5, sa + -1, sb, sc, sd, ma, mb, mc, md, mw)
      BY <1>6, <2>1, <3>3, ModuleBooks, Zenon
    <3>5. GeryaBooks(th', sem', made')
      BY <3>1, <3>2, <3>3, <3>4, Rebooked, Zenon
    <3> QED BY <1>1, <2>2, <3>2, <3>5, Zenon DEF BooksKept
  <2>3. CASE Turned(th, th', t, "done", 0) /\ UNCHANGED <<sem, made>>
    <3>1. Stand(th', a1, a2, a3, 0, a5)
      <4>1. Turned(th, th', 4, "done", 0)
        BY <1>19, <2>3, Zenon
      <4> QED BY <1>3, <4>1, Stand4, Zenon
    <3>2. Lie(sem', sa, sb, sc, sd) /\ Count(made', ma, mb, mc, md, mw)
      BY <1>4, <1>5, <2>3, Zenon DEF Count, Lie
    <3>3. Books(a1, a2, a3, 0, a5, sa, sb, sc, sd, ma, mb, mc, md, mw)
      BY <1>6, ModuleBooks, Zenon
    <3>4. GeryaBooks(th', sem', made')
      BY <3>1, <3>2, <3>3, Rebooked, Zenon
    <3> QED BY <1>1, <2>3, <3>4, Zenon DEF BooksKept
  <2> QED BY <1>12, <1>19, <2>2, <2>3, Zenon DEF Does
<1>20. ASSUME t = 4, n = 2, Does(row, n, op, 3, "timed", Out("b"))
      PROVE  BooksKept
  <2>1. a4 = 2
    BY <1>0, <1>3, <1>20, Zenon DEF Stand
  <2>2. CASE /\ Turned(th, th', t, "run", 3) /\ sem[Out("b")] > 0 /\ Shifted(sem, sem', Out("b"), -1) /\ UNCHANGED made
    <3>1. Stand(th', a1, a2, a3, 3, a5)
      <4>1. Turned(th, th', 4, "run", 3)
        BY <1>20, <2>2, Zenon
      <4> QED BY <1>3, <4>1, Stand4, ZenonT(40)
    <3>2. sem' \in [Keys -> Int] /\ Lie(sem', sa, sb + -1, sc, sd)
      BY <1>1, <1>2, <1>4, <1>8, <2>2, Lies, Zenon
    <3>3. Count(made', ma, mb, mc, md, mw) /\ sb > 0
      BY <1>4, <1>5, <2>2, Zenon DEF Count, Lie
    <3>4. Books(a1, a2, a3, 3, a5, sa, sb + -1, sc, sd, ma, mb, mc, md, mw)
      BY <1>6, <2>1, <3>3, ModuleBooks, Zenon
    <3>5. GeryaBooks(th', sem', made')
      BY <3>1, <3>2, <3>3, <3>4, Rebooked, Zenon
    <3> QED BY <1>1, <2>2, <3>2, <3>5, Zenon DEF BooksKept
  <2>3. CASE Turned(th, th', t, "done", 0) /\ UNCHANGED <<sem, made>>
    <3>1. Stand(th', a1, a2, a3, 0, a5)
      <4>1. Turned(th, th', 4, "done", 0)
        BY <1>20, <2>3, Zenon
      <4> QED BY <1>3, <4>1, Stand4, Zenon
    <3>2. Lie(sem', sa, sb, sc, sd) /\ Count(made', ma, mb, mc, md, mw)
      BY <1>4, <1>5, <2>3, Zenon DEF Count, Lie
    <3>3. Books(a1, a2, a3, 0, a5, sa, sb, sc, sd, ma, mb, mc, md, mw)
      BY <1>6, ModuleBooks, Zenon
    <3>4. GeryaBooks(th', sem', made')
      BY <3>1, <3>2, <3>3, Rebooked, Zenon
    <3> QED BY <1>1, <2>3, <3>4, Zenon DEF BooksKept
  <2> QED BY <1>12, <1>20, <2>2, <2>3, Zenon DEF Does
<1>21. ASSUME t = 4, n = 3, Does(row, n, op, 4, "made", "d")
      PROVE  BooksKept
  <2>1. a4 = 3
    BY <1>0, <1>3, <1>21, Zenon DEF Stand
  <2>2. Stand(th', a1, a2, a3, 4, a5)
    <3>1. Turned(th, th', 4, "run", 4)
      BY <1>11, <1>21, Zenon DEF Does
    <3> QED BY <1>3, <3>1, Stand4, ZenonT(40)
  <2>3. sem' \in [Keys -> Int] /\ Lie(sem', sa, sb, sc, sd)
    BY <1>1, <1>4, <1>11, <1>21, Zenon DEF Lie, Does
  <2>4. Count(made', ma, mb, mc, md + 1, mw) /\ made' \in [Parts \cup {"w"} -> Int]
    <3>1. Shifted(made, made', "d", 1) /\ "d" \in Parts \cup {"w"}
      BY <1>2, <1>11, <1>21, Zenon DEF Does
    <3> QED BY <1>1, <1>5, <3>1, Counted5, Zenon
  <2>5. Books(a1, a2, a3, 4, a5, sa, sb, sc, sd, ma, mb, mc, md + 1, mw)
    BY <1>6, <2>1, ModuleBooks, Zenon
  <2>6. GeryaBooks(th', sem', made')
    BY <2>2, <2>3, <2>4, <2>5, Rebooked, Zenon
  <2> QED BY <2>3, <2>4, <2>6, Zenon DEF BooksKept
<1>22. ASSUME t = 4, n = 4, Does(row, n, op, 0, "post", Out("d"))
      PROVE  BooksKept
  <2>1. a4 = 4
    BY <1>0, <1>3, <1>22, Zenon DEF Stand
  <2>2. Stand(th', a1, a2, a3, 0, a5)
    <3>1. Turned(th, th', 4, "run", 0)
      BY <1>10, <1>22, Zenon DEF Does
    <3> QED BY <1>3, <3>1, Stand4, Zenon
  <2>3. sem' \in [Keys -> Int] /\ Lie(sem', sa, sb, sc, sd + 1)
    <3>1. Shifted(sem, sem', Out("d"), 1) /\ "d" \in Parts
      BY <1>2, <1>10, <1>22, Zenon DEF Does
    <3> QED BY <1>1, <1>4, <1>8, <3>1, Lies, Zenon
  <2>4. Count(made', ma, mb, mc, md, mw) /\ made' \in [Parts \cup {"w"} -> Int]
    BY <1>1, <1>5, <1>10, <1>22, Zenon DEF Count, Does
  <2>5. Books(a1, a2, a3, 0, a5, sa, sb, sc, sd + 1, ma, mb, mc, md, mw)
    BY <1>6, <2>1, ModuleBooks, Zenon
  <2>6. GeryaBooks(th', sem', made')
    BY <2>2, <2>3, <2>4, <2>5, Rebooked, Zenon
  <2> QED BY <2>3, <2>4, <2>6, Zenon DEF BooksKept
<1>23. ASSUME t = 5, n = 1, Does(row, n, op, 2, "timed", Out("c"))
      PROVE  BooksKept
  <2>1. a5 = 1
    BY <1>0, <1>3, <1>23, Zenon DEF Stand
  <2>2. CASE /\ Turned(th, th', t, "run", 2) /\ sem[Out("c")] > 0 /\ Shifted(sem, sem', Out("c"), -1) /\ UNCHANGED made
    <3>1. Stand(th', a1, a2, a3, a4, 2)
      <4>1. Turned(th, th', 5, "run", 2)
        BY <1>23, <2>2, Zenon
      <4> QED BY <1>3, <4>1, Stand5, Zenon
    <3>2. sem' \in [Keys -> Int] /\ Lie(sem', sa, sb, sc + -1, sd)
      BY <1>1, <1>2, <1>4, <1>8, <2>2, Lies, Zenon
    <3>3. Count(made', ma, mb, mc, md, mw) /\ sc > 0
      BY <1>4, <1>5, <2>2, Zenon DEF Count, Lie
    <3>4. Books(a1, a2, a3, a4, 2, sa, sb, sc + -1, sd, ma, mb, mc, md, mw)
      BY <1>6, <2>1, <3>3, WidgetBooks, Zenon
    <3>5. GeryaBooks(th', sem', made')
      BY <3>1, <3>2, <3>3, <3>4, Rebooked, Zenon
    <3> QED BY <1>1, <2>2, <3>2, <3>5, Zenon DEF BooksKept
  <2>3. CASE Turned(th, th', t, "done", 0) /\ UNCHANGED <<sem, made>>
    <3>1. Stand(th', a1, a2, a3, a4, 0)
      <4>1. Turned(th, th', 5, "done", 0)
        BY <1>23, <2>3, Zenon
      <4> QED BY <1>3, <4>1, Stand5, Zenon
    <3>2. Lie(sem', sa, sb, sc, sd) /\ Count(made', ma, mb, mc, md, mw)
      BY <1>4, <1>5, <2>3, Zenon DEF Count, Lie
    <3>3. Books(a1, a2, a3, a4, 0, sa, sb, sc, sd, ma, mb, mc, md, mw)
      BY <1>6, WidgetBooks, Zenon
    <3>4. GeryaBooks(th', sem', made')
      BY <3>1, <3>2, <3>3, Rebooked, Zenon
    <3> QED BY <1>1, <2>3, <3>4, Zenon DEF BooksKept
  <2> QED BY <1>12, <1>23, <2>2, <2>3, Zenon DEF Does
<1>24. ASSUME t = 5, n = 2, Does(row, n, op, 3, "timed", Out("d"))
      PROVE  BooksKept
  <2>1. a5 = 2
    BY <1>0, <1>3, <1>24, Zenon DEF Stand
  <2>2. CASE /\ Turned(th, th', t, "run", 3) /\ sem[Out("d")] > 0 /\ Shifted(sem, sem', Out("d"), -1) /\ UNCHANGED made
    <3>1. Stand(th', a1, a2, a3, a4, 3)
      <4>1. PICK m, l : m = 3 /\ l = "run"
        BY Zenon
      <4>2. Turned(th, th', 5, l, m)
        BY <1>24, <2>2, <4>1, Zenon
      <4>3. Stand(th', a1, a2, a3, a4, m)
        BY <1>3, <4>2, Stand5, Zenon
      <4> QED BY <4>1, <4>3, Zenon
    <3>2. sem' \in [Keys -> Int] /\ Lie(sem', sa, sb, sc, sd + -1)
      BY <1>1, <1>2, <1>4, <1>8, <2>2, Lies, Zenon
    <3>3. Count(made', ma, mb, mc, md, mw) /\ sd > 0
      BY <1>4, <1>5, <2>2, Zenon DEF Count, Lie
    <3>4. Books(a1, a2, a3, a4, 3, sa, sb, sc, sd + -1, ma, mb, mc, md, mw)
      BY <1>6, <2>1, <3>3, WidgetBooks, Zenon
    <3>5. GeryaBooks(th', sem', made')
      BY <3>1, <3>2, <3>3, <3>4, Rebooked, Zenon
    <3> QED BY <1>1, <2>2, <3>2, <3>5, Zenon DEF BooksKept
  <2>3. CASE Turned(th, th', t, "done", 0) /\ UNCHANGED <<sem, made>>
    <3>1. Stand(th', a1, a2, a3, a4, 0)
      <4>1. Turned(th, th', 5, "done", 0)
        BY <1>24, <2>3, Zenon
      <4> QED BY <1>3, <4>1, Stand5, Zenon
    <3>2. Lie(sem', sa, sb, sc, sd) /\ Count(made', ma, mb, mc, md, mw)
      BY <1>4, <1>5, <2>3, Zenon DEF Count, Lie
    <3>3. Books(a1, a2, a3, a4, 0, sa, sb, sc, sd, ma, mb, mc, md, mw)
      BY <1>6, WidgetBooks, Zenon
    <3>4. GeryaBooks(th', sem', made')
      BY <3>1, <3>2, <3>3, Rebooked, Zenon
    <3> QED BY <1>1, <2>3, <3>4, Zenon DEF BooksKept
  <2> QED BY <1>12, <1>24, <2>2, <2>3, Zenon DEF Does
<1>25. ASSUME t = 5, n = 3, Does(row, n, op, 0, "made", "w")
      PROVE  BooksKept
  <2>1. a5 = 3
    BY <1>0, <1>3, <1>25, Zenon DEF Stand
  <2>2. Stand(th', a1, a2, a3, a4, 0)
    <3>1. Turned(th, th', 5, "run", 0)
      BY <1>11, <1>25, Zenon DEF Does
    <3> QED BY <1>3, <3>1, Stand5, Zenon
  <2>3. sem' \in [Keys -> Int] /\ Lie(sem', sa, sb, sc, sd)
    BY <1>1, <1>4, <1>11, <1>25, Zenon DEF Lie, Does
  <2>4. Count(made', ma, mb, mc, md, mw + 1) /\ made' \in [Parts \cup {"w"} -> Int]
    <3>1. Shifted(made, made', "w", 1) /\ "w" \in Parts \cup {"w"}
      BY <1>2, <1>11, <1>25, Zenon DEF Does
    <3> QED BY <1>1, <1>5, <3>1, Counted5, Zenon
  <2>5. Books(a1, a2, a3, a4, 0, sa, sb, sc, sd, ma, mb, mc, md, mw + 1)
    BY <1>6, <2>1, WidgetBooks, Zenon
  <2>6. GeryaBooks(th', sem', made')
    BY <2>2, <2>3, <2>4, <2>5, Rebooked, Zenon
  <2> QED BY <2>3, <2>4, <2>6, Zenon DEF BooksKept
<1>26. GeryaPlace(t, row, n, op)
  BY <1>0, GeryaPlaces, Zenon
<1>27. BooksKept
  BY <1>13, <1>14, <1>15, <1>16, <1>17, <1>18, <1>19, <1>20, <1>21, <1>22, <1>23, <1>24, <1>25, <1>26, Zenon DEF GeryaPlace
<1>28. op[1] = "post" \/ op[1] = "made" \/ op[1] = "timed"
  BY <1>26, Zenon DEF GeryaPlace, Does
<1>29. \E m \in 0 .. Len(row), l \in {"run", "done"} : (l = "done" => m = 0) /\ Turned(th, th', t, l, m)
  BY <1>7, <1>9, <1>10, <1>11, <1>12, <1>28, Zenon
<1> QED BY <1>27, <1>29, Zenon

\* A thread at the head of its loop, or one that is created, keeps the books.
LEMMA GeryaHead ==
    ASSUME Gerya, NEW t \in 1 .. 5, NEW l, NEW m \in {0, 1}, th[t].at = 0, Turned(th, th', t, l, m), UNCHANGED <<sem, made>>,
           t = 5 /\ m = 1 => made["w"] < WidgetSuffice
    PROVE  GeryaBooks(th', sem', made')
<1>1. th \in Threads /\ sem \in [Keys -> Int] /\ made \in [Parts \cup {"w"} -> Int] /\ GeryaBooks(th, sem, made)
  BY Zenon DEF Gerya, Makers, GeryaInv
<1>2. PICK a1 \in Nat, a2 \in Nat, a3 \in Nat, a4 \in Nat, a5 \in Nat : Stand(th, a1, a2, a3, a4, a5)
  <2>1. \A u \in 1 .. 5 : th[u].at \in Nat
    BY <1>1 DEF Threads
  <2>2. {1, 2, 3, 4, 5} \subseteq 1 .. 5
    OBVIOUS
  <2> QED BY <2>1, <2>2, Zenon DEF Stand
<1>3. PICK b1 \in Nat, b2 \in Nat, b3 \in Nat, b4 \in Nat, b5 \in Nat : Stand(th', b1, b2, b3, b4, b5)
  <2>1. \A u \in 1 .. 5 : th'[u].at \in Nat
    BY DEF Turned, Threads
  <2>2. {1, 2, 3, 4, 5} \subseteq 1 .. 5
    OBVIOUS
  <2> QED BY <2>1, <2>2, Zenon DEF Stand
<1>4. PICK sa \in Int, sb \in Int, sc \in Int, sd \in Int : Lie(sem, sa, sb, sc, sd)
  <2>1. "a" \in Parts /\ "b" \in Parts /\ "c" \in Parts /\ "d" \in Parts
    BY DEF Parts
  <2>2. \A p \in Parts : sem[Out(p)] \in Int
    BY <1>1, KeysDiffer
  <2> QED BY <2>1, <2>2, Zenon DEF Lie
<1>5. PICK ma \in Int, mb \in Int, mc \in Int, md \in Int, mw \in Int : Count(made, ma, mb, mc, md, mw)
  <2>1. made["a"] \in Int /\ made["b"] \in Int /\ made["c"] \in Int /\ made["d"] \in Int /\ made["w"] \in Int
    BY <1>1 DEF Parts
  <2> QED BY <2>1, Zenon DEF Count
<1>6. Books(a1, a2, a3, a4, a5, sa, sb, sc, sd, ma, mb, mc, md, mw)
  BY <1>1, <1>2, <1>4, <1>5, Booked, Zenon
<1>7. \A u \in 1 .. 5 : th'[u].at = th[u].at \/ (u = t /\ th[u].at = 0 /\ th'[u].at = 1 /\ m = 1)
  <2>1. ASSUME NEW u \in 1 .. 5 PROVE th'[u].at = th[u].at \/ (u = t /\ th[u].at = 0 /\ th'[u].at = 1 /\ m = 1)
    <3>1. m = 0 \/ m = 1
      BY Zenon
    <3>2. th'[t].at = m /\ (u # t => th'[u].at = th[u].at)
      BY Zenon DEF Turned
    <3> QED BY <3>1, <3>2, Zenon
  <2> QED BY <2>1, Zenon
<1>8. Heads(a1, a2, a3, a4, a5, b1, b2, b3, b4, b5, mw)
  <2>1. {1, 2, 3, 4, 5} \subseteq 1 .. 5
    OBVIOUS
  <2>2. mw = made["w"]
    BY <1>5, Zenon DEF Count
  <2> QED BY <1>2, <1>3, <1>7, <2>1, <2>2, Zenon DEF Stand, Heads
<1>9. Books(b1, b2, b3, b4, b5, sa, sb, sc, sd, ma, mb, mc, md, mw)
  BY <1>6, <1>8, HeadBooks, ZenonT(60)
<1>10. Lie(sem', sa, sb, sc, sd) /\ Count(made', ma, mb, mc, md, mw)
  BY <1>4, <1>5, Zenon DEF Lie, Count
<1> QED BY <1>3, <1>9, <1>10, Rebooked, Zenon

\* Steps of main that leave the threads alone.
LEMMA GeryaRests ==
    ASSUME Gerya, NEW m, NEW b, EnvGoes(m, b), UNCHANGED <<th, sem, made>>,
           m # "create" /\ ~b => \A t \in 1 .. 5 : th[t].pc # "none",
           m = "end" => \A t \in 1 .. 5 : th[t].pc # "run"
    PROVE  Gerya'
<1>1. Makers'
  BY Zenon DEF Gerya, Makers, EnvGoes
<1>2. GeryaBooks(th', sem', made') /\ \A t \in 1 .. 5 : th'[t].at \in 0 .. Len(gerya24_loop(t))
  BY Zenon DEF Gerya, GeryaInv
<1>3. GeryaEnds'
  BY Zenon DEF Gerya, GeryaInv, GeryaEnds, EnvGoes
<1> QED BY <1>1, <1>2, <1>3, Zenon DEF Gerya, GeryaInv

LEMMA GeryaRange ==
    ASSUME Gerya, NEW t \in 1 .. 5, NEW m \in 0 .. Len(gerya24_loop(t)), NEW l, Turned(th, th', t, l, m)
    PROVE  \A u \in 1 .. 5 : th'[u].at \in 0 .. Len(gerya24_loop(u))
<1>1. ASSUME NEW u \in 1 .. 5 PROVE th'[u].at \in 0 .. Len(gerya24_loop(u))
  <2>1. CASE u = t
    BY <2>1, Zenon DEF Turned
  <2>2. CASE u # t
    BY <2>2, Zenon DEF Turned, Gerya, GeryaInv
  <2> QED BY <2>1, <2>2, Zenon
<1> QED BY <1>1, Zenon

LEMMA GeryaShort == \A t \in 1 .. 5 : Len(gerya24_loop(t)) \in Nat /\ {0, 1} \subseteq 0 .. Len(gerya24_loop(t))
BY GeryaRows

\* How gerya24 ends, after a thread's step.
LEMMA GeryaEndsTurn ==
    ASSUME Gerya, lab = "gerya24", NEW t \in 1 .. 5, NEW n, NEW row, NEW op, th[t].pc = "run", TurnCases(t, n, row, op),
           op[1] = "made" => op[2] \in Parts \cup {"w"}
    PROVE  GeryaEnds' /\ env' \in Environment
<1>1. env \in Environment /\ made \in [Parts \cup {"w"} -> Int] /\ GeryaEnds
  BY Zenon DEF Gerya, Makers, GeryaInv
<1>2. /\ env' \in Environment /\ env'.main = env.main /\ env'.interrupted = env.interrupted
      /\ ~env'.slip => ~env.slip
  <2>1. CASE UNCHANGED env
    BY <1>1, <2>1, Zenon
  <2>2. CASE env' = [env EXCEPT !.slip = TRUE]
    BY <1>1, <2>2 DEF Environment
  <2> QED BY <2>1, <2>2, Zenon DEF TurnCases
<1>3. env.main # "end"
  BY <1>1, Zenon DEF GeryaEnds
<1>4. PICK l, m : l \in {"run", "done"} /\ Turned(th, th', t, l, m)
  <2>1. "run" \in {"run", "done"} /\ "done" \in {"run", "done"}
    OBVIOUS
  <2>2. Turned(th, th', t, "done", 0) \/ Turned(th, th', t, "run", 1) \/ Turned(th, th', t, "run", After(row, n))
    BY Zenon DEF TurnCases
  <2> QED BY <2>1, <2>2
<1>5. \A u \in 1 .. 5 : th'[u].pc = "none" => th[u].pc = "none"
  <2>1. "run" # "none" /\ "done" # "none"
    OBVIOUS
  <2> QED BY <1>4, <2>1, Zenon DEF Turned
<1>6. made["w"] >= WidgetSuffice => made'["w"] >= WidgetSuffice
  <2>1. CASE UNCHANGED made
    BY <2>1, Zenon
  <2>2. CASE op[1] = "made" /\ Shifted(made, made', op[2], 1)
    <3>1. PICK p \in Parts \cup {"w"} : p = op[2]
      BY <2>2, Zenon
    <3>2. made' = [made EXCEPT ![p] = made[p] + 1]
      BY <2>2, <3>1, Zenon DEF Shifted
    <3>3. PICK i \in Int, w \in Int, j \in Int : i = made["w"] /\ w = WidgetSuffice /\ j = made'["w"] /\ (j = i \/ j = i + 1)
      <4>1. made["w"] \in Int /\ made'["w"] \in Int /\ (made'["w"] = made["w"] \/ made'["w"] = made["w"] + 1)
        BY <1>1, <3>2
      <4> QED BY <4>1, Suffice, Zenon
    <3>4. i >= w => j >= w
      BY <3>3
    <3> QED BY <3>3, <3>4, Zenon
  <2> QED BY <2>1, <2>2, Zenon DEF TurnCases
<1>7. ASSUME th'[5].pc = "done", ~env'.slip PROVE made'["w"] >= WidgetSuffice
  <2>1. CASE t # 5
    <3>1. 5 \in 1 .. 5
      OBVIOUS
    <3>2. th[5].pc = "done"
      BY <1>4, <1>7, <2>1, <3>1, Zenon DEF Turned
    <3> QED BY <1>1, <1>2, <1>6, <1>7, <3>2, Zenon DEF GeryaEnds
  <2>2. CASE t = 5
    <3>1. "run" # "done"
      OBVIOUS
    <3>2. env' # [env EXCEPT !.slip = TRUE]
      <4>1. [env EXCEPT !.slip = TRUE].slip = TRUE
        BY <1>1 DEF Environment
      <4> QED BY <1>7, <4>1, Zenon
    <3>3. \A i : ~Turned(th, th', t, "run", i)
      BY <1>7, <2>2, <3>1, Zenon DEF Turned
    <3>4. Enough(t) /\ UNCHANGED made
      BY <3>2, <3>3, Zenon DEF TurnCases
    <3>5. lab # "yanin24"
      OBVIOUS
    <3>6. made["w"] >= WidgetSuffice
      BY <2>2, <3>4, <3>5, Zenon DEF Enough, produceCont
    <3> QED BY <3>4, <3>6, Zenon
  <2> QED BY <2>1, <2>2, Zenon
<1> QED BY <1>1, <1>2, <1>3, <1>5, <1>7, Zenon DEF GeryaEnds

\* Every step of gerya24.
LEMMA GeryaNext ==
    ASSUME Gerya, lab = "gerya24", Next
    PROVE  Gerya'
<1>1. /\ Makers /\ th \in Threads /\ sem \in [Keys -> Int] /\ made \in [Parts \cup {"w"} -> Int] /\ env \in Environment
      /\ GeryaEnds
  BY Zenon DEF Gerya, Makers, GeryaInv
<1>2. lab \in Factories /\ lab # "yanin24" /\ lab # "yanin26" /\ lab \notin Queues
  BY DEF Factories, Queues
<1>3. Team = 1 .. 5
  BY <1>2, Zenon DEF Team
<1>4. {"join", "end"} \subseteq {"create", "run", "drop", "flag", "join", "end"} /\ "join" # "end" /\ "run" # "end" /\ "run" # "create" /\ "join" # "create"
  OBVIOUS
<1>5. CASE gerya24_main
  <2>1. CASE env.main = "run" /\ env' = [env EXCEPT !.main = "join"] /\ UNCHANGED <<th, sem, made>>
    <3>1. EnvGoes("join", env.interrupted)
      BY <1>1, <1>4, <2>1, FactoryEnv, Zenon
    <3> QED BY <1>1, <1>4, <2>1, <3>1, GeryaRests, Zenon DEF GeryaEnds
  <2>2. CASE JoinsTeam("end")
    <3>1. /\ env.main = "join" /\ env' = [env EXCEPT !.main = "end"] /\ UNCHANGED <<th, sem, made>>
          /\ \A t \in 1 .. 5 : th[t].pc \in {"none", "done"}
      BY <1>3, <2>2, Zenon DEF JoinsTeam, Ended
    <3>2. EnvGoes("end", env.interrupted)
      BY <1>1, <1>4, <3>1, FactoryEnv, Zenon
    <3>3. \A t \in 1 .. 5 : th[t].pc # "run"
      <4>1. "none" # "run" /\ "done" # "run"
        OBVIOUS
      <4> QED BY <3>1, <4>1, Zenon
    <3> QED BY <1>1, <1>4, <3>1, <3>2, <3>3, GeryaRests, Zenon DEF GeryaEnds
  <2>3. CASE CreatesTeam([env EXCEPT !.main = "join", !.interrupted = TRUE])
    <3>1. UNCHANGED <<sem, made>> /\ CreateCases
      BY <1>1, <1>2, <2>3, Creates, Zenon
    <3>2. CASE UNCHANGED th /\ EnvGoes("join", TRUE)
      BY <1>4, <3>1, <3>2, GeryaRests, Zenon
    <3>3. CASE UNCHANGED th /\ EnvGoes("run", env.interrupted) /\ \A t \in 1 .. 5 : th[t].pc # "none"
      BY <1>4, <3>1, <3>3, GeryaRests, Zenon
    <3>4. ASSUME NEW u \in 1 .. 5, env.main = "create", th[u].pc = "none", Turned(th, th', u, "run", FirstPlace(u)), UNCHANGED env
          PROVE  Gerya'
      <4>1. PICK m \in {0, 1} : m = FirstPlace(u) /\ (u = 5 => m # 1)
        <5>1. ~(5 <= 3) /\ 0 # 1
          OBVIOUS
        <5> QED BY <5>1, Zenon DEF FirstPlace
      <4>2. Turned(th, th', u, "run", m)
        BY <3>4, <4>1, Zenon
      <4>3. th[u].at = 0
        <5>1. "none" # "run"
          OBVIOUS
        <5> QED BY <1>1, <3>4, <5>1, Zenon DEF Makers
      <4>4. Makers'
        <5>1. "run" # "done" /\ "run" \in {"run", "done"}
          OBVIOUS
        <5> QED BY <1>1, <3>1, <3>4, <4>2, <5>1, MakersTurn, Zenon
      <4>5. GeryaBooks(th', sem', made')
        <5>1. u = 5 /\ m = 1 => made["w"] < WidgetSuffice
          BY <4>1, Zenon
        <5> QED BY <3>1, <4>2, <4>3, <5>1, GeryaHead, Zenon
      <4>6. m \in 0 .. Len(gerya24_loop(u))
        BY GeryaShort, Zenon
      <4>7. \A v \in 1 .. 5 : th'[v].at \in 0 .. Len(gerya24_loop(v))
        BY <4>2, <4>6, GeryaRange, Zenon
      <4>8. GeryaEnds'
        <5>1. "create" # "end" /\ "run" # "done" /\ 5 \in 1 .. 5
          OBVIOUS
        <5>2. th'[5].pc = "done" => th[5].pc = "done"
          BY <4>2, <5>1, Zenon DEF Turned
        <5> QED BY <1>1, <3>1, <3>4, <5>1, <5>2, Zenon DEF GeryaEnds
      <4> QED BY <4>4, <4>5, <4>7, <4>8, Zenon DEF Gerya, GeryaInv
    <3> QED BY <3>1, <3>2, <3>3, <3>4, Zenon DEF CreateCases
  <2> QED BY <1>5, <2>1, <2>2, <2>3, Zenon DEF gerya24_main
<1>6. ASSUME NEW t \in 1 .. 5, Repeats(t) PROVE Gerya'
  <2>1. PICK n, row, op : n = th[t].at /\ row = Loop(t) /\ op = row[n]
    BY Zenon
  <2>2. row = gerya24_loop(t)
    BY <1>2, <2>1, Zenon DEF Loop
  <2>3. Len(row) \in Nat /\ n \in 0 .. Len(row)
    BY <2>1, <2>2, GeryaShort, Zenon DEF Gerya, GeryaInv
  <2>4. TurnCases(t, n, row, op) /\ th[t].pc = "run"
    BY <1>1, <1>6, <2>1, <2>3, RepeatCases, Zenon
  <2>5. CASE n = 0
    <3>1. ~(0 > 0)
      OBVIOUS
    <3>2. /\ UNCHANGED <<sem, made, env>>
          /\ (Enough(t) /\ Turned(th, th', t, "done", 0)) \/ (~Enough(t) /\ Turned(th, th', t, "run", 1))
      BY <2>4, <2>5, <3>1, Zenon DEF TurnCases
    <3>3. PICK m \in {0, 1}, l \in {"run", "done"} :
              Turned(th, th', t, l, m) /\ (l = "done" => m = 0) /\ (m = 1 => ~Enough(t))
      <4>1. "run" # "done" /\ 0 # 1
        OBVIOUS
      <4> QED BY <3>2, <4>1, Zenon
    <3>4. t = 5 /\ m = 1 => made["w"] < WidgetSuffice
      <4>1. made["w"] \in Int
        BY <1>1
      <4>2. ~(made["w"] >= WidgetSuffice) => made["w"] < WidgetSuffice
        BY <4>1, Suffice
      <4> QED BY <1>2, <3>3, <4>2, Zenon DEF Enough, produceCont
    <3>5. GeryaBooks(th', sem', made')
      BY <2>1, <2>5, <3>2, <3>3, <3>4, GeryaHead, Zenon
    <3>6. Makers'
      BY <1>1, <3>2, <3>3, MakersTurn, Zenon
    <3>7. m \in 0 .. Len(gerya24_loop(t))
      BY GeryaShort, Zenon
    <3>8. \A v \in 1 .. 5 : th'[v].at \in 0 .. Len(gerya24_loop(v))
      BY <3>3, <3>7, GeryaRange, Zenon
    <3>9. GeryaEnds'
      <4>1. PICK x : x = <<"post", 0>>
        BY Zenon
      <4>2. x[1] # "made"
        BY <4>1
      <4>3. TurnCases(t, n, row, x)
        BY <2>5, <3>2, Zenon DEF TurnCases
      <4> QED BY <2>4, <4>2, <4>3, GeryaEndsTurn, Zenon
    <3> QED BY <3>5, <3>6, <3>8, <3>9, Zenon DEF Gerya, GeryaInv
  <2>6. CASE n # 0
    <3>1. n \in 1 .. Len(row)
      BY <2>3, <2>6
    <3>2. AtWork(t, row, n, op)
      BY <1>6, <2>1, <2>2, <2>4, <3>1, Zenon DEF AtWork
    <3>3. /\ BooksKept
          /\ \E m \in 0 .. Len(row), l \in {"run", "done"} : (l = "done" => m = 0) /\ Turned(th, th', t, l, m)
      BY <3>2, GeryaTurn, Zenon
    <3>4. PICK m \in 0 .. Len(row), l \in {"run", "done"} : (l = "done" => m = 0) /\ Turned(th, th', t, l, m)
      BY <3>3, Zenon
    <3>5. GeryaPlace(t, row, n, op)
      BY <2>1, <2>2, <3>1, GeryaPlaces, Zenon
    <3>6. op[1] = "made" => op[2] \in Parts \cup {"w"}
      <4>1. "post" # "made" /\ "timed" # "made" /\ {"a", "b", "c", "d", "w"} = Parts \cup {"w"}
        BY DEF Parts
      <4> QED BY <3>5, <4>1, Zenon DEF GeryaPlace, Does
    <3>7. GeryaEnds' /\ env' \in Environment
      BY <2>4, <3>6, GeryaEndsTurn, Zenon
    <3>8. Makers'
      BY <1>1, <3>3, <3>4, <3>7, MakersTurn, Zenon DEF BooksKept
    <3>9. \A v \in 1 .. 5 : th'[v].at \in 0 .. Len(gerya24_loop(v))
      BY <2>2, <3>4, GeryaRange, Zenon
    <3> QED BY <3>3, <3>7, <3>8, <3>9, Zenon DEF Gerya, GeryaInv, BooksKept
  <2> QED BY <2>5, <2>6, Zenon
<1>7. ~Interrupt
  BY Zenon DEF Interrupt
<1>8. MainStep => gerya24_main
  BY DEF MainStep
<1>9. ASSUME NEW t, ThreadStep(t) PROVE Repeats(t)
  BY <1>9 DEF ThreadStep
<1> QED BY <1>2, <1>3, <1>5, <1>6, <1>7, <1>8, <1>9, Zenon DEF Next

LEMMA InitFactories == Init => FInv
<1> SUFFICES ASSUME Init, lab \in Factories PROVE FInv
  BY Zenon DEF FInv
<1>1. th = [t \in 1 .. 5 |-> [pc |-> "none", at |-> 0, line |-> 0]]
  BY Zenon DEF Init
<1>2. th \in Threads /\ \A t \in 1 .. 5 : th[t].pc = "none" /\ th[t].at = 0
  BY <1>1 DEF Threads, Places
<1>3. /\ env \in Environment /\ env.slip = FALSE /\ env.main = "create" /\ env.interrupted = FALSE
  BY WorkshopAssumption DEF Init, Environment
<1>4. PICK c \in Nat : c = QueueSize
  BY WorkshopAssumption
<1>5. sem = [s \in Parts \X {"space", "out"} |-> IF s[2] = "space" THEN c ELSE 0]
  BY <1>4, Zenon DEF Init
<1>6. sem \in [Keys -> Int]
  BY <1>5 DEF Keys
<1>7. \A p \in Parts : sem[Out(p)] = 0 /\ sem[Space(p)] = c
  BY <1>5 DEF Out, Space
<1>8. made \in [Parts \cup {"w"} -> Int] /\ \A k \in Parts \cup {"w"} : made[k] = 0
  BY DEF Init
<1>9. Makers
  BY <1>2, <1>3, <1>6, <1>8, Zenon DEF Makers
<1>10. YaninInv
  <2>1. ASSUME NEW p \in Parts PROVE sem[Out(p)] + sem[Space(p)] + Cardinality(Hands(th, p)) = QueueSize
    <3>1. Hands(th, p) = {}
      BY <1>2, NothingHeld, Zenon DEF Hands
    <3>2. Cardinality(Hands(th, p)) = 0
      BY <3>1, FS_EmptySet, Zenon
    <3>3. 0 + c + 0 = c
      OBVIOUS
    <3> QED BY <1>4, <1>7, <3>2, <3>3, Zenon
  <2>2. \A t \in 1 .. 5 : 0 \in 0 .. Len(yanin24_loop(t))
    BY YaninRows
  <2> QED BY <1>2, <2>1, <2>2, Zenon DEF YaninInv
<1>11. GeryaInv
  <2>1. Books(0, 0, 0, 0, 0, 0, 0, 0, 0, 0, 0, 0, 0, 0)
    BY WorkshopAssumption DEF Books, In
  <2>2. Stand(th, 0, 0, 0, 0, 0)
    <3>1. {1, 2, 3, 4, 5} \subseteq 1 .. 5
      OBVIOUS
    <3> QED BY <1>2, <3>1, Zenon DEF Stand
  <2>3. Lie(sem, 0, 0, 0, 0)
    <3>1. {"a", "b", "c", "d"} = Parts
      BY DEF Parts
    <3> QED BY <1>7, <3>1, Zenon DEF Lie
  <2>4. Count(made, 0, 0, 0, 0, 0)
    <3>1. {"a", "b", "c", "d", "w"} = Parts \cup {"w"}
      BY DEF Parts
    <3> QED BY <1>8, <3>1, Zenon DEF Count
  <2>5. GeryaBooks(th, sem, made)
    BY <2>1, <2>2, <2>3, <2>4, Rebooked, Zenon
  <2>6. GeryaEnds
    <3>1. "create" # "end" /\ "none" # "done" /\ 5 \in 1 .. 5
      OBVIOUS
    <3> QED BY <1>2, <1>3, <3>1, Zenon DEF GeryaEnds
  <2>7. \A t \in 1 .. 5 : 0 \in 0 .. Len(gerya24_loop(t))
    BY GeryaShort, Zenon
  <2> QED BY <1>2, <2>5, <2>6, <2>7, Zenon DEF GeryaInv
<1> QED BY <1>9, <1>10, <1>11, Zenon DEF FInv

LEMMA NextFactories == FInv /\ [Next]_vars => FInv'
<1> SUFFICES ASSUME FInv, [Next]_vars, lab' \in Factories PROVE FInv'
  BY Zenon DEF FInv
<1>1. lab' = lab
  BY Zenon DEF Next, vars
<1>2. Makers /\ (lab = "yanin24" => YaninInv) /\ (lab = "gerya24" => GeryaInv)
  BY <1>1, Zenon DEF FInv
<1>3. "yanin24" # "gerya24"
  OBVIOUS
<1>4. CASE UNCHANGED vars
  <2>1. th' = th /\ sem' = sem /\ made' = made /\ env' = env
    BY <1>4, Zenon DEF vars
  <2>2. Makers'
    BY <1>2, <2>1, Zenon DEF Makers
  <2>3. YaninInv => YaninInv'
    BY <2>1, Zenon DEF YaninInv, Hands
  <2>4. GeryaInv => GeryaInv'
    BY <2>1, Zenon DEF GeryaInv, GeryaBooks, GeryaEnds
  <2> QED BY <1>1, <1>2, <2>2, <2>3, <2>4, Zenon DEF FInv
<1>5. CASE Next /\ lab = "yanin24"
  <2>1. Yanin'
    BY <1>2, <1>5, YaninNext, Zenon DEF Yanin
  <2> QED BY <1>1, <1>3, <1>5, <2>1, Zenon DEF FInv, Yanin
<1>6. CASE Next /\ lab = "gerya24"
  <2>1. Gerya'
    BY <1>2, <1>6, GeryaNext, Zenon DEF Gerya
  <2> QED BY <1>1, <1>3, <1>6, <2>1, Zenon DEF FInv, Gerya
<1> QED BY <1>1, <1>4, <1>5, <1>6, Zenon DEF Factories

LEMMA SpecFactories == Spec => []FInv
BY InitFactories, NextFactories, PTL DEF Spec

LEMMA FactoriesAddUp == FInv => PartsAddUp
<1> SUFFICES ASSUME FInv PROVE PartsAddUp
  OBVIOUS
<1>1. ASSUME lab = "yanin24", NEW p \in Parts
      PROVE  sem[Out(p)] + sem[Space(p)]
               + Cardinality({t \in 1 .. 5 : th[t].at > 1 /\ Loop(t)[th[t].at] \in {<<"post", Out(p)>>, <<"post", Space(p)>>}})
             = QueueSize
  <2>1. YaninInv
    BY <1>1, Zenon DEF FInv, Factories
  <2>2. {t \in 1 .. 5 : th[t].at > 1 /\ Loop(t)[th[t].at] \in {<<"post", Out(p)>>, <<"post", Space(p)>>}} = Hands(th, p)
    BY <1>1, Zenon DEF Hands, Held, Loop
  <2> QED BY <2>1, <2>2, Zenon DEF YaninInv
<1>2. ASSUME lab = "gerya24"
      PROVE  /\ \A p \in {"a", "b"} : made["d"] <= made[p] + 1 /\ (env.main = "end" => made["d"] <= made[p])
             /\ made["w"] <= made["d"] /\ made["w"] <= made["c"] + 1
             /\ made["w"] <= WidgetSuffice
             /\ (env.main = "end" /\ ~env.interrupted /\ ~env.slip) => made["w"] = WidgetSuffice
  <2>1. Makers /\ GeryaBooks(th, sem, made) /\ GeryaEnds
    BY <1>2, Zenon DEF FInv, Factories, GeryaInv
  <2>2. PICK ma \in Int, mb \in Int, mc \in Int, md \in Int, mw \in Int, w \in Int :
            Count(made, ma, mb, mc, md, mw) /\ w = WidgetSuffice
    <3>1. made["a"] \in Int /\ made["b"] \in Int /\ made["c"] \in Int /\ made["d"] \in Int /\ made["w"] \in Int
      BY <2>1 DEF Makers, Parts
    <3> QED BY <3>1, Suffice, Zenon DEF Count
  <2>3. PICK sa \in Int, sb \in Int, sc \in Int, sd \in Int : Lie(sem, sa, sb, sc, sd)
    <3>1. "a" \in Parts /\ "b" \in Parts /\ "c" \in Parts /\ "d" \in Parts
      BY DEF Parts
    <3>2. \A p \in Parts : sem[Out(p)] \in Int
      BY <2>1, KeysDiffer DEF Makers
    <3> QED BY <3>1, <3>2, Zenon DEF Lie
  <2>4. PICK a1 \in Nat, a2 \in Nat, a3 \in Nat, a4 \in Nat, a5 \in Nat : Stand(th, a1, a2, a3, a4, a5)
    <3>1. \A u \in 1 .. 5 : th[u].at \in Nat
      BY <2>1 DEF Makers, Threads
    <3>2. {1, 2, 3, 4, 5} \subseteq 1 .. 5
      OBVIOUS
    <3> QED BY <3>1, <3>2, Zenon DEF Stand
  <2>5. Books(a1, a2, a3, a4, a5, sa, sb, sc, sd, ma, mb, mc, md, mw)
    BY <2>1, <2>2, <2>3, <2>4, Booked, Zenon
  <2>6. env.main = "end" => a1 = 0 /\ a2 = 0
    <3>1. {1, 2} \subseteq 1 .. 5
      OBVIOUS
    <3> QED BY <2>1, <2>4, <3>1, Zenon DEF GeryaEnds, Makers, Stand
  <2>7. env.main = "end" /\ ~env.interrupted /\ ~env.slip => mw >= WidgetSuffice
    <3>1. "end" # "create" /\ 5 \in 1 .. 5
      OBVIOUS
    <3>2. env.main = "end" /\ ~env.interrupted => th[5].pc = "done"
      BY <2>1, <3>1, Zenon DEF GeryaEnds, Makers
    <3> QED BY <2>1, <2>2, <3>2, Zenon DEF GeryaEnds, Count
  <2>8. /\ md <= ma + 1 /\ md <= mb + 1 /\ (a1 = 0 => md <= ma) /\ (a2 = 0 => md <= mb)
        /\ mw <= md /\ mw <= mc + 1 /\ mw <= WidgetSuffice
    BY <2>5, Suffice DEF Books, In
  <2>9. mw <= WidgetSuffice /\ mw >= WidgetSuffice => mw = WidgetSuffice
    BY Suffice
  <2>10. made["a"] = ma /\ made["b"] = mb /\ made["c"] = mc /\ made["d"] = md /\ made["w"] = mw
    BY <2>2, Zenon DEF Count
  <2> HIDE <2>2
  <2> QED BY <2>6, <2>7, <2>8, <2>9, <2>10, Zenon
<1> QED BY <1>1, <1>2, Zenon DEF PartsAddUp

\* For every number of places, every limit and every number of failures: in
\* yanin24 a part's places, its finished pieces and those in a thread's hands
\* are always as many as its queue has places; gerya24 never makes a module
\* without its parts nor a widget without its modules, and at the end it has
\* made as many as were asked for, unless a wait timed out.
THEOREM WorkshopParts == Spec => []PartsAddUp
BY SpecFactories, FactoriesAddUp, PTL

=============================================================================
