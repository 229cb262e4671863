---------------------------- MODULE MemoryProofs ----------------------------
(***************************************************************************)
(* The theorems about SimulatedMemory and BypassAdapter.                   *)
(***************************************************************************)
EXTENDS BypassAdapter, Lemmas

-----------------------------------------------------------------------------
(* One cache.                                                              *)

\* The caches with S sets of n ways under the policies FIFO, LRU or tree-PLRU.
CachesOf(S, n) == [data : [0..(S - 1) -> [0..(n - 1) -> Nat \cup {Invalid}]],
                   replacement : [0..(S - 1) -> Policies(n)]]

\* Every line is in its set, and there once.
Placed(c, S, n) ==
    /\ c \in CachesOf(S, n)
    /\ \A s \in 0..(S - 1), w \in 0..(n - 1) : c.data[s][w] # Invalid => c.data[s][w] % S = s
    /\ \A s \in 0..(S - 1), v, w \in 0..(n - 1) :
          c.data[s][v] = c.data[s][w] /\ c.data[s][v] # Invalid => v = w

\* A line is in the cache.
In(c, S, n, x) == \E w \in 0..(n - 1) : c.data[x % S][w] = x

\* The parts of a cache.
LEMMA CacheFields ==
    ASSUME NEW S \in Nat \ {0}, NEW n \in Nat \ {0}, NEW c \in CachesOf(S, n)
    PROVE  /\ c = [data |-> c.data, replacement |-> c.replacement]
           /\ c.data \in [0..(S - 1) -> [0..(n - 1) -> Nat \cup {Invalid}]]
           /\ c.replacement \in [0..(S - 1) -> Policies(n)]
           /\ DOMAIN c.data = 0..(S - 1) /\ Cardinality(DOMAIN c.data) = S
           /\ DOMAIN c.data[0] = 0..(n - 1)
  <1>1. /\ c = [data |-> c.data, replacement |-> c.replacement]
        /\ c.data \in [0..(S - 1) -> [0..(n - 1) -> Nat \cup {Invalid}]]
        /\ c.replacement \in [0..(S - 1) -> Policies(n)]
    BY DEF CachesOf
  <1>2. DOMAIN c.data = 0..(S - 1) /\ 0 \in 0..(S - 1)
    BY <1>1
  <1>3. DOMAIN c.data[0] = 0..(n - 1)
    BY <1>1, <1>2
  <1>4. Cardinality(0..(S - 1)) = S
    <2>1. ~(0 > S - 1) /\ (S - 1) - 0 + 1 = S /\ 0 \in Int /\ S - 1 \in Int
      OBVIOUS
    <2>2. QED
      BY <2>1, FS_Interval
  <1>5. QED
    BY <1>1, <1>2, <1>3, <1>4

\* lookup finds what is there.
LEMMA LookupFacts ==
    ASSUME NEW S \in Nat \ {0}, NEW n \in Nat \ {0}, NEW c \in CachesOf(S, n), NEW line \in Nat
    PROVE  /\ get_set(c, line) = line % S /\ line % S \in 0..(S - 1)
           /\ Has(c, line) <=> In(c, S, n, line)
           /\ Has(c, line) => /\ Handle(c, line) \in 0..(n - 1)
                              /\ c.data[line % S][Handle(c, line)] = line
  <1>1. get_set(c, line) = line % S
    BY CacheFields DEF get_set
  <1>2. lookup(c, line) = {w \in 0..(n - 1) : c.data[line % S][w] = line}
    BY <1>1, CacheFields DEF lookup
  <1>3. Has(c, line) <=> In(c, S, n, line)
    BY <1>2 DEF Has, In
  <1>4. Has(c, line) => Handle(c, line) \in lookup(c, line)
    BY DEF Has, Handle
  <1>5. line % S \in 0..(S - 1)
    OBVIOUS
  <1>6. QED
    BY <1>1, <1>2, <1>3, <1>4, <1>5

\* A hit tells the policy of the set and changes nothing else.
LEMMA HitCache ==
    ASSUME NEW S \in Nat \ {0}, NEW n \in Nat \ {0}, NEW c, Placed(c, S, n), NEW line \in Nat,
           Has(c, line)
    PROVE  /\ Placed(hit(c, line), S, n)
           /\ hit(c, line) = [data |-> c.data, replacement |->
                 [c.replacement EXCEPT ![line % S] =
                     Hit(c.replacement[line % S], Handle(c, line))]]
  <1> DEFINE s == line % S
             w == Handle(c, line)
             r == [c.replacement EXCEPT ![s] = Hit(c.replacement[s], w)]
  <1>1. c \in CachesOf(S, n)
    BY DEF Placed
  <1>2. get_set(c, line) = s /\ s \in 0..(S - 1) /\ w \in 0..(n - 1)
    BY <1>1, LookupFacts
  <1>3. /\ c = [data |-> c.data, replacement |-> c.replacement]
        /\ c.data \in [0..(S - 1) -> [0..(n - 1) -> Nat \cup {Invalid}]]
        /\ c.replacement \in [0..(S - 1) -> Policies(n)]
    BY <1>1, CacheFields
  <1> HIDE DEF s, w
  <1>4. hit(c, line) = [c EXCEPT !.replacement = r]
    BY <1>2, <1>3 DEF hit, w
  <1>5. hit(c, line) = [data |-> c.data, replacement |-> r]
    BY <1>3, <1>4
  <1>6. Hit(c.replacement[s], w) \in Policies(n)
    BY <1>2, <1>3, PolicySteps
  <1>7. r \in [0..(S - 1) -> Policies(n)]
    BY <1>2, <1>3, <1>6
  <1> HIDE DEF r
  <1>8. Placed(hit(c, line), S, n)
    BY <1>3, <1>5, <1>7 DEF Placed, CachesOf
  <1>9. QED
    BY <1>5, <1>8 DEF r, s, w

\* Emptying one place.
LEMMA InvalidateCache ==
    ASSUME NEW S \in Nat \ {0}, NEW n \in Nat \ {0}, NEW c, Placed(c, S, n), NEW line \in Nat
    PROVE  /\ Placed(invalidate(c, line), S, n)
           /\ invalidate(c, line).replacement = c.replacement
           /\ \A x \in Nat : In(invalidate(c, line), S, n, x) <=> In(c, S, n, x) /\ x # line
  <1> DEFINE s == line % S
             w == Handle(c, line)
             r == invalidate(c, line)
             d == [c.data EXCEPT ![s] = [@ EXCEPT ![w] = Invalid]]
  <1>1. c \in CachesOf(S, n)
    BY DEF Placed
  <1>2. /\ get_set(c, line) = s /\ s \in 0..(S - 1)
        /\ Has(c, line) <=> In(c, S, n, line)
        /\ Has(c, line) => w \in 0..(n - 1) /\ c.data[s][w] = line
    BY <1>1, LookupFacts
  <1>3. /\ c = [data |-> c.data, replacement |-> c.replacement]
        /\ c.data \in [0..(S - 1) -> [0..(n - 1) -> Nat \cup {Invalid}]]
        /\ c.replacement \in [0..(S - 1) -> Policies(n)]
    BY <1>1, CacheFields
  <1>4. CASE ~Has(c, line)
    <2>1. r = c
      BY <1>4 DEF invalidate
    <2>2. QED
      BY <1>2, <1>4, <2>1
  <1>5. CASE Has(c, line)
    <2>1. w \in 0..(n - 1) /\ c.data[s][w] = line
      BY <1>2, <1>5
    <2> HIDE DEF w, s
    <2>2. r = [data |-> d, replacement |-> c.replacement]
      <3>1. r = [c EXCEPT !.data = d]
        BY <1>2, <1>3, <1>5 DEF invalidate, w
      <3>2. QED
        BY <1>3, <3>1
    <2>3. /\ d \in [0..(S - 1) -> [0..(n - 1) -> Nat \cup {Invalid}]]
          /\ d[s][w] = Invalid
          /\ \A t \in 0..(S - 1), v \in 0..(n - 1) : t # s \/ v # w => d[t][v] = c.data[t][v]
      BY <1>2, <1>3, <2>1 DEF Invalid
    <2> HIDE DEF d
    <2>4. Placed(r, S, n)
      <3>1. r \in CachesOf(S, n)
        BY <1>3, <2>2, <2>3 DEF CachesOf
      <3>2. \A t \in 0..(S - 1), v \in 0..(n - 1) : d[t][v] = Invalid \/ d[t][v] = c.data[t][v]
        BY <2>3
      <3>3. ASSUME NEW t \in 0..(S - 1), NEW v \in 0..(n - 1), d[t][v] # Invalid PROVE d[t][v] % S = t
        <4>1. d[t][v] = c.data[t][v]
          BY <3>2, <3>3
        <4>2. QED
          BY <3>3, <4>1 DEF Placed
      <3>4. ASSUME NEW t \in 0..(S - 1), NEW u \in 0..(n - 1), NEW v \in 0..(n - 1),
                   d[t][u] = d[t][v], d[t][u] # Invalid
            PROVE  u = v
        <4>1. d[t][u] = c.data[t][u] /\ d[t][v] = c.data[t][v]
          BY <3>2, <3>4
        <4>2. QED
          BY <3>4, <4>1 DEF Placed
      <3>5. QED
        BY <2>2, <3>1, <3>3, <3>4 DEF Placed
    <2>5. ASSUME NEW x \in Nat PROVE In(r, S, n, x) <=> In(c, S, n, x) /\ x # line
      <3>1. x % S \in 0..(S - 1) /\ x # Invalid
        BY DEF Invalid
      <3>2. ASSUME NEW v \in 0..(n - 1), d[x % S][v] = x PROVE c.data[x % S][v] = x /\ x # line
        <4>1. x % S # s \/ v # w
          BY <2>3, <3>1, <3>2
        <4>2. d[x % S][v] = c.data[x % S][v]
          BY <2>3, <3>1, <4>1
        <4>3. x # line
          <5> SUFFICES ASSUME x = line PROVE FALSE
            OBVIOUS
          <5>1. x % S = s
            BY DEF s
          <5>2. v = w
            BY <1>2, <2>1, <3>1, <3>2, <4>2, <5>1 DEF Placed
          <5>3. QED
            BY <4>1, <5>1, <5>2
        <4>4. QED
          BY <3>2, <4>2, <4>3
      <3>3. ASSUME NEW v \in 0..(n - 1), c.data[x % S][v] = x, x # line PROVE d[x % S][v] = x
        <4>1. x % S # s \/ v # w
          BY <2>1, <3>3
        <4>2. QED
          BY <2>3, <3>1, <3>3, <4>1
      <3>4. r.data = d
        BY <2>2
      <3>5. QED
        BY <3>2, <3>3, <3>4 DEF In
    <2>6. QED
      BY <2>2, <2>4, <2>5
  <1>6. QED
    BY <1>4, <1>5

\* A line that is filled takes the place of the way that miss gives up.
LEMMA ReplaceCache ==
    ASSUME NEW S \in Nat \ {0}, NEW n \in Nat \ {0}, NEW c \in CachesOf(S, n), NEW line \in Nat
    PROVE  LET s == line % S
               m == Miss(c.replacement[s])
           IN  /\ s \in 0..(S - 1) /\ m.way \in 0..(n - 1) /\ m.policy \in Policies(n)
               /\ Replace(c, line)
                    = [cache |-> [data |-> [c.data EXCEPT ![s] = [@ EXCEPT ![m.way] = line]],
                                  replacement |-> [c.replacement EXCEPT ![s] = m.policy]],
                       victim |-> c.data[s][m.way]]
  <1> DEFINE s == line % S
             m == Miss(c.replacement[s])
             R(x) == [cache  |-> [c EXCEPT !.replacement[s] = x.policy, !.data[s][x.way] = line],
                      victim |-> c.data[s][x.way]]
  <1>1. get_set(c, line) = s /\ s \in 0..(S - 1)
    BY LookupFacts
  <1>2. /\ c = [data |-> c.data, replacement |-> c.replacement]
        /\ c.data \in [0..(S - 1) -> [0..(n - 1) -> Nat \cup {Invalid}]]
        /\ c.replacement \in [0..(S - 1) -> Policies(n)]
    BY CacheFields
  <1>3. m.way \in 0..(n - 1) /\ m.policy \in Policies(n)
    BY <1>1, <1>2, PolicySteps
  <1>4. Replace(c, line) = R(m)
    <2> DEFINE g == get_set(c, line)
               k == Miss(c.replacement[g])
               Q(x) == [cache  |-> [c EXCEPT !.replacement[g] = x.policy, !.data[g][x.way] = line],
                        victim |-> c.data[g][x.way]]
    <2>1. Replace(c, line) = Bind(k, LAMBDA x : Q(x))
      BY Zenon DEF Replace
    <2>2. Bind(k, LAMBDA x : Q(x)) = CHOOSE r \in {Q(x) : x \in {k}} : TRUE
      BY Zenon DEF Bind
    <2>3. Q(k) = R(m)
      BY <1>1, Zenon
    <2> HIDE DEF Q, k, R, m
    <2>4. {Q(x) : x \in {k}} = {Q(k)}
      BY Zenon
    <2>5. (CHOOSE r \in {Q(k)} : TRUE) = Q(k)
      BY OneOf
    <2>6. QED
      BY <2>1, <2>2, <2>3, <2>4, <2>5, Zenon
  <1> HIDE DEF m, s
  <1> DEFINE p == m.policy
             v == m.way
  <1>5. R(m) = [cache |-> [data |-> [c.data EXCEPT ![s] = [@ EXCEPT ![v] = line]],
                           replacement |-> [c.replacement EXCEPT ![s] = p]],
                victim |-> c.data[s][v]]
    <2>1. R(m) = [cache  |-> [c EXCEPT !.replacement[s] = p, !.data[s][v] = line],
                  victim |-> c.data[s][v]]
      OBVIOUS
    <2> HIDE DEF R, p, v
    <2>2. [c EXCEPT !.replacement[s] = p, !.data[s][v] = line]
            = [data |-> [c.data EXCEPT ![s] = [@ EXCEPT ![v] = line]],
               replacement |-> [c.replacement EXCEPT ![s] = p]]
      <3> DEFINE q == [c.replacement EXCEPT ![s] = p]
                 e == [c EXCEPT !.replacement = q]
      <3>1. [c EXCEPT !.replacement[s] = p, !.data[s][v] = line]
              = [e EXCEPT !.data = [e.data EXCEPT ![s] = [@ EXCEPT ![v] = line]]]
        OBVIOUS
      <3> HIDE DEF q
      <3>2. e = [data |-> c.data, replacement |-> q]
        BY <1>2
      <3> HIDE DEF e
      <3>3. [e EXCEPT !.data = [e.data EXCEPT ![s] = [@ EXCEPT ![v] = line]]]
              = [data |-> [c.data EXCEPT ![s] = [@ EXCEPT ![v] = line]], replacement |-> q]
        BY <3>2
      <3>4. QED
        BY <3>1, <3>3 DEF q
    <2>3. QED
      BY <2>1, <2>2
  <1>6. QED
    BY <1>1, <1>3, <1>4, <1>5, Zenon DEF m, s

\* Filling: the victim is another line of the set, and no line but that one is lost.
LEMMA FillCache ==
    ASSUME NEW S \in Nat \ {0}, NEW n \in Nat \ {0}, NEW c, Placed(c, S, n), NEW line \in Nat
    PROVE  LET f == fill_cache(c, line)
           IN  /\ Placed(f.cache, S, n) /\ f.victim \in Nat \cup {Invalid}
               /\ f.victim # Invalid => f.victim # line /\ In(c, S, n, f.victim)
               /\ \A x \in Nat : In(f.cache, S, n, x)
                                   <=> (In(c, S, n, x) \/ x = line) /\ x # f.victim
  <1> DEFINE f == fill_cache(c, line)
             s == line % S
             m == Miss(c.replacement[s])
             v == m.way
             d == [c.data EXCEPT ![s] = [@ EXCEPT ![v] = line]]
             r == [c.replacement EXCEPT ![s] = m.policy]
             y == c.data[s][v]
  <1>1. c \in CachesOf(S, n)
    BY DEF Placed
  <1>2. Has(c, line) <=> In(c, S, n, line)
    BY <1>1, LookupFacts
  <1>3. /\ c.data \in [0..(S - 1) -> [0..(n - 1) -> Nat \cup {Invalid}]]
        /\ c.replacement \in [0..(S - 1) -> Policies(n)]
    BY <1>1, CacheFields
  <1>4. CASE Has(c, line)
    <2>1. f = [cache |-> c, victim |-> Invalid]
      BY <1>4 DEF fill_cache
    <2>2. f.cache = c /\ f.victim = Invalid
      BY <2>1
    <2>3. \A x \in Nat : x # Invalid
      BY DEF Invalid
    <2> HIDE DEF f
    <2>4. QED
      BY <1>2, <1>4, <2>2, <2>3 DEF f
  <1>5. CASE ~Has(c, line)
    <2>1. /\ s \in 0..(S - 1) /\ v \in 0..(n - 1) /\ m.policy \in Policies(n)
          /\ f = [cache |-> [data |-> d, replacement |-> r], victim |-> y]
      BY <1>1, <1>5, ReplaceCache DEF fill_cache
    <2>2. f.cache = [data |-> d, replacement |-> r] /\ f.victim = y
      BY <2>1
    <2> HIDE DEF f, s, v, m
    <2>3. /\ d \in [0..(S - 1) -> [0..(n - 1) -> Nat \cup {Invalid}]]
          /\ d[s][v] = line
          /\ \A t \in 0..(S - 1), u \in 0..(n - 1) : t # s \/ u # v => d[t][u] = c.data[t][u]
          /\ y \in Nat \cup {Invalid}
      BY <1>3, <2>1
    <2>4. r \in [0..(S - 1) -> Policies(n)]
      BY <1>3, <2>1
    <2>5. \A u \in 0..(n - 1) : c.data[s][u] # line
      BY <1>2, <1>5 DEF In, s
    <2> HIDE DEF d, r
    <2>6. Placed(f.cache, S, n)
      <3>1. f.cache \in CachesOf(S, n) /\ f.cache.data = d
        BY <2>2, <2>3, <2>4 DEF CachesOf
      <3>2. line % S = s
        BY DEF s
      <3>3. ASSUME NEW t \in 0..(S - 1), NEW u \in 0..(n - 1), d[t][u] # Invalid PROVE d[t][u] % S = t
        <4>1. CASE t = s /\ u = v
          BY <2>3, <3>2, <4>1
        <4>2. CASE t # s \/ u # v
          <5>1. d[t][u] = c.data[t][u]
            BY <2>3, <4>2
          <5>2. QED
            BY <3>3, <5>1 DEF Placed
        <4>3. QED
          BY <4>1, <4>2
      <3>4. ASSUME NEW t \in 0..(S - 1), NEW u \in 0..(n - 1), NEW w \in 0..(n - 1),
                   d[t][u] = d[t][w], d[t][u] # Invalid
            PROVE  u = w
        <4>1. CASE t = s /\ (u = v \/ w = v)
          BY <2>3, <2>5, <3>4, <4>1
        <4>2. CASE t # s \/ (u # v /\ w # v)
          <5>1. d[t][u] = c.data[t][u] /\ d[t][w] = c.data[t][w]
            BY <2>3, <4>2
          <5>2. QED
            BY <3>4, <5>1 DEF Placed
        <4>3. QED
          BY <4>1, <4>2
      <3>5. QED
        BY <3>1, <3>3, <3>4 DEF Placed
    <2>7. y # Invalid => y # line /\ In(c, S, n, y)
      <3> SUFFICES ASSUME y # Invalid PROVE y # line /\ In(c, S, n, y)
        OBVIOUS
      <3>1. y % S = s /\ y # line
        BY <2>1, <2>5 DEF Placed
      <3>2. QED
        BY <2>1, <3>1 DEF In
    <2>8. ASSUME NEW x \in Nat
          PROVE  In(f.cache, S, n, x) <=> (In(c, S, n, x) \/ x = line) /\ x # y
      <3>1. f.cache.data = d
        BY <2>2
      <3>2. x % S \in 0..(S - 1) /\ x # Invalid /\ line % S = s
        BY DEF Invalid, s
      <3>3. ASSUME NEW u \in 0..(n - 1), d[x % S][u] = x
            PROVE  (In(c, S, n, x) \/ x = line) /\ x # y
        <4>1. CASE x % S = s /\ u = v
          BY <2>1, <2>3, <2>5, <3>2, <3>3, <4>1
        <4>2. CASE x % S # s \/ u # v
          <5>1. c.data[x % S][u] = x
            BY <2>3, <3>2, <3>3, <4>2
          <5>2. x # y
            <6> SUFFICES ASSUME x = y PROVE FALSE
              OBVIOUS
            <6>1. x % S = s
              BY <2>1, <3>2 DEF Placed
            <6>2. QED
              BY <2>1, <3>2, <4>2, <5>1, <6>1 DEF Placed
          <5>3. QED
            BY <5>1, <5>2 DEF In
        <4>3. QED
          BY <4>1, <4>2
      <3>4. ASSUME x = line, x # y PROVE \E u \in 0..(n - 1) : d[x % S][u] = x
        BY <2>1, <2>3, <3>2, <3>4
      <3>5. ASSUME In(c, S, n, x), x # y PROVE \E u \in 0..(n - 1) : d[x % S][u] = x
        <4>1. PICK u \in 0..(n - 1) : c.data[x % S][u] = x
          BY <3>5 DEF In
        <4>2. x % S # s \/ u # v
          BY <3>5, <4>1
        <4>3. d[x % S][u] = x
          BY <2>3, <3>2, <4>1, <4>2
        <4>4. QED
          BY <4>3
      <3>6. QED
        BY <3>1, <3>3, <3>4, <3>5 DEF In
    <2>9. QED
      BY <2>2, <2>3, <2>6, <2>7, <2>8 DEF f
  <1>6. QED
    BY <1>4, <1>5

-----------------------------------------------------------------------------
(* The loops.                                                              *)

\* Their bodies: one level of back_fill, one miss of check_cyclic_eviction; the others
\* are operators of the model.
BackFill(x, line, l) == IF get_inclusiveness(l) = "exclusive" THEN x ELSE fill(x, line, l)
Evict(x) == [policy |-> Miss(x.policy).policy, ways |-> x.ways \cup {Miss(x.policy).way}]

Pass(loop, x, e) ==
    CASE loop.name = "fill"      -> FillLevel(x, e)
      [] loop.name = "back_fill" -> BackFill(x, loop.line, e)
      [] loop.name = "evict"     -> Evict(x)
      [] loop.name = "region"    -> TakeLine(x, e)
      [] loop.name = "regions"   -> TakeRegion(x, e)

\* The accumulators of the first n steps of a loop.
Passes(g, loop, base, s, n) ==
    g = [i \in 0..n |-> IF i = 0 THEN base ELSE Pass(loop, g[i - 1], s[i])]

\* Every loop runs to its end.
LEMMA PassesExist ==
    ASSUME NEW loop, NEW base, NEW s
    PROVE  \A n \in Nat : \E g : Passes(g, loop, base, s, n)
  <1> DEFINE T == {n \in Nat : \E g : Passes(g, loop, base, s, n)}
  <1>1. 0 \in T
    <2> DEFINE h == [i \in 0..0 |-> base]
               e(i) == IF i = 0 THEN base ELSE Pass(loop, h[i - 1], s[i])
    <2>1. \A i \in 0..0 : e(i) = base
      <3>1. \A i \in 0..0 : i = 0
        OBVIOUS
      <3>2. QED
        BY <3>1, Zenon
    <2>2. h = [i \in 0..0 |-> e(i)]
      <3> HIDE DEF e
      <3>1. QED
        BY <2>1
    <2>3. Passes(h, loop, base, s, 0)
      <3> HIDE DEF h
      <3>1. QED
        BY <2>2, Zenon DEF Passes
    <2>4. QED
      BY <2>3
  <1>2. ASSUME NEW n \in Nat, n \in T PROVE n + 1 \in T
    <2>1. PICK g : Passes(g, loop, base, s, n)
      BY <1>2
    <2> DEFINE d(i) == IF i = 0 THEN base ELSE Pass(loop, g[i - 1], s[i])
               h == [i \in 0..(n + 1) |-> d(i)]
               e(i) == IF i = 0 THEN base ELSE Pass(loop, h[i - 1], s[i])
    <2>2. ASSUME NEW i \in 0..n PROVE h[i] = g[i]
      <3>1. g[i] = d(i)
        <4>1. g = [j \in 0..n |-> d(j)]
          BY <2>1, Zenon DEF Passes
        <4> HIDE DEF d
        <4>2. QED
          BY <4>1
      <3>2. h[i] = d(i)
        <4>1. i \in 0..(n + 1)
          OBVIOUS
        <4> HIDE DEF d
        <4>2. QED
          BY <4>1
      <3>3. QED
        BY <3>1, <3>2
    <2>3. \A i \in 0..(n + 1) : d(i) = e(i)
      <3> SUFFICES ASSUME NEW i \in 0..(n + 1), i # 0 PROVE h[i - 1] = g[i - 1]
        BY Zenon
      <3>1. i - 1 \in 0..n
        OBVIOUS
      <3>2. QED
        BY <2>2, <3>1
    <2>4. h = [i \in 0..(n + 1) |-> e(i)]
      <3> HIDE DEF d, e
      <3>1. QED
        BY <2>3
    <2>5. Passes(h, loop, base, s, n + 1)
      <3> HIDE DEF h
      <3>1. QED
        BY <2>4, Zenon DEF Passes
    <2>6. QED
      BY <2>5
  <1> HIDE DEF T
  <1>3. \A n \in Nat : n \in T
    BY <1>1, <1>2, Induct
  <1>4. QED
    BY <1>3 DEF T

\* The accumulators of a loop that ran: the first is base, the others come from the body.
Ran(F, loop, base, s) ==
    F[0] = base /\ \A i \in 1..Len(s) : F[i] = Pass(loop, F[i - 1], s[i])

\* A loop whose body is one of the bodies above.
Looped(loop, base, s) == Accumulate(LAMBDA x, e : Pass(loop, x, e), base, s)

\* A loop over s runs to its end, and its result is the last accumulator.
LEMMA LoopRan ==
    ASSUME NEW loop, NEW base, NEW s, Len(s) \in Nat
    PROVE  \E F : Ran(F, loop, base, s) /\ Looped(loop, base, s) = F[Len(s)]
  <1> DEFINE n == Len(s)
             Eq(g) == g = [i \in 0..n |-> IF i = 0 THEN base
                              ELSE Bind(g[i - 1], LAMBDA y : Pass(loop, y, s[i]))]
             F == CHOOSE g : Eq(g)
  <1>1. Looped(loop, base, s) = F[n]
    BY Zenon DEF Looped, Accumulate
  <1>2. \A x, e : Bind(x, LAMBDA y : Pass(loop, y, e)) = Pass(loop, x, e)
    <2>1. \A x, e : {Pass(loop, y, e) : y \in {x}} = {Pass(loop, x, e)}
      BY Zenon
    <2>2. QED
      BY <2>1 DEF Bind
  <1>3. PICK g : Passes(g, loop, base, s, n)
    BY PassesExist
  <1>4. Eq(g)
    <2> DEFINE d(i) == IF i = 0 THEN base ELSE Pass(loop, g[i - 1], s[i])
               e(i) == IF i = 0 THEN base ELSE Bind(g[i - 1], LAMBDA y : Pass(loop, y, s[i]))
    <2>1. \A i \in 0..n : d(i) = e(i)
      BY <1>2, Zenon
    <2>2. g = [i \in 0..n |-> d(i)]
      BY <1>3, Zenon DEF Passes
    <2> HIDE DEF d, e
    <2>3. g = [i \in 0..n |-> e(i)]
      BY <2>1, <2>2
    <2>4. QED
      BY <2>3, Zenon DEF e
  <1>5. F = CHOOSE h : Eq(h)
    OBVIOUS
  <1> HIDE DEF F, Eq
  <1>6. Eq(F)
    BY <1>4, <1>5, Zenon
  <1>7. Ran(F, loop, base, s)
    <2> DEFINE e(i) == IF i = 0 THEN base ELSE Bind(F[i - 1], LAMBDA y : Pass(loop, y, s[i]))
    <2>1. F = [i \in 0..n |-> e(i)]
      BY <1>6, Zenon DEF Eq
    <2>2. \A i \in 0..n : F[i] = e(i)
      <3> HIDE DEF e
      <3>1. QED
        BY <2>1
    <2>3. 0 \in 0..n /\ \A i \in 1..n : i \in 0..n /\ i # 0
      OBVIOUS
    <2> HIDE DEF n
    <2>4. F[0] = base
      BY <2>2, <2>3, Zenon
    <2>5. ASSUME NEW i \in 1..n PROVE F[i] = Pass(loop, F[i - 1], s[i])
      <3>1. F[i] = e(i) /\ i # 0
        BY <2>2, <2>3, Zenon
      <3>2. F[i] = Bind(F[i - 1], LAMBDA y : Pass(loop, y, s[i]))
        BY <3>1, Zenon
      <3>3. QED
        BY <1>2, <3>2, Zenon
    <2>6. QED
      BY <2>4, <2>5 DEF Ran, n
  <1>8. QED
    BY <1>1, <1>7

\* The loop of fill.
LEMMA FillLoop ==
    ASSUME NEW base, NEW s
    PROVE  Accumulate(FillLevel, base, s)
             = Looped([name |-> "fill"], base, s)
  <1> DEFINE n == Len(s)
             loop == [name |-> "fill"]
             P(g) == g = [i \in 0..n |-> IF i = 0 THEN base
                             ELSE Bind(g[i - 1], LAMBDA y : FillLevel(y, s[i]))]
             Q(g) == g = [i \in 0..n |-> IF i = 0 THEN base
                             ELSE Bind(g[i - 1], LAMBDA y : Pass(loop, y, s[i]))]
  <1>1. \A x, e : FillLevel(x, e) = Pass(loop, x, e)
    BY DEF Pass
  <1> HIDE DEF loop
  <1>2. \A x, e : /\ Bind(x, LAMBDA y : FillLevel(y, e)) = Pass(loop, x, e)
                  /\ Bind(x, LAMBDA y : Pass(loop, y, e)) = Pass(loop, x, e)
    <2>1. \A x, e : /\ {FillLevel(y, e) : y \in {x}} = {Pass(loop, x, e)}
                    /\ {Pass(loop, y, e) : y \in {x}} = {Pass(loop, x, e)}
      BY <1>1, Zenon
    <2>2. ASSUME NEW x, NEW e
          PROVE  /\ Bind(x, LAMBDA y : FillLevel(y, e)) = Pass(loop, x, e)
                 /\ Bind(x, LAMBDA y : Pass(loop, y, e)) = Pass(loop, x, e)
      <3>1. Bind(x, LAMBDA y : FillLevel(y, e)) = CHOOSE r \in {Pass(loop, x, e)} : TRUE
        BY <2>1, Zenon DEF Bind
      <3>2. Bind(x, LAMBDA y : Pass(loop, y, e)) = CHOOSE r \in {Pass(loop, x, e)} : TRUE
        BY <2>1, Zenon DEF Bind
      <3>3. QED
        BY <3>1, <3>2, OneOf
    <2>3. QED
      BY <2>2, Zenon
  <1>3. ASSUME NEW g PROVE P(g) <=> Q(g)
    <2> DEFINE d(i) == IF i = 0 THEN base ELSE Bind(g[i - 1], LAMBDA y : FillLevel(y, s[i]))
               e(i) == IF i = 0 THEN base ELSE Bind(g[i - 1], LAMBDA y : Pass(loop, y, s[i]))
    <2>1. ASSUME NEW i PROVE d(i) = e(i)
      <3>1. CASE i = 0
        BY <3>1
      <3>2. CASE i # 0
        <4>1. d(i) = Pass(loop, g[i - 1], s[i])
          BY <1>2, <3>2, Zenon
        <4>2. e(i) = Pass(loop, g[i - 1], s[i])
          BY <1>2, <3>2, Zenon
        <4>3. QED
          BY <4>1, <4>2
      <3>3. QED
        BY <3>1, <3>2
    <2> HIDE DEF d, e
    <2>2. [i \in 0..n |-> d(i)] = [i \in 0..n |-> e(i)]
      BY <2>1
    <2>3. QED
      BY <2>2, Zenon DEF d, e
  <1>4. (CHOOSE g : P(g)) = (CHOOSE g : Q(g))
    <2> HIDE DEF P, Q
    <2>1. QED
      BY <1>3, Zenon
  <1>5. /\ Accumulate(FillLevel, base, s) = (CHOOSE g : P(g))[n]
        /\ Looped(loop, base, s) = (CHOOSE g : Q(g))[n]
    BY Zenon DEF Accumulate, Looped
  <1> HIDE DEF P, Q
  <1>6. QED
    BY <1>4, <1>5, Zenon DEF loop

\* The loop of back_fill.
LEMMA BackFillLoop ==
    ASSUME NEW line, NEW base, NEW s
    PROVE  Accumulate(LAMBDA acc, l : IF get_inclusiveness(l) = "exclusive" THEN acc
                                       ELSE fill(acc, line, l), base, s)
             = Looped([name |-> "back_fill", line |-> line], base, s)
  <1> DEFINE n == Len(s)
             loop == [name |-> "back_fill", line |-> line]
             P(g) == g = [i \in 0..n |-> IF i = 0 THEN base
                             ELSE Bind(g[i - 1], LAMBDA y : BackFill(y, line, s[i]))]
             Q(g) == g = [i \in 0..n |-> IF i = 0 THEN base
                             ELSE Bind(g[i - 1], LAMBDA y : Pass(loop, y, s[i]))]
  <1>1. \A x, e : BackFill(x, line, e) = Pass(loop, x, e)
    BY DEF Pass, BackFill
  <1> HIDE DEF loop
  <1>2. \A x, e : /\ Bind(x, LAMBDA y : BackFill(y, line, e)) = Pass(loop, x, e)
                  /\ Bind(x, LAMBDA y : Pass(loop, y, e)) = Pass(loop, x, e)
    <2>1. \A x, e : /\ {BackFill(y, line, e) : y \in {x}} = {Pass(loop, x, e)}
                    /\ {Pass(loop, y, e) : y \in {x}} = {Pass(loop, x, e)}
      BY <1>1, Zenon
    <2>2. ASSUME NEW x, NEW e
          PROVE  /\ Bind(x, LAMBDA y : BackFill(y, line, e)) = Pass(loop, x, e)
                 /\ Bind(x, LAMBDA y : Pass(loop, y, e)) = Pass(loop, x, e)
      <3>1. Bind(x, LAMBDA y : BackFill(y, line, e)) = CHOOSE r \in {Pass(loop, x, e)} : TRUE
        BY <2>1, Zenon DEF Bind
      <3>2. Bind(x, LAMBDA y : Pass(loop, y, e)) = CHOOSE r \in {Pass(loop, x, e)} : TRUE
        BY <2>1, Zenon DEF Bind
      <3>3. QED
        BY <3>1, <3>2, OneOf
    <2>3. QED
      BY <2>2, Zenon
  <1>3. ASSUME NEW g PROVE P(g) <=> Q(g)
    <2> DEFINE d(i) == IF i = 0 THEN base ELSE Bind(g[i - 1], LAMBDA y : BackFill(y, line, s[i]))
               e(i) == IF i = 0 THEN base ELSE Bind(g[i - 1], LAMBDA y : Pass(loop, y, s[i]))
    <2>1. ASSUME NEW i PROVE d(i) = e(i)
      <3>1. CASE i = 0
        BY <3>1
      <3>2. CASE i # 0
        <4>1. d(i) = Pass(loop, g[i - 1], s[i])
          BY <1>2, <3>2, Zenon
        <4>2. e(i) = Pass(loop, g[i - 1], s[i])
          BY <1>2, <3>2, Zenon
        <4>3. QED
          BY <4>1, <4>2
      <3>3. QED
        BY <3>1, <3>2
    <2> HIDE DEF d, e
    <2>2. [i \in 0..n |-> d(i)] = [i \in 0..n |-> e(i)]
      BY <2>1
    <2>3. QED
      BY <2>2, Zenon DEF d, e
  <1>4. (CHOOSE g : P(g)) = (CHOOSE g : Q(g))
    <2> HIDE DEF P, Q
    <2>1. QED
      BY <1>3, Zenon
  <1>5. /\ Accumulate(LAMBDA acc, l : IF get_inclusiveness(l) = "exclusive" THEN acc
                                      ELSE fill(acc, line, l), base, s)
             = (CHOOSE g : P(g))[n]
        /\ Looped(loop, base, s) = (CHOOSE g : Q(g))[n]
    BY Zenon DEF Accumulate, Looped, BackFill
  <1> HIDE DEF P, Q
  <1>6. QED
    BY <1>4, <1>5, Zenon DEF loop

\* The loop over the lines of a region.
LEMMA LinesLoop ==
    ASSUME NEW base, NEW s
    PROVE  Accumulate(TakeLine, base, s)
             = Looped([name |-> "region"], base, s)
  <1> DEFINE n == Len(s)
             loop == [name |-> "region"]
             P(g) == g = [i \in 0..n |-> IF i = 0 THEN base
                             ELSE Bind(g[i - 1], LAMBDA y : TakeLine(y, s[i]))]
             Q(g) == g = [i \in 0..n |-> IF i = 0 THEN base
                             ELSE Bind(g[i - 1], LAMBDA y : Pass(loop, y, s[i]))]
  <1>1. \A x, e : TakeLine(x, e) = Pass(loop, x, e)
    BY DEF Pass
  <1> HIDE DEF loop
  <1>2. \A x, e : /\ Bind(x, LAMBDA y : TakeLine(y, e)) = Pass(loop, x, e)
                  /\ Bind(x, LAMBDA y : Pass(loop, y, e)) = Pass(loop, x, e)
    <2>1. \A x, e : /\ {TakeLine(y, e) : y \in {x}} = {Pass(loop, x, e)}
                    /\ {Pass(loop, y, e) : y \in {x}} = {Pass(loop, x, e)}
      BY <1>1, Zenon
    <2>2. ASSUME NEW x, NEW e
          PROVE  /\ Bind(x, LAMBDA y : TakeLine(y, e)) = Pass(loop, x, e)
                 /\ Bind(x, LAMBDA y : Pass(loop, y, e)) = Pass(loop, x, e)
      <3>1. Bind(x, LAMBDA y : TakeLine(y, e)) = CHOOSE r \in {Pass(loop, x, e)} : TRUE
        BY <2>1, Zenon DEF Bind
      <3>2. Bind(x, LAMBDA y : Pass(loop, y, e)) = CHOOSE r \in {Pass(loop, x, e)} : TRUE
        BY <2>1, Zenon DEF Bind
      <3>3. QED
        BY <3>1, <3>2, OneOf
    <2>3. QED
      BY <2>2, Zenon
  <1>3. ASSUME NEW g PROVE P(g) <=> Q(g)
    <2> DEFINE d(i) == IF i = 0 THEN base ELSE Bind(g[i - 1], LAMBDA y : TakeLine(y, s[i]))
               e(i) == IF i = 0 THEN base ELSE Bind(g[i - 1], LAMBDA y : Pass(loop, y, s[i]))
    <2>1. ASSUME NEW i PROVE d(i) = e(i)
      <3>1. CASE i = 0
        BY <3>1
      <3>2. CASE i # 0
        <4>1. d(i) = Pass(loop, g[i - 1], s[i])
          BY <1>2, <3>2, Zenon
        <4>2. e(i) = Pass(loop, g[i - 1], s[i])
          BY <1>2, <3>2, Zenon
        <4>3. QED
          BY <4>1, <4>2
      <3>3. QED
        BY <3>1, <3>2
    <2> HIDE DEF d, e
    <2>2. [i \in 0..n |-> d(i)] = [i \in 0..n |-> e(i)]
      BY <2>1
    <2>3. QED
      BY <2>2, Zenon DEF d, e
  <1>4. (CHOOSE g : P(g)) = (CHOOSE g : Q(g))
    <2> HIDE DEF P, Q
    <2>1. QED
      BY <1>3, Zenon
  <1>5. /\ Accumulate(TakeLine, base, s) = (CHOOSE g : P(g))[n]
        /\ Looped(loop, base, s) = (CHOOSE g : Q(g))[n]
    BY Zenon DEF Accumulate, Looped
  <1> HIDE DEF P, Q
  <1>6. QED
    BY <1>4, <1>5, Zenon DEF loop

\* The loop over the regions.
LEMMA RegionsLoop ==
    ASSUME NEW base, NEW s
    PROVE  Accumulate(TakeRegion, base, s)
             = Looped([name |-> "regions"], base, s)
  <1> DEFINE n == Len(s)
             loop == [name |-> "regions"]
             P(g) == g = [i \in 0..n |-> IF i = 0 THEN base
                             ELSE Bind(g[i - 1], LAMBDA y : TakeRegion(y, s[i]))]
             Q(g) == g = [i \in 0..n |-> IF i = 0 THEN base
                             ELSE Bind(g[i - 1], LAMBDA y : Pass(loop, y, s[i]))]
  <1>1. \A x, e : TakeRegion(x, e) = Pass(loop, x, e)
    BY DEF Pass
  <1> HIDE DEF loop
  <1>2. \A x, e : /\ Bind(x, LAMBDA y : TakeRegion(y, e)) = Pass(loop, x, e)
                  /\ Bind(x, LAMBDA y : Pass(loop, y, e)) = Pass(loop, x, e)
    <2>1. \A x, e : /\ {TakeRegion(y, e) : y \in {x}} = {Pass(loop, x, e)}
                    /\ {Pass(loop, y, e) : y \in {x}} = {Pass(loop, x, e)}
      BY <1>1, Zenon
    <2>2. ASSUME NEW x, NEW e
          PROVE  /\ Bind(x, LAMBDA y : TakeRegion(y, e)) = Pass(loop, x, e)
                 /\ Bind(x, LAMBDA y : Pass(loop, y, e)) = Pass(loop, x, e)
      <3>1. Bind(x, LAMBDA y : TakeRegion(y, e)) = CHOOSE r \in {Pass(loop, x, e)} : TRUE
        BY <2>1, Zenon DEF Bind
      <3>2. Bind(x, LAMBDA y : Pass(loop, y, e)) = CHOOSE r \in {Pass(loop, x, e)} : TRUE
        BY <2>1, Zenon DEF Bind
      <3>3. QED
        BY <3>1, <3>2, OneOf
    <2>3. QED
      BY <2>2, Zenon
  <1>3. ASSUME NEW g PROVE P(g) <=> Q(g)
    <2> DEFINE d(i) == IF i = 0 THEN base ELSE Bind(g[i - 1], LAMBDA y : TakeRegion(y, s[i]))
               e(i) == IF i = 0 THEN base ELSE Bind(g[i - 1], LAMBDA y : Pass(loop, y, s[i]))
    <2>1. ASSUME NEW i PROVE d(i) = e(i)
      <3>1. CASE i = 0
        BY <3>1
      <3>2. CASE i # 0
        <4>1. d(i) = Pass(loop, g[i - 1], s[i])
          BY <1>2, <3>2, Zenon
        <4>2. e(i) = Pass(loop, g[i - 1], s[i])
          BY <1>2, <3>2, Zenon
        <4>3. QED
          BY <4>1, <4>2
      <3>3. QED
        BY <3>1, <3>2
    <2> HIDE DEF d, e
    <2>2. [i \in 0..n |-> d(i)] = [i \in 0..n |-> e(i)]
      BY <2>1
    <2>3. QED
      BY <2>2, Zenon DEF d, e
  <1>4. (CHOOSE g : P(g)) = (CHOOSE g : Q(g))
    <2> HIDE DEF P, Q
    <2>1. QED
      BY <1>3, Zenon
  <1>5. /\ Accumulate(TakeRegion, base, s) = (CHOOSE g : P(g))[n]
        /\ Looped(loop, base, s) = (CHOOSE g : Q(g))[n]
    BY Zenon DEF Accumulate, Looped
  <1> HIDE DEF P, Q
  <1>6. QED
    BY <1>4, <1>5, Zenon DEF loop

\* The loop of check_cyclic_eviction.
LEMMA EvictLoop ==
    ASSUME NEW base, NEW s
    PROVE  Accumulate(LAMBDA acc, i : [policy |-> Miss(acc.policy).policy,
                                       ways   |-> acc.ways \cup {Miss(acc.policy).way}], base, s)
             = Looped([name |-> "evict"], base, s)
  <1> DEFINE n == Len(s)
             loop == [name |-> "evict"]
             P(g) == g = [i \in 0..n |-> IF i = 0 THEN base
                             ELSE Bind(g[i - 1], LAMBDA y : Evict(y))]
             Q(g) == g = [i \in 0..n |-> IF i = 0 THEN base
                             ELSE Bind(g[i - 1], LAMBDA y : Pass(loop, y, s[i]))]
  <1>1. \A x, e : Evict(x) = Pass(loop, x, e)
    BY DEF Pass, Evict
  <1> HIDE DEF loop
  <1>2. \A x, e : /\ Bind(x, LAMBDA y : Evict(y)) = Pass(loop, x, e)
                  /\ Bind(x, LAMBDA y : Pass(loop, y, e)) = Pass(loop, x, e)
    <2>1. \A x, e : /\ {Evict(y) : y \in {x}} = {Pass(loop, x, e)}
                    /\ {Pass(loop, y, e) : y \in {x}} = {Pass(loop, x, e)}
      BY <1>1, Zenon
    <2>2. ASSUME NEW x, NEW e
          PROVE  /\ Bind(x, LAMBDA y : Evict(y)) = Pass(loop, x, e)
                 /\ Bind(x, LAMBDA y : Pass(loop, y, e)) = Pass(loop, x, e)
      <3>1. Bind(x, LAMBDA y : Evict(y)) = CHOOSE r \in {Pass(loop, x, e)} : TRUE
        BY <2>1, Zenon DEF Bind
      <3>2. Bind(x, LAMBDA y : Pass(loop, y, e)) = CHOOSE r \in {Pass(loop, x, e)} : TRUE
        BY <2>1, Zenon DEF Bind
      <3>3. QED
        BY <3>1, <3>2, OneOf
    <2>3. QED
      BY <2>2, Zenon
  <1>3. ASSUME NEW g PROVE P(g) <=> Q(g)
    <2> DEFINE d(i) == IF i = 0 THEN base ELSE Bind(g[i - 1], LAMBDA y : Evict(y))
               e(i) == IF i = 0 THEN base ELSE Bind(g[i - 1], LAMBDA y : Pass(loop, y, s[i]))
    <2>1. ASSUME NEW i PROVE d(i) = e(i)
      <3>1. CASE i = 0
        BY <3>1
      <3>2. CASE i # 0
        <4>1. d(i) = Pass(loop, g[i - 1], s[i])
          BY <1>2, <3>2, Zenon
        <4>2. e(i) = Pass(loop, g[i - 1], s[i])
          BY <1>2, <3>2, Zenon
        <4>3. QED
          BY <4>1, <4>2
      <3>3. QED
        BY <3>1, <3>2
    <2> HIDE DEF d, e
    <2>2. [i \in 0..n |-> d(i)] = [i \in 0..n |-> e(i)]
      BY <2>1
    <2>3. QED
      BY <2>2, Zenon DEF d, e
  <1>4. (CHOOSE g : P(g)) = (CHOOSE g : Q(g))
    <2> HIDE DEF P, Q
    <2>1. QED
      BY <1>3, Zenon
  <1>5. /\ Accumulate(LAMBDA acc, i : [policy |-> Miss(acc.policy).policy,
                                       ways   |-> acc.ways \cup {Miss(acc.policy).way}], base, s) = (CHOOSE g : P(g))[n]
        /\ Looped(loop, base, s) = (CHOOSE g : Q(g))[n]
    BY Zenon DEF Accumulate, Looped, Evict
  <1> HIDE DEF P, Q
  <1>6. QED
    BY <1>4, <1>5, Zenon DEF loop

-----------------------------------------------------------------------------
(* The hierarchy.                                                          *)

\* Every level has one of the policies FIFO, LRU and PLRU.
Usual(m) == \A i \in 1..Len(m.shape) : \E n \in Nat \ {0} : \E name \in Known(n) :
               m.shape[i].policy = make_replacement_policy(name, n)
Built == memory \in Memories /\ Usual(memory)

\* The numbers of a level.
Dimensions(l) ==
    /\ Sets(l) \in Nat \ {0} /\ WaysOf(l) \in Nat \ {0}
    /\ memory.shape[l + 1].policy \in Policies(WaysOf(l)) /\ Doubling(WaysOf(l))

LEMMA Shape ==
    ASSUME Built
    PROVE  levels \in Nat \ {0} /\ \A l \in 0..(levels - 1) : Dimensions(l)
  <1>1. levels \in Nat \ {0}
    BY ShapeAssumption DEF Built, levels
  <1>2. ASSUME NEW l \in 0..(levels - 1) PROVE Dimensions(l)
    <2>1. l + 1 \in 1..levels
      BY <1>1
    <2>2. PICK n \in Nat \ {0} : \E name \in Known(n) :
                   memory.shape[l + 1].policy = make_replacement_policy(name, n)
      BY <2>1 DEF Built, Usual, levels
    <2>3. PICK name \in Known(n) : memory.shape[l + 1].policy = make_replacement_policy(name, n)
      BY <2>2
    <2>4. WaysOf(l) = n
      BY <2>3, MadeWays DEF WaysOf
    <2>5. PICK b \in Nat : b = memory.shape[l + 1].index_bits
      BY <2>1, ShapeAssumption DEF Built, levels
    <2>6. \A k \in 0..(b + n) : 2^(k + 1) = 2 * 2^k
      BY <2>1, <2>4, <2>5, PowersAssumption DEF Built, levels, WaysOf
    <2>7. Doubling(n) /\ Doubling(b)
      <3>1. \A k \in 0..n : k \in 0..(b + n)
        OBVIOUS
      <3>2. \A k \in 0..b : k \in 0..(b + n)
        OBVIOUS
      <3>3. QED
        BY <2>6, <3>1, <3>2, PowersAssumption DEF Doubling
    <2>8. Sets(l) \in Nat \ {0}
      <3>1. b \in 0..(b + 1)
        OBVIOUS
      <3>2. 2^b \in Nat \ {0}
        BY <2>7, <3>1, Powers
      <3>3. QED
        BY <2>5, <3>2 DEF Sets
    <2>9. memory.shape[l + 1].policy \in Policies(n)
      BY <2>3, <2>7, Made
    <2>10. QED
      BY <2>4, <2>7, <2>8, <2>9 DEF Dimensions
  <1>3. QED
    BY <1>1, <1>2

\* The caches of all levels, every line in its set and there once.
Hierarchy(c) == /\ c = [i \in 1..levels |-> c[i]]
                /\ \A l \in 0..(levels - 1) : Placed(c[l + 1], Sets(l), WaysOf(l))
Holds(c, l, y) == In(c[l + 1], Sets(l), WaysOf(l), y)

\* An accumulator of fill.
Filling(x) == /\ Hierarchy(x.caches) /\ x.line \in Nat \cup {Invalid}
              /\ x.should_back_invalidate \in BOOLEAN

\* Nothing happened to the levels below l, or they lost the line y.
Below(c, d, l, y, may) ==
    \/ \A k \in 0..(l - 1) : d[k + 1] = c[k + 1]
    \/ /\ may /\ y # Invalid /\ get_inclusiveness(l) = "inclusive"
       /\ \A k \in 0..(l - 1) : \A z \in Nat : Holds(d, k, z) <=> Holds(c, k, z) /\ z # y

\* What a level of fill does with a line: the level takes it and gives up another.
Filled(x, r, l) ==
    LET f == fill_cache(x.caches[l + 1], x.line)
    IN  /\ r.line = f.victim /\ r.caches[l + 1] = f.cache /\ ~r.should_back_invalidate
        /\ r.line # x.line /\ (r.line # Invalid => Holds(x.caches, l, r.line))
        /\ \A y \in Nat : Holds(r.caches, l, y)
                            <=> (Holds(x.caches, l, y) \/ y = x.line) /\ y # r.line
        /\ \A k \in (l + 1)..(levels - 1) : r.caches[k + 1] = x.caches[k + 1]
        /\ Below(x.caches, r.caches, l, r.line, x.should_back_invalidate)

LEMMA LevelFilled ==
    ASSUME Built, NEW x, Filling(x), NEW l \in 0..(levels - 1)
    PROVE  LET r == FillLevel(x, l)
           IN  /\ Filling(r)
               /\ x.line = Invalid => r = x
               /\ x.line # Invalid => Filled(x, r, l)
  <1> DEFINE r == FillLevel(x, l)
             f == fill_cache(x.caches[l + 1], x.line)
             c == x.caches
             d == [c EXCEPT ![l + 1] = f.cache]
             may == /\ f.victim # Invalid /\ x.should_back_invalidate
                    /\ l > 0 /\ get_inclusiveness(l) = "inclusive"
             e == IF may THEN back_invalidate(d, f.victim, l - 1) ELSE d
  <1>1. levels \in Nat \ {0} /\ \A k \in 0..(levels - 1) : Dimensions(k)
    BY Shape
  <1>2. Hierarchy(c) /\ x.line \in Nat \cup {Invalid} /\ x.should_back_invalidate \in BOOLEAN
    BY DEF Filling
  <1>3. CASE x.line = Invalid
    BY <1>3 DEF FillLevel
  <1>4. CASE x.line # Invalid
    <2>1. r = [caches |-> e, line |-> f.victim, should_back_invalidate |-> FALSE]
      <3> DEFINE Q(g) == [caches |-> IF /\ g.victim # Invalid /\ x.should_back_invalidate
                                        /\ l > 0 /\ get_inclusiveness(l) = "inclusive"
                                     THEN back_invalidate([c EXCEPT ![l + 1] = g.cache],
                                                          g.victim, l - 1)
                                     ELSE [c EXCEPT ![l + 1] = g.cache],
                          line |-> g.victim, should_back_invalidate |-> FALSE]
      <3>1. r = Bind(f, LAMBDA g : Q(g))
        <4>1. FillLevel(x, l) = IF x.line = Invalid THEN x ELSE Bind(f, LAMBDA g : Q(g))
          BY Zenon DEF FillLevel
        <4>2. QED
          BY <1>4, <4>1, Zenon
      <3>2. Bind(f, LAMBDA g : Q(g)) = CHOOSE z \in {Q(g) : g \in {f}} : TRUE
        BY Zenon DEF Bind
      <3>3. Q(f) = [caches |-> e, line |-> f.victim, should_back_invalidate |-> FALSE]
        BY Zenon
      <3> HIDE DEF Q, f, e, r
      <3>4. {Q(g) : g \in {f}} = {Q(f)}
        BY Zenon
      <3>5. (CHOOSE z \in {Q(f)} : TRUE) = Q(f)
        BY OneOf
      <3>6. QED
        BY <3>1, <3>2, <3>3, <3>4, <3>5, Zenon
    <2>2. r.caches = e /\ r.line = f.victim /\ r.should_back_invalidate = FALSE
      BY <2>1
    <2> HIDE DEF r
    <2>3. l + 1 \in 1..levels /\ x.line \in Nat
      BY <1>1, <1>2, <1>4
    <2>4. Sets(l) \in Nat \ {0} /\ WaysOf(l) \in Nat \ {0}
      BY <1>1, Zenon DEF Dimensions
    <2>5. Placed(c[l + 1], Sets(l), WaysOf(l))
      BY <1>2, Zenon DEF Hierarchy
    <2>6. /\ Placed(f.cache, Sets(l), WaysOf(l)) /\ f.victim \in Nat \cup {Invalid}
          /\ f.victim # Invalid => f.victim # x.line /\ Holds(c, l, f.victim)
          /\ \A y \in Nat : In(f.cache, Sets(l), WaysOf(l), y)
                              <=> (Holds(c, l, y) \/ y = x.line) /\ y # f.victim
      <3>1. PICK S, n, z, y : S = Sets(l) /\ n = WaysOf(l) /\ z = c[l + 1] /\ y = x.line
        OBVIOUS
      <3>2. f = fill_cache(z, y)
        BY <3>1
      <3> HIDE DEF f, c
      <3>3. S \in Nat \ {0} /\ n \in Nat \ {0} /\ Placed(z, S, n) /\ y \in Nat
        BY <2>3, <2>4, <2>5, <3>1, Zenon
      <3>4. /\ Placed(f.cache, S, n) /\ f.victim \in Nat \cup {Invalid}
            /\ (f.victim # Invalid => f.victim # y /\ In(z, S, n, f.victim))
            /\ \A t \in Nat : In(f.cache, S, n, t) <=> (In(z, S, n, t) \/ t = y) /\ t # f.victim
        <4>1. LET g == fill_cache(z, y)
              IN  /\ Placed(g.cache, S, n) /\ g.victim \in Nat \cup {Invalid}
                  /\ (g.victim # Invalid => g.victim # y /\ In(z, S, n, g.victim))
                  /\ \A t \in Nat : In(g.cache, S, n, t)
                                      <=> (In(z, S, n, t) \/ t = y) /\ t # g.victim
          BY <3>3, FillCache
        <4>2. QED
          BY <3>2, <4>1, Zenon
      <3>5. QED
        BY <3>1, <3>4, Zenon DEF Holds
    <2> HIDE DEF f, c
    <2>7. /\ d = [i \in 1..levels |-> d[i]] /\ d[l + 1] = f.cache
          /\ \A i \in 1..levels : i # l + 1 => d[i] = c[i]
      <3>1. c = [i \in 1..levels |-> c[i]]
        BY <1>2, Zenon DEF Hierarchy
      <3>2. QED
        BY <2>3, <3>1
    <2> HIDE DEF d
    <2>8. ASSUME NEW k \in 0..(levels - 1)
          PROVE  /\ k + 1 \in 1..levels /\ Sets(k) \in Nat \ {0} /\ WaysOf(k) \in Nat \ {0}
                 /\ Placed(d[k + 1], Sets(k), WaysOf(k))
      <3>1. k + 1 \in 1..levels /\ (k + 1 = l + 1 => k = l)
        BY <1>1
      <3>2. Sets(k) \in Nat \ {0} /\ WaysOf(k) \in Nat \ {0}
        BY <1>1, Zenon DEF Dimensions
      <3>3. Placed(c[k + 1], Sets(k), WaysOf(k))
        BY <1>2, Zenon DEF Hierarchy
      <3>4. CASE k = l
        BY <2>6, <2>7, <3>1, <3>2, <3>4, Zenon
      <3>5. CASE k # l
        BY <2>7, <3>1, <3>2, <3>3, <3>5, Zenon
      <3>6. QED
        BY <3>4, <3>5
    <2>9. CASE ~may
      <3>1. e = d
        BY <2>9
      <3>2. Hierarchy(e)
        BY <2>7, <2>8, <3>1, Zenon DEF Hierarchy
      <3>3. /\ \A k \in (l + 1)..(levels - 1) : e[k + 1] = c[k + 1]
            /\ \A k \in 0..(l - 1) : e[k + 1] = c[k + 1]
            /\ e[l + 1] = f.cache
        <4>1. \A k \in (l + 1)..(levels - 1) : k + 1 \in 1..levels /\ k + 1 # l + 1
          BY <1>1
        <4>2. \A k \in 0..(l - 1) : k + 1 \in 1..levels /\ k + 1 # l + 1
          BY <1>1
        <4>3. QED
          BY <2>7, <3>1, <4>1, <4>2
      <3> HIDE DEF e, may
      <3>4. Below(c, e, l, f.victim, x.should_back_invalidate)
        BY <3>3 DEF Below
      <3>5. \A y \in Nat : Holds(e, l, y) <=> (Holds(c, l, y) \/ y = x.line) /\ y # f.victim
        BY <2>6, <3>3, Zenon DEF Holds
      <3>6. f.victim # x.line
        BY <1>4, <2>6
      <3>7. Filling(r)
        BY <2>2, <2>6, <3>2 DEF Filling
      <3>8. Filled(x, r, l)
        BY <2>2, <2>6, <3>3, <3>4, <3>5, <3>6, Zenon DEF Filled, f, c
      <3>9. QED
        BY <1>4, <3>7, <3>8 DEF r
    <2>10. CASE may
      <3>1. e = [i \in 1..levels |-> IF i <= l THEN invalidate(d[i], f.victim) ELSE d[i]]
        <4>1. l > 0
          BY <2>10
        <4>2. \A i \in 1..levels : i <= (l - 1) + 1 <=> i <= l
          OBVIOUS
        <4>3. e = back_invalidate(d, f.victim, l - 1)
          BY <2>10
        <4> HIDE DEF e
        <4>4. QED
          BY <4>2, <4>3 DEF back_invalidate
      <3>2. f.victim \in Nat /\ f.victim # Invalid /\ get_inclusiveness(l) = "inclusive"
              /\ x.should_back_invalidate
        BY <2>6, <2>10
      <3> HIDE DEF e, may
      <3>3. ASSUME NEW k \in 0..(l - 1)
            PROVE  /\ Placed(e[k + 1], Sets(k), WaysOf(k))
                   /\ \A z \in Nat : Holds(e, k, z) <=> Holds(c, k, z) /\ z # f.victim
        <4>1. k \in 0..(levels - 1) /\ k + 1 <= l /\ k + 1 # l + 1
          BY <1>1
        <4>2. e[k + 1] = invalidate(d[k + 1], f.victim) /\ d[k + 1] = c[k + 1]
          BY <2>7, <2>8, <3>1, <4>1
        <4>3. /\ Placed(invalidate(d[k + 1], f.victim), Sets(k), WaysOf(k))
              /\ \A z \in Nat : In(invalidate(d[k + 1], f.victim), Sets(k), WaysOf(k), z)
                                 <=> In(d[k + 1], Sets(k), WaysOf(k), z) /\ z # f.victim
          <5>1. PICK S, n, y, t : /\ S = Sets(k) /\ n = WaysOf(k) /\ y = d[k + 1]
                                  /\ t = f.victim
            OBVIOUS
          <5>2. S \in Nat \ {0} /\ n \in Nat \ {0} /\ Placed(y, S, n) /\ t \in Nat
            BY <2>8, <3>2, <4>1, <5>1, Zenon
          <5>3. /\ Placed(invalidate(y, t), S, n)
                /\ \A z \in Nat : In(invalidate(y, t), S, n, z) <=> In(y, S, n, z) /\ z # t
            BY <5>2, InvalidateCache
          <5>4. QED
            BY <5>1, <5>3, Zenon
        <4>4. QED
          BY <4>2, <4>3, Zenon DEF Holds
      <3>4. ASSUME NEW k \in l..(levels - 1) PROVE e[k + 1] = d[k + 1]
        <4>1. k + 1 \in 1..levels /\ ~(k + 1 <= l)
          BY <1>1
        <4>2. QED
          BY <3>1, <4>1
      <3>5. Hierarchy(e)
        <4>1. e = [i \in 1..levels |-> e[i]]
          BY <3>1
        <4>2. ASSUME NEW k \in 0..(levels - 1) PROVE Placed(e[k + 1], Sets(k), WaysOf(k))
          <5>1. k \in 0..(l - 1) \/ k \in l..(levels - 1)
            OBVIOUS
          <5>2. QED
            BY <2>8, <3>3, <3>4, <5>1, Zenon
        <4>3. QED
          BY <4>1, <4>2, Zenon DEF Hierarchy
      <3>6. e[l + 1] = f.cache
        <4>1. l \in l..(levels - 1)
          BY <1>1
        <4>2. QED
          BY <2>7, <3>4, <4>1
      <3>7. \A k \in (l + 1)..(levels - 1) : e[k + 1] = c[k + 1]
        <4>1. \A k \in (l + 1)..(levels - 1) :
                 k + 1 \in 1..levels /\ k + 1 # l + 1 /\ k \in l..(levels - 1)
          BY <1>1
        <4>2. QED
          BY <2>7, <3>4, <4>1
      <3>8. Below(c, e, l, f.victim, x.should_back_invalidate)
        BY <3>2, <3>3, Zenon DEF Below
      <3>9. \A y \in Nat : Holds(e, l, y) <=> (Holds(c, l, y) \/ y = x.line) /\ y # f.victim
        BY <2>6, <3>6, Zenon DEF Holds
      <3>10. f.victim # x.line
        BY <1>4, <2>6
      <3>11. Filling(r)
        BY <2>2, <2>6, <3>5 DEF Filling
      <3>12. Filled(x, r, l)
        BY <2>2, <2>6, <3>6, <3>7, <3>8, <3>9, <3>10, Zenon DEF Filled, f, c
      <3>13. QED
        BY <1>4, <3>11, <3>12 DEF r
    <2>11. QED
      BY <2>9, <2>10
  <1>5. QED
    BY <1>3, <1>4

\* One level of fill, from the accumulator x to r.
FillStep(x, r, l) == \/ x.line = Invalid /\ r = x
                     \/ x.line # Invalid /\ Filled(x, r, l)

\* The accumulators of fill, one for every level passed.
FillRun(F, c, line, l) ==
    /\ F[0] = [caches |-> c, line |-> line, should_back_invalidate |-> TRUE]
    /\ \A i \in 0..(levels - l) : Filling(F[i]) /\ (i > 0 => ~F[i].should_back_invalidate)
    /\ \A i \in 0..(levels - l - 1) : FillStep(F[i], F[i + 1], l + i)
    /\ fill(c, line, l) = F[levels - l].caches

LEMMA FillRuns ==
    ASSUME Built, NEW c, Hierarchy(c), NEW line \in Nat, NEW l \in 0..(levels - 1)
    PROVE  \E F : FillRun(F, c, line, l)
  <1> DEFINE n == levels - l
             s == [i \in 1..n |-> l + i - 1]
             base == [caches |-> c, line |-> line, should_back_invalidate |-> TRUE]
             loop == [name |-> "fill"]
  <1>1. levels \in Nat \ {0} /\ n \in Nat /\ n \in 1..levels
    BY Shape
  <1>2. Len(s) = n /\ Len(s) \in Nat
    BY <1>1
  <1>3. fill(c, line, l) = Looped(loop, base, s).caches
    <2>1. Accumulate(FillLevel, base, s) = Looped(loop, base, s)
      BY FillLoop
    <2>2. fill(c, line, l) = Accumulate(FillLevel, base, s).caches
      BY Zenon DEF fill
    <2>3. QED
      BY <2>1, <2>2, Zenon
  <1>4. PICK F : Ran(F, loop, base, s) /\ Looped(loop, base, s) = F[Len(s)]
    BY <1>2, LoopRan, Zenon
  <1>5. F[0] = base /\ fill(c, line, l) = F[n].caches
    BY <1>2, <1>3, <1>4, Zenon DEF Ran
  <1>6. \A x, e : Pass(loop, x, e) = FillLevel(x, e)
    BY DEF Pass
  <1>7. ASSUME NEW i \in 0..(n - 1)
        PROVE  F[i + 1] = FillLevel(F[i], l + i) /\ l + i \in 0..(levels - 1)
    <2>1. i + 1 \in 1..n /\ (i + 1) - 1 = i /\ (l + (i + 1)) - 1 = l + i /\ l + i \in 0..(levels - 1)
      BY <1>1
    <2>2. s[i + 1] = l + i
      BY <2>1
    <2> HIDE DEF s, loop, base
    <2>3. F[i + 1] = Pass(loop, F[(i + 1) - 1], s[i + 1])
      BY <1>2, <1>4, <2>1, Zenon DEF Ran
    <2>4. QED
      BY <1>6, <2>1, <2>2, <2>3, Zenon
  <1>8. Filling(base)
    <2>1. base.caches = c /\ base.line = line /\ base.should_back_invalidate = TRUE
      OBVIOUS
    <2>2. QED
      BY <2>1, Zenon DEF Filling
  <1> HIDE DEF s, loop
  <1> DEFINE T == {i \in 0..n : Filling(F[i])}
  <1>9. 0 \in T
    BY <1>1, <1>5, <1>8
  <1> HIDE DEF base
  <1>10. ASSUME NEW i \in 0..(n - 1), i \in T PROVE i + 1 \in T
    <2>1. i + 1 \in 0..n
      BY <1>1
    <2>2. PICK x, k : x = F[i] /\ k = l + i
      OBVIOUS
    <2>3. k \in 0..(levels - 1) /\ Filling(x)
      BY <1>7, <1>10, <2>2
    <2>4. Filling(FillLevel(x, k))
      BY <2>3, LevelFilled
    <2>5. Filling(F[i + 1])
      BY <1>7, <2>2, <2>4, Zenon
    <2>6. QED
      BY <2>1, <2>5
  <1> HIDE DEF T
  <1>11. \A i \in 0..n : i \in T
    BY <1>1, <1>9, <1>10, InductTo
  <1>12. ASSUME NEW i \in 0..n PROVE Filling(F[i])
    BY <1>11 DEF T
  <1>13. ASSUME NEW i \in 0..(n - 1) PROVE FillStep(F[i], F[i + 1], l + i)
    <2>1. i \in 0..n
      BY <1>1
    <2>2. PICK x, k : x = F[i] /\ k = l + i
      OBVIOUS
    <2>3. k \in 0..(levels - 1) /\ Filling(x)
      BY <1>7, <1>12, <2>1, <2>2, Zenon
    <2>4. FillStep(x, FillLevel(x, k), k)
      BY <2>3, LevelFilled DEF FillStep
    <2>5. QED
      BY <1>7, <2>2, <2>4, Zenon
  <1> DEFINE U == {i \in 0..n : i > 0 => ~F[i].should_back_invalidate}
  <1>14. 0 \in U
    BY <1>1
  <1>15. ASSUME NEW i \in 0..(n - 1), i \in U PROVE i + 1 \in U
    <2>1. i + 1 \in 0..n /\ FillStep(F[i], F[i + 1], l + i)
      BY <1>1, <1>13
    <2>2. CASE F[i].line = Invalid
      <3>1. i # 0
        <4>1. base.line # Invalid
          BY DEF base, Invalid
        <4>2. QED
          BY <1>5, <2>2, <4>1, Zenon
      <3>2. F[i + 1] = F[i]
        BY <2>1, <2>2, Zenon DEF FillStep
      <3>3. ~F[i].should_back_invalidate
        BY <1>15, <3>1
      <3>4. QED
        BY <2>1, <3>2, <3>3
    <2>3. CASE F[i].line # Invalid
      <3>1. ~F[i + 1].should_back_invalidate
        BY <2>1, <2>3, Zenon DEF FillStep, Filled
      <3>2. QED
        BY <2>1, <3>1
    <2>4. QED
      BY <2>2, <2>3
  <1> HIDE DEF U
  <1>16. \A i \in 0..n : i \in U
    BY <1>1, <1>14, <1>15, InductTo
  <1>17. \A i \in 0..n : i > 0 => ~F[i].should_back_invalidate
    BY <1>16 DEF U
  <1>18. QED
    BY <1>5, <1>12, <1>13, <1>17, Zenon DEF FillRun, base

\* Level m takes the line x and gives up the line y.
Taken(c, d, m, x, y) ==
    IF x = Invalid THEN y = Invalid /\ d[m + 1] = c[m + 1]
    ELSE /\ d[m + 1] = fill_cache(c[m + 1], x).cache /\ y = fill_cache(c[m + 1], x).victim
         /\ y # x /\ (y # Invalid => Holds(c, m, y))
         /\ \A z \in Nat : Holds(d, m, z) <=> (Holds(c, m, z) \/ z = x) /\ z # y

\* What fill makes of c: every level from l on takes what the level below gave up, v says
\* what; the levels below l lose at most the first victim.
Cascade(c, d, v, line, l) ==
    /\ Hierarchy(d) /\ v \in [l..levels -> Nat \cup {Invalid}] /\ v[l] = line
    /\ \A m \in l..(levels - 1) : Taken(c, d, m, v[m], v[m + 1])
    /\ Below(c, d, l, v[l + 1], TRUE)

LEMMA Cascades ==
    ASSUME Built, NEW c, Hierarchy(c), NEW line \in Nat, NEW l \in 0..(levels - 1)
    PROVE  \E v : Cascade(c, fill(c, line, l), v, line, l)
  <1> DEFINE n == levels - l
             d == fill(c, line, l)
  <1>1. levels \in Nat \ {0} /\ n \in Nat /\ n \in 1..levels
    BY Shape
  <1>2. PICK F : FillRun(F, c, line, l)
    BY FillRuns
  <1>3. /\ F[0] = [caches |-> c, line |-> line, should_back_invalidate |-> TRUE]
        /\ \A i \in 0..n : Filling(F[i]) /\ (i > 0 => ~F[i].should_back_invalidate)
        /\ \A i \in 0..(n - 1) : FillStep(F[i], F[i + 1], l + i)
        /\ d = F[n].caches
    BY <1>2, Zenon DEF FillRun
  <1>4. F[0].caches = c /\ F[0].line = line /\ F[0].should_back_invalidate = TRUE
    BY <1>3
  <1> HIDE DEF d
  \* Above the level that is filled nothing happens, and from the second level on nothing below.
  <1>5. ASSUME NEW i \in 0..(n - 1), NEW k \in 0..(levels - 1), k # l + i, k > l + i \/ i > 0
        PROVE  F[i + 1].caches[k + 1] = F[i].caches[k + 1]
    <2>1. FillStep(F[i], F[i + 1], l + i)
      BY <1>3
    <2>2. CASE F[i].line = Invalid
      BY <2>1, <2>2, Zenon DEF FillStep
    <2>3. CASE F[i].line # Invalid
      <3>1. PICK x, r, q : x = F[i] /\ r = F[i + 1] /\ q = l + i
        OBVIOUS
      <3>2. /\ \A j \in (q + 1)..(levels - 1) : r.caches[j + 1] = x.caches[j + 1]
            /\ Below(x.caches, r.caches, q, r.line, x.should_back_invalidate)
        BY <2>1, <2>3, <3>1, Zenon DEF FillStep, Filled
      <3>3. CASE k > l + i
        <4>1. k \in (q + 1)..(levels - 1)
          BY <1>1, <3>1, <3>3
        <4>2. QED
          BY <3>1, <3>2, <4>1, Zenon
      <3>4. CASE k < l + i
        <4>1. i > 0 /\ i \in 0..n /\ k \in 0..(q - 1)
          BY <1>1, <1>5, <3>1, <3>4
        <4>2. ~x.should_back_invalidate
          BY <1>3, <3>1, <4>1
        <4>3. \A j \in 0..(q - 1) : r.caches[j + 1] = x.caches[j + 1]
          BY <3>2, <4>2, Zenon DEF Below
        <4>4. QED
          BY <3>1, <4>1, <4>3, Zenon
      <3>5. QED
        BY <1>1, <1>5, <3>3, <3>4
    <2>4. QED
      BY <2>2, <2>3
  <1>6. ASSUME NEW i \in 0..n, NEW k \in (l + i)..(levels - 1) PROVE F[i].caches[k + 1] = c[k + 1]
    <2> DEFINE T == {j \in 0..n : j <= i => F[j].caches[k + 1] = c[k + 1]}
    <2>1. 0 \in T
      BY <1>1, <1>4
    <2>2. ASSUME NEW j \in 0..(n - 1), j \in T PROVE j + 1 \in T
      <3>1. j + 1 \in 0..n
        BY <1>1
      <3>2. ASSUME j + 1 <= i PROVE F[j + 1].caches[k + 1] = c[k + 1]
        <4>1. k \in 0..(levels - 1) /\ k # l + j /\ k > l + j /\ j <= i
          BY <1>1, <3>2
        <4>2. F[j + 1].caches[k + 1] = F[j].caches[k + 1]
          BY <1>5, <4>1
        <4>3. QED
          BY <2>2, <4>1, <4>2
      <3>3. QED
        BY <3>1, <3>2
    <2> HIDE DEF T
    <2>3. \A j \in 0..n : j \in T
      BY <1>1, <2>1, <2>2, InductTo
    <2>4. QED
      BY <2>3 DEF T
  <1>7. ASSUME NEW k \in 0..(levels - 1), NEW a \in 1..n, k < l + a
        PROVE  d[k + 1] = F[a].caches[k + 1]
    <2> DEFINE T == {j \in 0..n : j >= a => F[j].caches[k + 1] = F[a].caches[k + 1]}
    <2>1. 0 \in T
      BY <1>1
    <2>2. ASSUME NEW j \in 0..(n - 1), j \in T PROVE j + 1 \in T
      <3>1. j + 1 \in 0..n /\ (j + 1 >= a => j + 1 = a \/ j >= a)
        BY <1>1
      <3>2. ASSUME j >= a PROVE F[j + 1].caches[k + 1] = F[a].caches[k + 1]
        <4>1. k # l + j /\ j > 0
          BY <1>1, <1>7, <3>2
        <4>2. F[j + 1].caches[k + 1] = F[j].caches[k + 1]
          BY <1>5, <4>1
        <4>3. QED
          BY <2>2, <3>2, <4>2
      <3>3. QED
        BY <3>1, <3>2
    <2> HIDE DEF T
    <2>3. \A j \in 0..n : j \in T
      BY <1>1, <2>1, <2>2, InductTo
    <2>4. n \in 0..n /\ n >= a
      BY <1>1
    <2>5. QED
      BY <1>3, <2>3, <2>4 DEF T
  <1> DEFINE v == [m \in l..levels |-> F[m - l].line]
  <1>8. /\ v \in [l..levels -> Nat \cup {Invalid}] /\ v[l] = line
        /\ \A m \in l..levels : v[m] = F[m - l].line
    <2>1. \A m \in l..levels : v[m] = F[m - l].line
      OBVIOUS
    <2>2. ASSUME NEW m \in l..levels PROVE F[m - l].line \in Nat \cup {Invalid}
      <3>1. m - l \in 0..n
        BY <1>1
      <3>2. QED
        BY <1>3, <3>1, Zenon DEF Filling
    <2>3. v \in [l..levels -> Nat \cup {Invalid}]
      BY <2>2
    <2>4. l \in l..levels /\ l - l = 0
      BY <1>1
    <2> HIDE DEF v
    <2>5. v[l] = line
      BY <1>4, <2>1, <2>4
    <2>6. QED
      BY <2>1, <2>3, <2>5
  <1> HIDE DEF v
  <1>9. ASSUME NEW m \in l..(levels - 1) PROVE Taken(c, d, m, v[m], v[m + 1])
    <2> DEFINE i == m - l
    <2>1. /\ i \in 0..(n - 1) /\ i \in 0..n /\ l + i = m /\ i + 1 \in 1..n /\ m \in (l + i)..(levels - 1)
          /\ m < l + (i + 1) /\ m \in 0..(levels - 1) /\ m \in l..levels /\ m + 1 \in l..levels
          /\ (m + 1) - l = i + 1
      BY <1>1
    <2>2. v[m] = F[i].line
      BY <1>8, <2>1
    <2>3. v[m + 1] = F[i + 1].line
      BY <1>8, <2>1, Zenon
    <2> HIDE DEF i
    <2>4. F[i].caches[m + 1] = c[m + 1] /\ d[m + 1] = F[i + 1].caches[m + 1]
      BY <1>6, <1>7, <2>1
    <2>5. FillStep(F[i], F[i + 1], m)
      BY <1>3, <2>1
    <2>6. PICK x, r, b : x = F[i] /\ r = F[i + 1] /\ b = m + 1
      OBVIOUS
    <2>7. /\ FillStep(x, r, m) /\ v[m] = x.line /\ v[b] = r.line
          /\ x.caches[b] = c[b] /\ d[b] = r.caches[b]
      BY <2>2, <2>3, <2>4, <2>5, <2>6, Zenon
    <2>8. CASE x.line = Invalid
      <3>1. r = x
        BY <2>7, <2>8, Zenon DEF FillStep
      <3>2. d[b] = c[b] /\ v[b] = Invalid /\ v[m] = Invalid
        BY <2>7, <2>8, <3>1, Zenon
      <3>3. QED
        BY <2>6, <3>2, Zenon DEF Taken
    <2>9. CASE x.line # Invalid
      <3>1. /\ r.line = fill_cache(x.caches[b], x.line).victim
            /\ r.caches[b] = fill_cache(x.caches[b], x.line).cache
            /\ r.line # x.line /\ (r.line # Invalid => Holds(x.caches, m, r.line))
            /\ \A y \in Nat : Holds(r.caches, m, y)
                                <=> (Holds(x.caches, m, y) \/ y = x.line) /\ y # r.line
        BY <2>6, <2>7, <2>9, Zenon DEF FillStep, Filled
      <3>2. \A y : Holds(x.caches, m, y) <=> Holds(c, m, y)
        BY <2>6, <2>7, Zenon DEF Holds
      <3>3. \A y : Holds(r.caches, m, y) <=> Holds(d, m, y)
        BY <2>6, <2>7, Zenon DEF Holds
      <3>4. QED
        BY <2>6, <2>7, <2>9, <3>1, <3>2, <3>3, Zenon DEF Taken
    <2>10. QED
      BY <2>8, <2>9
  <1>10. Below(c, d, l, v[l + 1], TRUE)
    <2>1. 0 \in 0..(n - 1) /\ l + 0 = l /\ 0 + 1 = 1 /\ 1 \in 1..n /\ l + 1 \in l..levels /\ (l + 1) - l = 1
      BY <1>1
    <2>2. FillStep(F[0], F[1], l)
      BY <1>3, <2>1, Zenon
    <2>3. F[0].line # Invalid
      BY <1>4 DEF Invalid
    <2>4. Below(c, F[1].caches, l, F[1].line, TRUE)
      BY <1>4, <2>2, <2>3, Zenon DEF FillStep, Filled
    <2>5. v[l + 1] = F[1].line
      BY <1>8, <2>1, Zenon
    <2>6. \A k \in 0..(l - 1) : d[k + 1] = F[1].caches[k + 1]
      <3>1. \A k \in 0..(l - 1) : k \in 0..(levels - 1) /\ k < l + 1
        BY <1>1
      <3>2. QED
        BY <1>7, <2>1, <3>1
    <2>7. \A k \in 0..(l - 1) : \A z : Holds(d, k, z) <=> Holds(F[1].caches, k, z)
      BY <2>6, Zenon DEF Holds
    <2>8. QED
      BY <2>4, <2>5, <2>6, <2>7, Zenon DEF Below
  <1>11. Hierarchy(d)
    <2>1. n \in 0..n
      BY <1>1
    <2>2. QED
      BY <1>3, <2>1, Zenon DEF Filling
  <1>12. QED
    BY <1>8, <1>9, <1>10, <1>11, Zenon DEF Cascade, d

\* A line that level 0 lost has left an inclusive level and all below it.
Gone(d, y) == \E k \in 1..(levels - 1) :
                 get_inclusiveness(k) = "inclusive" /\ \A j \in 0..k : ~Holds(d, j, y)

\* What a fill that begins at level l does to lines: it invalidates in lower levels only what
\* an inclusive level lost, brings no line but its own to where it was not, and moves what
\* level 0 loses to level 1.
Losses(c, d, line, l) ==
    /\ \A k \in 0..(l - 1), y \in Nat : Holds(c, k, y) /\ ~Holds(d, k, y) => Gone(d, y)
    /\ \A k \in 0..(levels - 1), y \in Nat :
          y # line /\ (\A j \in 0..k : ~Holds(c, j, y)) => \A j \in 0..k : ~Holds(d, j, y)
    /\ (l = 0 /\ levels > 1) =>
          \A y \in Nat : Holds(c, 0, y) /\ ~Holds(d, 0, y) => Holds(d, 1, y)

LEMMA CascadeLosses ==
    ASSUME Built, NEW c, Hierarchy(c), NEW line \in Nat, NEW l \in 0..(levels - 1),
           NEW d, NEW v, Cascade(c, d, v, line, l)
    PROVE  Losses(c, d, line, l)
  <1>1. levels \in Nat \ {0}
    BY Shape
  <1>2. /\ v \in [l..levels -> Nat \cup {Invalid}] /\ v[l] = line
        /\ \A m \in l..(levels - 1) : Taken(c, d, m, v[m], v[m + 1])
        /\ Below(c, d, l, v[l + 1], TRUE)
    BY Zenon DEF Cascade
  <1>3. l \in l..(levels - 1) /\ line # Invalid /\ \A y \in Nat : y # Invalid
    BY <1>1 DEF Invalid
  <1>4. ASSUME NEW k \in 0..(l - 1), NEW y \in Nat, Holds(c, k, y), ~Holds(d, k, y)
        PROVE  Gone(d, y)
    <2>1. d[k + 1] # c[k + 1]
      BY <1>4, Zenon DEF Holds
    <2>2. /\ get_inclusiveness(l) = "inclusive"
          /\ \A j \in 0..(l - 1) : \A z \in Nat : Holds(d, j, z) <=> Holds(c, j, z) /\ z # v[l + 1]
      BY <1>2, <2>1, Zenon DEF Below
    <2>3. y = v[l + 1]
      BY <1>4, <2>2, Zenon
    <2>4. \A j \in 0..(l - 1) : ~Holds(d, j, y)
      BY <2>2, <2>3, Zenon
    <2>5. ~Holds(d, l, y)
      BY <1>2, <1>3, <2>3, Zenon DEF Taken
    <2>6. \A j \in 0..l : ~Holds(d, j, y)
      <3>1. \A j \in 0..l : j = l \/ j \in 0..(l - 1)
        OBVIOUS
      <3>2. QED
        BY <2>4, <2>5, <3>1, Zenon
    <2>7. l \in 1..(levels - 1)
      BY <1>4
    <2>8. QED
      BY <2>2, <2>6, <2>7, Zenon DEF Gone
  <1>5. ASSUME NEW k \in 0..(levels - 1), NEW y \in Nat, y # line, \A j \in 0..k : ~Holds(c, j, y)
        PROVE  \A j \in 0..k : ~Holds(d, j, y)
    <2> DEFINE n == levels - l
               T == {i \in 0..n : l + i <= k + 1 => v[l + i] # y}
    <2>1. n \in Nat
      BY <1>1
    <2>2. 0 \in T
      <3>1. l + 0 = l
        OBVIOUS
      <3>2. QED
        BY <1>2, <1>5, <2>1, <3>1
    <2>3. ASSUME NEW i \in 0..(n - 1), i \in T PROVE i + 1 \in T
      <3>1. i + 1 \in 0..n
        BY <2>1
      <3>2. ASSUME l + (i + 1) <= k + 1 PROVE v[l + (i + 1)] # y
        <4>1. PICK m : m = l + i
          OBVIOUS
        <4>2. m \in l..(levels - 1) /\ l + (i + 1) = m + 1 /\ m \in 0..k
          BY <1>1, <3>2, <4>1
        <4>3. Taken(c, d, m, v[m], v[m + 1]) /\ ~Holds(c, m, y)
          BY <1>2, <1>5, <4>2, Zenon
        <4>4. v[m + 1] # y
          BY <1>3, <4>3, Zenon DEF Taken
        <4>5. QED
          BY <4>2, <4>4
      <3>3. QED
        BY <3>1, <3>2
    <2> HIDE DEF T
    <2>4. \A i \in 0..n : i \in T
      BY <2>1, <2>2, <2>3, InductTo
    <2>5. ASSUME NEW j \in 0..k PROVE ~Holds(d, j, y)
      <3>1. CASE j < l
        <4>1. j \in 0..(l - 1)
          BY <3>1
        <4>2. Holds(d, j, y) => Holds(c, j, y)
          BY <1>2, <4>1, Zenon DEF Below, Holds
        <4>3. QED
          BY <1>5, <4>2, Zenon
      <3>2. CASE j >= l
        <4>1. j \in l..(levels - 1) /\ j - l \in 0..n /\ l + (j - l) = j /\ j <= k + 1
          BY <1>1, <3>2
        <4>2. v[j] # y
          BY <2>4, <4>1 DEF T
        <4>3. Taken(c, d, j, v[j], v[j + 1]) /\ ~Holds(c, j, y)
          BY <1>2, <1>5, <4>1, Zenon
        <4>4. QED
          BY <4>2, <4>3, Zenon DEF Taken, Holds
      <3>3. QED
        BY <1>1, <3>1, <3>2
    <2>6. QED
      BY <2>5
  <1>6. ASSUME l = 0, levels > 1, NEW y \in Nat, Holds(c, 0, y), ~Holds(d, 0, y)
        PROVE  Holds(d, 1, y)
    <2>1. 0 \in l..(levels - 1) /\ 1 \in l..(levels - 1) /\ 0 + 1 = 1 /\ v[0] = line
      BY <1>1, <1>2, <1>6
    <2>2. Taken(c, d, 0, line, v[1]) /\ Taken(c, d, 1, v[1], v[1 + 1])
      BY <1>2, <2>1, Zenon
    <2>3. y = v[1]
      BY <1>3, <1>6, <2>2, Zenon DEF Taken
    <2>4. QED
      BY <1>3, <2>2, <2>3, Zenon DEF Taken
  <1>7. QED
    BY <1>4, <1>5, <1>6, Zenon DEF Losses

\* The caches of back_fill, one for every level passed.
BackRun(G, c, line, level) ==
    /\ G[0] = c /\ back_fill(c, line, level) = G[level + 1]
    /\ \A i \in 0..level : G[i + 1] = BackFill(G[i], line, level - i)

LEMMA BackRuns ==
    ASSUME NEW c, NEW line, NEW level \in Nat \cup {-1}
    PROVE  \E G : BackRun(G, c, line, level)
  <1> DEFINE s == [i \in 1..(level + 1) |-> level + 1 - i]
             loop == [name |-> "back_fill", line |-> line]
  <1>1. Len(s) = level + 1 /\ Len(s) \in Nat
    OBVIOUS
  <1>2. back_fill(c, line, level) = Looped(loop, c, s)
    <2>1. back_fill(c, line, level)
            = Accumulate(LAMBDA acc, l : IF get_inclusiveness(l) = "exclusive" THEN acc
                                         ELSE fill(acc, line, l), c, s)
      BY Zenon DEF back_fill
    <2>2. QED
      BY <2>1, BackFillLoop, Zenon
  <1>3. PICK G : Ran(G, loop, c, s) /\ Looped(loop, c, s) = G[Len(s)]
    BY <1>1, LoopRan, Zenon
  <1>4. G[0] = c /\ back_fill(c, line, level) = G[level + 1]
    BY <1>1, <1>2, <1>3, Zenon DEF Ran
  <1>5. \A x, e : Pass(loop, x, e) = BackFill(x, line, e)
    BY DEF Pass
  <1>6. ASSUME NEW i \in 0..level PROVE G[i + 1] = BackFill(G[i], line, level - i)
    <2>1. i + 1 \in 1..(level + 1) /\ (i + 1) - 1 = i /\ (level + 1) - (i + 1) = level - i
      OBVIOUS
    <2>2. s[i + 1] = level - i
      BY <2>1
    <2> HIDE DEF s, loop
    <2>3. G[i + 1] = Pass(loop, G[(i + 1) - 1], s[i + 1])
      BY <1>1, <1>3, <2>1, Zenon DEF Ran
    <2>4. QED
      BY <1>5, <2>1, <2>2, <2>3, Zenon
  <1>7. QED
    BY <1>4, <1>6, Zenon DEF BackRun

\* The caches after the hit of the level that has the line.
Found(c, line) ==
    LET level == Level(c, line)
    IN  IF level = levels THEN c
        ELSE [c EXCEPT ![level + 1] =
                IF level > 0 /\ get_inclusiveness(level) = "exclusive"
                THEN invalidate(hit(@, line), line) ELSE hit(@, line)]

\* Which level has a line, and what a hit there changes.
LEMMA FoundFacts ==
    ASSUME Built, NEW c, Hierarchy(c), NEW line \in Nat
    PROVE  LET level == Level(c, line)
               d == Found(c, line)
           IN  /\ level \in 0..levels /\ (level < levels => Holds(c, level, line))
               /\ \A k \in 0..(level - 1) : ~Holds(c, k, line)
               /\ Hierarchy(d)
               /\ \A k \in 0..(levels - 1) : k # level => d[k + 1] = c[k + 1]
               /\ (level < levels /\ (level = 0 \/ get_inclusiveness(level) # "exclusive"))
                     => /\ d[level + 1] = hit(c[level + 1], line)
                        /\ \A y : Holds(d, level, y) <=> Holds(c, level, y)
  <1> DEFINE level == Level(c, line)
             d == Found(c, line)
             T == {l \in Nat : l \in 0..levels /\ (l = levels \/ Has(c[l + 1], line))}
  <1>1. levels \in Nat \ {0} /\ \A l \in 0..(levels - 1) : Dimensions(l)
    BY Shape
  <1>2. ASSUME NEW l \in 0..(levels - 1)
        PROVE  /\ l + 1 \in 1..levels /\ Sets(l) \in Nat \ {0} /\ WaysOf(l) \in Nat \ {0}
               /\ Placed(c[l + 1], Sets(l), WaysOf(l))
               /\ Has(c[l + 1], line) <=> Holds(c, l, line)
    <2>1. l + 1 \in 1..levels
      BY <1>1
    <2>2. PICK S, n, x : S = Sets(l) /\ n = WaysOf(l) /\ x = c[l + 1]
      OBVIOUS
    <2>3. S \in Nat \ {0} /\ n \in Nat \ {0} /\ Placed(x, S, n)
      BY <1>1, <2>2, Zenon DEF Dimensions, Hierarchy
    <2>4. x \in CachesOf(S, n)
      BY <2>3 DEF Placed
    <2>5. Has(x, line) <=> In(x, S, n, line)
      BY <2>3, <2>4, LookupFacts
    <2>6. QED
      BY <2>1, <2>2, <2>3, <2>5, Zenon DEF Holds
  <1>3. /\ level \in 0..levels /\ (level = levels \/ Has(c[level + 1], line))
        /\ \A k \in 0..(level - 1) : ~Has(c[k + 1], line)
    <2>1. levels \in T /\ T \in SUBSET Nat
      BY <1>1
    <2>2. PICK l \in T : \A k \in T : l <= k
      BY <2>1, Least
    <2>3. \A k \in 0..(l - 1) : ~Has(c[k + 1], line)
      <3> SUFFICES ASSUME NEW k \in 0..(l - 1), Has(c[k + 1], line) PROVE FALSE
        OBVIOUS
      <3>1. k \in T
        BY <1>1
      <3>2. QED
        BY <2>2, <3>1
    <2>4. \E q \in 0..levels : /\ q = levels \/ Has(c[q + 1], line)
                               /\ \A k \in 0..(q - 1) : ~Has(c[k + 1], line)
      BY <2>2, <2>3
    <2>5. QED
      BY <2>4, Zenon DEF Level
  <1> HIDE DEF level, T
  <1>4. /\ (level < levels => Holds(c, level, line))
        /\ \A k \in 0..(level - 1) : ~Holds(c, k, line)
    <2>1. \A k \in 0..(level - 1) : k \in 0..(levels - 1)
      BY <1>1, <1>3
    <2>2. level < levels => level \in 0..(levels - 1) /\ level # levels
      BY <1>1, <1>3
    <2>3. QED
      BY <1>2, <1>3, <2>1, <2>2, Zenon
  <1>5. c = [i \in 1..levels |-> c[i]]
    BY Zenon DEF Hierarchy
  <1>6. CASE level = levels
    <2>1. d = c
      BY <1>6 DEF Found, level
    <2>2. ~(level < levels)
      BY <1>1, <1>6
    <2> HIDE DEF d
    <2>3. QED
      BY <1>3, <1>4, <2>1, <2>2, Zenon DEF d, level
  <1>7. CASE level # levels
    <2> DEFINE x == c[level + 1]
               out == level > 0 /\ get_inclusiveness(level) = "exclusive"
               z == IF out THEN invalidate(hit(x, line), line) ELSE hit(x, line)
    <2>1. level \in 0..(levels - 1) /\ level < levels /\ level + 1 \in 1..levels
      BY <1>1, <1>3, <1>7
    <2>2. d = [c EXCEPT ![level + 1] = z]
      <3>1. level = Level(c, line)
        BY DEF level
      <3>2. QED
        BY <1>7, <3>1, Zenon DEF Found
    <2>3. d = [i \in 1..levels |-> d[i]] /\ \A i \in 1..levels : i # level + 1 => d[i] = c[i]
      <3> HIDE DEF d, z
      <3>1. QED
        BY <1>5, <2>1, <2>2
    <2>4. d[level + 1] = z
      <3> HIDE DEF d, z
      <3>1. QED
        BY <1>5, <2>1, <2>2
    <2> HIDE DEF d
    <2>5. PICK S, n : S = Sets(level) /\ n = WaysOf(level)
      OBVIOUS
    <2>6. S \in Nat \ {0} /\ n \in Nat \ {0} /\ Placed(x, S, n) /\ Has(x, line)
      BY <1>2, <1>3, <1>7, <2>1, <2>5, Zenon
    <2> HIDE DEF x
    <2>7. Placed(hit(x, line), S, n) /\ hit(x, line).data = x.data
      <3>1. PICK y, t : y = x /\ t = line
        OBVIOUS
      <3>2. S \in Nat \ {0} /\ n \in Nat \ {0} /\ Placed(y, S, n) /\ Has(y, t) /\ t \in Nat
        BY <2>6, <3>1, Zenon
      <3>3. Placed(hit(y, t), S, n) 
        BY <3>2, HitCache
      <3>4. hit(y, t).data = y.data
        <4>1. hit(y, t) = [data |-> y.data, replacement |->
                 [y.replacement EXCEPT ![t % S] = Hit(y.replacement[t % S], Handle(y, t))]]
          BY <3>2, HitCache
        <4>2. QED
          BY <4>1
      <3>5. QED
        BY <3>1, <3>3, <3>4, Zenon
    <2>8. Placed(invalidate(hit(x, line), line), S, n)
      BY <2>6, <2>7, InvalidateCache
    <2>9. Placed(z, S, n)
      BY <2>7, <2>8
    <2>10. \A y : In(hit(x, line), S, n, y) <=> In(x, S, n, y)
      BY <2>7, Zenon DEF In
    <2>11. Hierarchy(d)
      <3>1. ASSUME NEW k \in 0..(levels - 1) PROVE Placed(d[k + 1], Sets(k), WaysOf(k))
        <4>1. CASE k = level
          BY <2>4, <2>5, <2>9, <4>1, Zenon
        <4>2. CASE k # level
          <5>1. k + 1 # level + 1
            BY <2>1, <4>2
          <5>2. d[k + 1] = c[k + 1]
            BY <1>2, <2>3, <5>1, Zenon
          <5>3. QED
            BY <1>2, <5>2, Zenon
        <4>3. QED
          BY <4>1, <4>2
      <3>2. QED
        BY <2>3, <3>1, Zenon DEF Hierarchy
    <2>12. ASSUME NEW k \in 0..(levels - 1), k # level PROVE d[k + 1] = c[k + 1]
      <3>1. k + 1 # level + 1
        BY <2>1, <2>12
      <3>2. QED
        BY <1>2, <2>3, <3>1, Zenon
    <2>13. ASSUME level = 0 \/ get_inclusiveness(level) # "exclusive"
           PROVE  /\ d[level + 1] = hit(c[level + 1], line)
                  /\ \A y : Holds(d, level, y) <=> Holds(c, level, y)
      <3>1. ~out
        BY <2>13
      <3>2. d[level + 1] = hit(x, line)
        BY <2>4, <3>1
      <3>3. QED
        BY <2>5, <2>10, <3>2, Zenon DEF Holds, x
    <2>14. QED
      BY <1>3, <1>4, <2>11, <2>12, <2>13, Zenon DEF d, level
  <1>8. QED
    BY <1>6, <1>7

\* One level of back_fill.
BackStep(c, d, line, l) ==
    \/ get_inclusiveness(l) = "exclusive" /\ d = c
    \/ get_inclusiveness(l) # "exclusive" /\ \E v : Cascade(c, d, v, line, l)

\* The caches of an access, one for every level below the one that had the line.
AccessRun(G, c, line) ==
    LET level == Level(c, line)
    IN  /\ G[0] = Found(c, line) /\ do_access(c, line) = G[level]
        /\ \A i \in 0..level : Hierarchy(G[i])
        /\ \A i \in 0..(level - 1) : BackStep(G[i], G[i + 1], line, level - 1 - i)

LEMMA AccessRuns ==
    ASSUME Built, NEW c, Hierarchy(c), NEW line \in Nat
    PROVE  \E G : AccessRun(G, c, line)
  <1> DEFINE level == Level(c, line)
             b == Found(c, line)
  <1>1. levels \in Nat \ {0} /\ level \in 0..levels /\ Hierarchy(b)
    BY Shape, FoundFacts
  <1>2. do_access(c, line) = back_fill(b, line, level - 1)
    BY Zenon DEF do_access, Found
  <1> HIDE DEF level, b
  <1>3. PICK m : m = level - 1
    OBVIOUS
  <1>4. m \in Nat \cup {-1} /\ m + 1 = level /\ \A i \in 0..m : m - i \in 0..(levels - 1)
    BY <1>1, <1>3
  <1>5. PICK G : BackRun(G, b, line, m)
    BY <1>4, BackRuns
  <1>6. /\ G[0] = b /\ do_access(c, line) = G[level]
        /\ \A i \in 0..m : G[i + 1] = BackFill(G[i], line, m - i)
    BY <1>2, <1>3, <1>4, <1>5, Zenon DEF BackRun
  <1>7. ASSUME NEW i \in 0..m, Hierarchy(G[i])
        PROVE  Hierarchy(G[i + 1]) /\ BackStep(G[i], G[i + 1], line, m - i)
    <2>1. PICK x, l : x = G[i] /\ l = m - i
      OBVIOUS
    <2>2. l \in 0..(levels - 1) /\ Hierarchy(x) /\ G[i + 1] = BackFill(x, line, l)
      BY <1>4, <1>6, <1>7, <2>1
    <2>3. CASE get_inclusiveness(l) = "exclusive"
      <3>1. G[i + 1] = x
        BY <2>2, <2>3, Zenon DEF BackFill
      <3>2. QED
        BY <2>1, <2>2, <2>3, <3>1, Zenon DEF BackStep
    <2>4. CASE get_inclusiveness(l) # "exclusive"
      <3>1. G[i + 1] = fill(x, line, l)
        BY <2>2, <2>4, Zenon DEF BackFill
      <3>2. PICK v : Cascade(x, fill(x, line, l), v, line, l)
        BY <2>2, Cascades
      <3>3. Hierarchy(fill(x, line, l))
        BY <3>2, Zenon DEF Cascade
      <3>4. QED
        BY <2>1, <2>4, <3>1, <3>2, <3>3, Zenon DEF BackStep
    <2>5. QED
      BY <2>3, <2>4
  <1> DEFINE T == {i \in 0..level : Hierarchy(G[i])}
  <1>8. 0 \in T
    BY <1>1, <1>6
  <1>9. ASSUME NEW i \in 0..(level - 1), i \in T PROVE i + 1 \in T
    <2>1. i + 1 \in 0..level /\ i \in 0..m
      BY <1>1, <1>4
    <2>2. QED
      BY <1>7, <1>9, <2>1
  <1> HIDE DEF T
  <1>10. \A i \in 0..level : i \in T
    BY <1>1, <1>8, <1>9, InductTo
  <1>11. \A i \in 0..level : Hierarchy(G[i])
    BY <1>10 DEF T
  <1>12. ASSUME NEW i \in 0..(level - 1) PROVE BackStep(G[i], G[i + 1], line, level - 1 - i)
    <2>1. i \in 0..level /\ i \in 0..m /\ (level - 1) - i = m - i
      BY <1>1, <1>3, <1>4
    <2>2. BackStep(G[i], G[i + 1], line, m - i)
      BY <1>7, <1>11, <2>1, Zenon
    <2>3. QED
      BY <2>1, <2>2, Zenon
  <1>13. QED
    BY <1>6, <1>11, <1>12, Zenon DEF AccessRun, level, b

\* A line that an access evicts from level 0 goes to level 1, or an inclusive level lost it.
LEMMA AccessLosses ==
    ASSUME Built, NEW c, Hierarchy(c), NEW line \in Nat, levels > 1
    PROVE  LET d == do_access(c, line)
           IN  /\ Hierarchy(d)
               /\ \A y \in Nat : Holds(c, 0, y) /\ ~Holds(d, 0, y) => Gone(d, y) \/ Holds(d, 1, y)
  <1> DEFINE level == Level(c, line)
             d == do_access(c, line)
  <1>1. /\ levels \in Nat \ {0} /\ level \in 0..levels
        /\ \A k \in 0..(level - 1) : ~Holds(c, k, line)
        /\ \A y : Holds(Found(c, line), 0, y) <=> Holds(c, 0, y)
    <2>1. levels \in Nat \ {0} /\ 0 \in 0..(levels - 1)
      BY Shape
    <2>2. /\ level \in 0..levels
          /\ \A k \in 0..(level - 1) : ~Holds(c, k, line)
          /\ \A k \in 0..(levels - 1) : k # level => Found(c, line)[k + 1] = c[k + 1]
          /\ (level < levels /\ level = 0) =>
                \A y : Holds(Found(c, line), level, y) <=> Holds(c, level, y)
      BY FoundFacts
    <2> HIDE DEF level
    <2>3. CASE level = 0
      <3>1. level < levels
        BY <2>1, <2>3
      <3>2. QED
        BY <2>1, <2>2, <2>3, <3>1, Zenon
    <2>4. CASE level # 0
      <3>1. Found(c, line)[0 + 1] = c[0 + 1]
        BY <2>1, <2>2, <2>4, Zenon
      <3>2. QED
        BY <2>1, <2>2, <3>1, Zenon DEF Holds
    <2>5. QED
      BY <2>3, <2>4
  <1>2. PICK G : AccessRun(G, c, line)
    BY AccessRuns
  <1>3. /\ G[0] = Found(c, line) /\ d = G[level]
        /\ \A i \in 0..level : Hierarchy(G[i])
        /\ \A i \in 0..(level - 1) : BackStep(G[i], G[i + 1], line, level - 1 - i)
    BY <1>2, Zenon DEF AccessRun
  <1> HIDE DEF level, d
  <1> DEFINE Kept(i) == \A y \in Nat : Holds(c, 0, y) /\ ~Holds(G[i], 0, y)
                          => Gone(G[i], y) \/ (i = level /\ Holds(G[i], 1, y))
             T == {i \in 0..level : Kept(i)}
  <1>4. 0 \in T
    <2>1. Kept(0)
      BY <1>1, <1>3, Zenon
    <2> HIDE DEF Kept
    <2>2. QED
      BY <1>1, <2>1
  <1>5. ASSUME NEW i \in 0..(level - 1), i \in T PROVE i + 1 \in T
    <2>1. PICK l : l = level - 1 - i
      OBVIOUS
    <2>2. /\ l \in 0..(levels - 1) /\ i \in 0..level /\ i + 1 \in 0..level /\ i # level
          /\ (l = 0 => i + 1 = level) /\ (l # 0 => 0 \in 0..(l - 1)) /\ 0 \in 0..(level - 1)
      BY <1>1, <2>1
    <2>3. PICK x, z : x = G[i] /\ z = G[i + 1]
      OBVIOUS
    <2>4. Hierarchy(x) /\ BackStep(x, z, line, l)
      BY <1>3, <2>1, <2>2, <2>3, Zenon
    <2>5. Kept(i)
      BY <1>5
    <2>6. ASSUME NEW y \in Nat, Holds(c, 0, y), ~Holds(z, 0, y)
          PROVE  Gone(z, y) \/ (i + 1 = level /\ Holds(z, 1, y))
      <3>1. y # line
        BY <1>1, <2>2, <2>6, Zenon
      <3>2. Holds(x, 0, y) \/ Gone(x, y)
        BY <2>2, <2>3, <2>5, <2>6, Zenon
      <3>3. CASE get_inclusiveness(l) = "exclusive"
        <4>1. z = x
          BY <2>4, <3>3, Zenon DEF BackStep
        <4>2. QED
          BY <2>6, <3>2, <4>1, Zenon
      <3>4. CASE get_inclusiveness(l) # "exclusive"
        <4>1. PICK v : Cascade(x, z, v, line, l)
          BY <2>4, <3>4, Zenon DEF BackStep
        <4>2. Losses(x, z, line, l)
          BY <2>2, <2>4, <4>1, CascadeLosses
        <4>3. CASE Gone(x, y)
          <5>1. PICK k \in 1..(levels - 1) :
                   get_inclusiveness(k) = "inclusive" /\ \A j \in 0..k : ~Holds(x, j, y)
            BY <4>3, Zenon DEF Gone
          <5>2. k \in 0..(levels - 1)
            OBVIOUS
          <5>3. \A j \in 0..k : ~Holds(z, j, y)
            BY <3>1, <4>2, <5>1, <5>2, Zenon DEF Losses
          <5>4. QED
            BY <5>1, <5>3, Zenon DEF Gone
        <4>4. CASE Holds(x, 0, y) /\ l # 0
          BY <2>2, <2>6, <4>2, <4>4, Zenon DEF Losses
        <4>5. CASE Holds(x, 0, y) /\ l = 0
          BY <2>2, <2>6, <4>2, <4>5, Zenon DEF Losses
        <4>6. QED
          BY <3>2, <4>3, <4>4, <4>5
      <3>5. QED
        BY <3>3, <3>4
    <2>7. Kept(i + 1)
      BY <2>3, <2>6, Zenon
    <2> HIDE DEF Kept
    <2>8. QED
      BY <2>2, <2>7
  <1> HIDE DEF T
  <1>6. \A i \in 0..level : i \in T
    BY <1>1, <1>4, <1>5, InductTo
  <1>7. level \in 0..level
    BY <1>1
  <1>8. Kept(level)
    BY <1>6, <1>7 DEF T
  <1>9. \A y \in Nat : Holds(c, 0, y) /\ ~Holds(d, 0, y) => Gone(d, y) \/ Holds(d, 1, y)
    BY <1>3, <1>8, Zenon
  <1>10. QED
    BY <1>3, <1>7, <1>9, Zenon DEF d

-----------------------------------------------------------------------------
(* The constructor of bypass_adapter.                                      *)

\* The eviction sets e of a level of S sets and W ways: lines of the set, each once.
Evsets(e, S, W) ==
    /\ e \in [0..(S - 1) -> Seq(Nat)]
    /\ \A s \in 0..(S - 1) :
          /\ Len(e[s]) <= W
          /\ \A x \in Range(e[s]) : x % S = s
          /\ \A i, j \in 1..Len(e[s]) : e[s][i] = e[s][j] => i = j
Full(e, S, W) == {s \in 0..(S - 1) : Len(e[s]) = W}
Reserved(e, S, x) == \E s \in 0..(S - 1) : x \in Range(e[s])

\* A state of the constructor.
Tallied(acc, S, W) ==
    /\ acc = [evsets |-> acc.evsets, found |-> acc.found, next |-> acc.next,
              regions |-> acc.regions]
    /\ Evsets(acc.evsets, S, W) /\ acc.found = Cardinality(Full(acc.evsets, S, W))
    /\ acc.next \in Nat

\* The outcome of a line that the constructor looks at: it is left, or it joins its set.
Took(acc, r, line, S, W) ==
    /\ Tallied(r, S, W) /\ r.regions = acc.regions
    /\ \/ r = acc
       \/ /\ ~Complete(acc) /\ r.next = line + 1
          /\ \A x : Reserved(r.evsets, S, x) => Reserved(acc.evsets, S, x) \/ x = line

LEMMA LineTaken ==
    ASSUME NEW S \in Nat \ {0}, NEW W \in Nat \ {0}, S = Sets(0), W = WaysOf(0),
           NEW acc, Tallied(acc, S, W), NEW line \in Nat, ~Reserved(acc.evsets, S, line)
    PROVE  Took(acc, TakeLine(acc, line), line, S, W)
  <1> DEFINE r == TakeLine(acc, line)
             s == line % S
             e == acc.evsets
             t == Append(e[s], line)
             d == [e EXCEPT ![s] = t]
             m == Len(e[s]) + 1
             q == acc.found + IF m = W THEN 1 ELSE 0
  <1>1. s \in 0..(S - 1) /\ e \in [0..(S - 1) -> Seq(Nat)]
    BY DEF Tallied, Evsets
  <1>2. CASE Complete(acc) \/ Len(e[s]) >= W
    <2>1. r = acc
      BY <1>2 DEF TakeLine
    <2>2. QED
      BY <2>1 DEF Took
  <1>3. CASE ~(Complete(acc) \/ Len(e[s]) >= W)
    <2>1. r = [evsets |-> d, found |-> q, next |-> line + 1, regions |-> acc.regions]
      <3>1. r = [acc EXCEPT !.evsets[s] = t, !.next = line + 1, !.found = q]
        BY <1>3 DEF TakeLine
      <3> HIDE DEF t, q, s, r
      <3>2. acc = [evsets |-> e, found |-> acc.found, next |-> acc.next, regions |-> acc.regions]
        BY DEF Tallied
      <3>3. [acc EXCEPT !.evsets[s] = t, !.next = line + 1, !.found = q]
              = [acc EXCEPT !.evsets = d, !.next = line + 1, !.found = q]
        OBVIOUS
      <3> HIDE DEF d, e
      <3>4. [acc EXCEPT !.evsets = d, !.next = line + 1, !.found = q]
              = [evsets |-> d, found |-> q, next |-> line + 1, regions |-> acc.regions]
        <4>1. PICK a, b, g : a = acc.found /\ b = acc.next /\ g = acc.regions
          OBVIOUS
        <4>2. acc = [evsets |-> e, found |-> a, next |-> b, regions |-> g]
          BY <3>2, <4>1, Zenon
        <4>3. [acc EXCEPT !.evsets = d, !.next = line + 1, !.found = q]
                = [evsets |-> d, found |-> q, next |-> line + 1, regions |-> g]
          <5> DEFINE u == [acc EXCEPT !.evsets = d]
                     v == [u EXCEPT !.next = line + 1]
          <5>1. [acc EXCEPT !.evsets = d, !.next = line + 1, !.found = q] = [v EXCEPT !.found = q]
            OBVIOUS
          <5>2. u = [evsets |-> d, found |-> a, next |-> b, regions |-> g]
            BY <4>2
          <5> HIDE DEF u
          <5>3. v = [evsets |-> d, found |-> a, next |-> line + 1, regions |-> g]
            BY <5>2
          <5> HIDE DEF v
          <5>4. [v EXCEPT !.found = q]
                  = [evsets |-> d, found |-> q, next |-> line + 1, regions |-> g]
            BY <5>3
          <5>5. QED
            BY <5>1, <5>4
        <4>4. QED
          BY <4>1, <4>3, Zenon
      <3>5. QED
        BY <3>1, <3>3, <3>4
    <2>2. /\ r.evsets = d /\ r.found = q /\ r.next = line + 1 /\ r.regions = acc.regions
          /\ r = [evsets |-> r.evsets, found |-> r.found, next |-> r.next, regions |-> r.regions]
      BY <2>1
    <2> HIDE DEF r
    <2>3. e[s] \in Seq(Nat) /\ Len(e[s]) \in Nat /\ Len(e[s]) < W /\ line % S = s
      BY <1>1, <1>3
    <2>4. line \notin Range(e[s])
      BY <1>1 DEF Reserved
    <2>5. /\ t \in Seq(Nat) /\ Len(t) = m /\ Range(t) = Range(e[s]) \cup {line}
          /\ \A j, k \in 1..Len(t) : t[j] = t[k] => j = k
      <3>1. \A j, k \in 1..Len(e[s]) : e[s][j] = e[s][k] => j = k
        BY <1>1 DEF Tallied, Evsets
      <3>2. PICK z : z = e[s]
        OBVIOUS
      <3>3. /\ z \in Seq(Nat) /\ line \notin Range(z)
            /\ \A j, k \in 1..Len(z) : z[j] = z[k] => j = k
        BY <2>3, <2>4, <3>1, <3>2
      <3>4. /\ Append(z, line) \in Seq(Nat) /\ Len(Append(z, line)) = Len(z) + 1
            /\ Range(Append(z, line)) = Range(z) \cup {line}
            /\ \A j, k \in 1..Len(Append(z, line)) :
                  Append(z, line)[j] = Append(z, line)[k] => j = k
        BY <3>3, AppendFacts
      <3>5. QED
        BY <3>2, <3>4
    <2> HIDE DEF t
    <2>6. /\ d \in [0..(S - 1) -> Seq(Nat)] /\ d[s] = t
          /\ \A u \in 0..(S - 1) : u # s => d[u] = e[u]
      BY <1>1, <2>5
    <2> HIDE DEF d, e, s
    <2>7. Evsets(e, S, W) /\ acc.found = Cardinality(Full(e, S, W))
      BY DEF Tallied, e
    <2>8. Evsets(d, S, W)
      <3> SUFFICES ASSUME NEW u \in 0..(S - 1)
                   PROVE  /\ Len(d[u]) <= W
                          /\ \A x \in Range(d[u]) : x % S = u
                          /\ \A i, j \in 1..Len(d[u]) : d[u][i] = d[u][j] => i = j
        BY <2>6 DEF Evsets
      <3>1. CASE u = s
        <4>1. \A x \in Range(e[s]) : x % S = s
          BY <1>1, <2>7 DEF Evsets
        <4>2. d[u] = t /\ Len(t) <= W
          BY <2>3, <2>5, <2>6, <3>1
        <4>3. \A x \in Range(t) : x % S = u
          BY <2>3, <2>5, <3>1, <4>1
        <4>4. QED
          BY <2>5, <4>2, <4>3, Zenon
      <3>2. CASE u # s
        BY <2>6, <2>7, <3>2 DEF Evsets
      <3>3. QED
        BY <3>1, <3>2
    <2>9. q = Cardinality(Full(d, S, W))
      <3>1. IsFiniteSet(Full(e, S, W)) /\ Cardinality(Full(e, S, W)) \in Nat
        <4>1. IsFiniteSet(0..(S - 1)) /\ Full(e, S, W) \subseteq 0..(S - 1)
          <5>1. 0 \in Int /\ S - 1 \in Int
            OBVIOUS
          <5>2. QED
            BY <5>1, FS_Interval DEF Full
        <4>2. QED
          BY <4>1, FS_Subset, FS_CardinalityType
      <3>2. s \notin Full(e, S, W)
        BY <2>3 DEF Full
      <3>3. CASE m = W
        <4>1. Full(d, S, W) = Full(e, S, W) \cup {s}
          BY <1>1, <2>5, <2>6, <3>3 DEF Full
        <4>2. Cardinality(Full(d, S, W)) = Cardinality(Full(e, S, W)) + 1
          BY <3>1, <3>2, <4>1, FS_AddElement
        <4>3. QED
          BY <2>7, <3>3, <4>2
      <3>4. CASE m # W
        <4>1. Full(d, S, W) = Full(e, S, W)
          BY <1>1, <2>5, <2>6, <3>2, <3>4 DEF Full
        <4>2. QED
          BY <2>7, <3>1, <3>4, <4>1
      <3>5. QED
        BY <3>3, <3>4
    <2>10. \A x : Reserved(d, S, x) => Reserved(e, S, x) \/ x = line
      BY <1>1, <2>5, <2>6 DEF Reserved
    <2>11. Tallied(r, S, W)
      BY <2>2, <2>8, <2>9 DEF Tallied
    <2>12. QED
      BY <1>3, <2>2, <2>10, <2>11, Zenon DEF r, e, Took
  <1>4. QED
    BY <1>2, <1>3

\* What can be offered of the regions.
Pieces == {memory.regions[i] : i \in 1..Len(memory.regions)}
            \cup {Rest(memory.regions[i], b) : i \in 1..Len(memory.regions), b \in Nat}

Earlier(k, x) == \E j \in 1..k : x \in LinesOf(memory.regions[j])
Part(p, j) == /\ LinesOf(p) \subseteq LinesOf(memory.regions[j])
              /\ p.physical_base - p.base
                   = memory.regions[j].physical_base - memory.regions[j].base

\* The constructor after k regions.
Opened(acc, k, S, W) ==
    /\ Tallied(acc, S, W) /\ acc.regions \in Seq(Pieces)
    /\ \A x : Reserved(acc.evsets, S, x) => Earlier(k, x)
    /\ Complete(acc) \/ acc.regions = <<>>
    /\ \A i \in 1..Len(acc.regions) :
          /\ acc.regions[i].size > 0 /\ \E j \in 1..k : Part(acc.regions[i], j)
          /\ \A x \in LinesOf(acc.regions[i]) : ~Reserved(acc.evsets, S, x)
    /\ \A i, j \in 1..Len(acc.regions) :
          i # j => LinesOf(acc.regions[i]) \cap LinesOf(acc.regions[j]) = {}

\* The constructor after n lines of the region behind k regions.
Within(acc, k, n, region, S, W) ==
    /\ Tallied(acc, S, W)
    /\ \A x : Reserved(acc.evsets, S, x) => Earlier(k, x) \/ x \in region.base..(region.base + n - 1)
    /\ Complete(acc) =>
          /\ acc.next \in (region.base + 1)..(region.base + n)
          /\ \A x : Reserved(acc.evsets, S, x)
                      => Earlier(k, x) \/ x \in region.base..(acc.next - 1)

\* The lines of one region: an eviction set takes a line that no set has, and nothing is
\* taken when all are complete.
LEMMA LinesTaken ==
    ASSUME memory \in Memories, NEW S \in Nat \ {0}, NEW W \in Nat \ {0},
           S = Sets(0), W = WaysOf(0), NEW k \in 0..(Len(memory.regions) - 1),
           NEW acc, Opened(acc, k, S, W), ~Complete(acc)
    PROVE  LET region == memory.regions[k + 1]
               taken == Accumulate(TakeLine, acc, [i \in 1..region.size |-> region.base + i - 1])
           IN  Within(taken, k, region.size, region, S, W) /\ taken.regions = acc.regions
  <1> DEFINE region == memory.regions[k + 1]
             n == region.size
             b == region.base
             s == [i \in 1..n |-> b + i - 1]
             loop == [name |-> "region"]
             taken == Accumulate(TakeLine, acc, s)
  <1>1. k + 1 \in 1..Len(memory.regions) /\ Len(memory.regions) \in Nat
    BY ShapeAssumption
  <1>2. n \in Nat \ {0} /\ b \in Nat
    BY <1>1, ShapeAssumption
  <1>3. ASSUME NEW x \in LinesOf(region) PROVE ~Earlier(k, x)
    <2> SUFFICES ASSUME NEW j \in 1..k, x \in LinesOf(memory.regions[j]) PROVE FALSE
      BY DEF Earlier
    <2>1. j \in 1..Len(memory.regions) /\ j # k + 1
      BY <1>1
    <2>2. LinesOf(memory.regions[j]) \cap LinesOf(region) = {}
      BY <1>1, <2>1, ShapeAssumption
    <2>3. QED
      BY <1>3, <2>2
  <1>4. Len(s) = n /\ Len(s) \in Nat /\ \A i \in 0..(n - 1) : s[i + 1] = b + i
    <2>1. Len(s) = n /\ n \in Nat
      BY <1>2
    <2>2. ASSUME NEW i \in 0..(n - 1) PROVE s[i + 1] = b + i
      <3>1. PICK N, B : N = n /\ B = b
        OBVIOUS
      <3>2. N \in Nat \ {0} /\ B \in Nat /\ i \in 0..(N - 1)
        BY <1>2, <3>1, Zenon
      <3>3. i + 1 \in 1..N /\ (B + (i + 1)) - 1 = B + i
        BY <3>2
      <3>4. i + 1 \in 1..n /\ (b + (i + 1)) - 1 = b + i
        BY <3>1, <3>3, Zenon
      <3> HIDE DEF n, b
      <3>5. QED
        BY <3>4
    <2>3. QED
      BY <2>1, <2>2
  <1> HIDE DEF s, n, b
  <1>5. taken = Looped(loop, acc, s)
    BY LinesLoop
  <1>6. PICK F : Ran(F, loop, acc, s) /\ Looped(loop, acc, s) = F[Len(s)]
    BY <1>4, LoopRan, Zenon
  <1>7. F[0] = acc /\ taken = F[n]
    BY <1>4, <1>5, <1>6, Zenon DEF Ran
  <1>8. \A x, e : Pass(loop, x, e) = TakeLine(x, e)
    BY DEF Pass
  <1> HIDE DEF loop, taken
  <1>9. ASSUME NEW i \in 0..(n - 1) PROVE F[i + 1] = TakeLine(F[i], b + i)
    <2>1. i + 1 \in 1..n /\ (i + 1) - 1 = i
      BY <1>2
    <2>2. F[i + 1] = Pass(loop, F[(i + 1) - 1], s[i + 1])
      BY <1>4, <1>6, <2>1, Zenon DEF Ran
    <2>3. QED
      BY <1>4, <1>8, <2>1, <2>2, Zenon
  <1>10. LinesOf(region) = b..(b + n - 1)
    BY DEF LinesOf, b, n
  <1> HIDE DEF region
  <1> DEFINE Ok(i) == Within(F[i], k, i, region, S, W) /\ F[i].regions = acc.regions
             T == {i \in 0..n : Ok(i)}
  <1>11. 0 \in T
    <2>1. Ok(0)
      BY <1>7, Zenon DEF Opened, Within
    <2> HIDE DEF Ok
    <2>2. QED
      BY <1>2, <2>1
  <1>12. ASSUME NEW i \in 0..(n - 1), i \in T PROVE i + 1 \in T
    <2>1. PICK x, z, y : x = F[i] /\ z = F[i + 1] /\ y = b + i
      OBVIOUS
    <2>2. /\ z = TakeLine(x, y) /\ Within(x, k, i, region, S, W) /\ x.regions = acc.regions
          /\ b = region.base
      BY <1>9, <1>12, <2>1, Zenon DEF b
    <2>3. /\ y \in Nat /\ y \in b..(b + n - 1) /\ y \notin b..(b + i - 1) /\ i + 1 \in 0..n
          /\ y + 1 \in (b + 1)..(b + (i + 1)) /\ (y + 1) - 1 = y
          /\ \A x0 \in b..(b + i - 1) : x0 \in b..(b + (i + 1) - 1) /\ x0 \in b..y
          /\ y \in b..(b + (i + 1) - 1) /\ y \in b..y
          /\ \A q \in (b + 1)..(b + i) : q \in (b + 1)..(b + (i + 1))
      BY <1>2, <2>1
    <2>4. /\ Tallied(x, S, W)
          /\ \A x0 : Reserved(x.evsets, S, x0) => Earlier(k, x0) \/ x0 \in b..(b + i - 1)
          /\ Complete(x) =>
               /\ x.next \in (b + 1)..(b + i)
               /\ \A x0 : Reserved(x.evsets, S, x0) => Earlier(k, x0) \/ x0 \in b..(x.next - 1)
      BY <2>2, Zenon DEF Within
    <2>5. ~Reserved(x.evsets, S, y)
      BY <1>3, <1>10, <2>3, <2>4, Zenon
    <2>6. /\ Tallied(z, S, W) /\ z.regions = x.regions
          /\ \/ z = x
             \/ /\ ~Complete(x) /\ z.next = y + 1
                /\ \A x0 : Reserved(z.evsets, S, x0) => Reserved(x.evsets, S, x0) \/ x0 = y
      <3>1. Took(x, TakeLine(x, y), y, S, W)
        BY <2>3, <2>4, <2>5, LineTaken
      <3>2. QED
        BY <2>2, <3>1, Zenon DEF Took
    <2>7. Within(z, k, i + 1, region, S, W)
      <3>1. CASE z = x
        BY <2>2, <2>3, <2>4, <2>6, <3>1, Zenon DEF Within
      <3>2. CASE z # x
        <4>1. z.next = y + 1 /\ z.next - 1 = y
          BY <2>3, <2>6, <3>2
        <4>2. \A x0 : Reserved(z.evsets, S, x0)
                        => Earlier(k, x0) \/ x0 \in b..(b + i - 1) \/ x0 = y
          BY <2>4, <2>6, <3>2, Zenon
        <4>3. \A x0 : Reserved(z.evsets, S, x0) => Earlier(k, x0) \/ x0 \in b..(b + (i + 1) - 1)
          BY <2>3, <4>2, Zenon
        <4>4. \A x0 : Reserved(z.evsets, S, x0) => Earlier(k, x0) \/ x0 \in b..(z.next - 1)
          BY <2>3, <4>1, <4>2, Zenon
        <4>5. z.next \in (b + 1)..(b + (i + 1))
          BY <2>3, <4>1
        <4>6. QED
          BY <2>2, <2>6, <4>3, <4>4, <4>5, Zenon DEF Within
      <3>3. QED
        BY <3>1, <3>2
    <2>8. Ok(i + 1)
      BY <2>1, <2>2, <2>6, <2>7, Zenon
    <2> HIDE DEF Ok
    <2>9. QED
      BY <2>3, <2>8
  <1> HIDE DEF T
  <1>13. \A i \in 0..n : i \in T
    BY <1>2, <1>11, <1>12, InductTo
  <1>14. n \in 0..n
    BY <1>2
  <1>15. Ok(n)
    BY <1>13, <1>14 DEF T
  <1>16. QED
    BY <1>7, <1>15, Zenon DEF taken, s, n, b, region

\* Offering one piece more.
LEMMA PieceOffered ==
    ASSUME NEW S \in Nat \ {0}, NEW W \in Nat \ {0}, NEW k \in Nat \ {0}, NEW acc,
           Opened(acc, k, S, W), Complete(acc), NEW p \in Pieces, p.size > 0, Part(p, k),
           \A x \in LinesOf(p) : ~Reserved(acc.evsets, S, x),
           \A i \in 1..Len(acc.regions) : LinesOf(acc.regions[i]) \cap LinesOf(p) = {}
    PROVE  Opened([acc EXCEPT !.regions = Append(@, p)], k, S, W)
  <1> DEFINE d == [acc EXCEPT !.regions = Append(@, p)]
             g == acc.regions
             h == Append(g, p)
             n == Len(g)
  <1>1. /\ d.evsets = acc.evsets /\ d.found = acc.found /\ d.next = acc.next /\ d.regions = h
        /\ d = [evsets |-> d.evsets, found |-> d.found, next |-> d.next, regions |-> d.regions]
    <2>1. PICK a, b, c, e : a = acc.evsets /\ b = acc.found /\ c = acc.next /\ e = acc.regions
      OBVIOUS
    <2>2. acc = [evsets |-> a, found |-> b, next |-> c, regions |-> e]
      BY <2>1, Zenon DEF Opened, Tallied
    <2>3. PICK q : q = Append(acc.regions, p)
      OBVIOUS
    <2>4. d = [acc EXCEPT !.regions = q]
      BY <2>3, Zenon
    <2>5. [[evsets |-> a, found |-> b, next |-> c, regions |-> e] EXCEPT !.regions = q]
            = [evsets |-> a, found |-> b, next |-> c, regions |-> q]
      OBVIOUS
    <2>6. d = [evsets |-> a, found |-> b, next |-> c, regions |-> q]
      BY <2>2, <2>4, <2>5, Zenon
    <2> HIDE DEF d
    <2>7. d.evsets = a /\ d.found = b /\ d.next = c /\ d.regions = q
      BY <2>6
    <2>8. h = q
      BY <2>3
    <2>9. QED
      BY <2>1, <2>6, <2>7, <2>8, Zenon
  <1> HIDE DEF d
  <1>2. /\ Tallied(acc, S, W) /\ g \in Seq(Pieces)
        /\ \A x : Reserved(acc.evsets, S, x) => Earlier(k, x)
        /\ \A i \in 1..n : /\ g[i].size > 0 /\ \E j \in 1..k : Part(g[i], j)
                           /\ \A x \in LinesOf(g[i]) : ~Reserved(acc.evsets, S, x)
        /\ \A i, j \in 1..n : i # j => LinesOf(g[i]) \cap LinesOf(g[j]) = {}
    BY DEF Opened
  <1> HIDE DEF g
  <1>3. /\ n \in Nat /\ h \in Seq(Pieces) /\ Len(h) = n + 1
        /\ \A i \in 1..n : h[i] = g[i]
        /\ h[n + 1] = p
        /\ \A i \in 1..(n + 1) : i \in 1..n \/ i = n + 1
    BY <1>2
  <1>4. Tallied(d, S, W) /\ Complete(d)
    <2>1. Tallied(d, S, W)
      BY <1>1, <1>2, Zenon DEF Tallied
    <2>2. QED
      BY <1>1, <2>1, Zenon DEF Complete
  <1> HIDE DEF h
  <1>5. ASSUME NEW i \in 1..Len(h)
        PROVE  /\ h[i].size > 0 /\ \E j \in 1..k : Part(h[i], j)
               /\ \A x \in LinesOf(h[i]) : ~Reserved(acc.evsets, S, x)
    <2>1. k \in 1..k
      OBVIOUS
    <2>2. CASE i \in 1..n
      BY <1>2, <1>3, <2>2, Zenon
    <2>3. CASE i = n + 1
      BY <1>3, <2>1, <2>3, Zenon
    <2>4. QED
      BY <1>3, <2>2, <2>3
  <1>6. ASSUME NEW i \in 1..Len(h), NEW j \in 1..Len(h), i # j
        PROVE  LinesOf(h[i]) \cap LinesOf(h[j]) = {}
    <2>1. \A q \in 1..n : LinesOf(g[q]) \cap LinesOf(p) = {} /\ LinesOf(p) \cap LinesOf(g[q]) = {}
      BY DEF g
    <2>2. CASE i \in 1..n /\ j \in 1..n
      BY <1>2, <1>3, <1>6, <2>2, Zenon
    <2>3. CASE i \in 1..n /\ j = n + 1
      BY <1>3, <2>1, <2>3, Zenon
    <2>4. CASE i = n + 1 /\ j \in 1..n
      BY <1>3, <2>1, <2>4, Zenon
    <2>5. QED
      BY <1>3, <1>6, <2>2, <2>3, <2>4
  <1>7. Opened(d, k, S, W)
    BY <1>1, <1>2, <1>3, <1>4, <1>5, <1>6, Zenon DEF Opened
  <1>8. QED
    BY <1>7 DEF d

\* One region: what is offered of it is what the eviction sets left.
LEMMA RegionTaken ==
    ASSUME memory \in Memories, NEW S \in Nat \ {0}, NEW W \in Nat \ {0},
           S = Sets(0), W = WaysOf(0), NEW k \in 0..(Len(memory.regions) - 1),
           NEW acc, Opened(acc, k, S, W)
    PROVE  Opened(TakeRegion(acc, memory.regions[k + 1]), k + 1, S, W)
  <1> DEFINE region == memory.regions[k + 1]
             taken == Accumulate(TakeLine, acc, [i \in 1..region.size |-> region.base + i - 1])
             r == TakeRegion(acc, region)
  <1>1. /\ k + 1 \in 1..Len(memory.regions) /\ Len(memory.regions) \in Nat /\ k + 1 \in Nat \ {0}
        /\ \A j \in 1..k : j \in 1..(k + 1) /\ j \in 1..Len(memory.regions) /\ j # k + 1
        /\ k + 1 \in 1..(k + 1)
    BY ShapeAssumption
  <1>2. region.size \in Nat \ {0} /\ region.base \in Nat /\ region.physical_base \in Nat
    BY <1>1, ShapeAssumption
  <1>3. \A j \in 1..k : LinesOf(memory.regions[j]) \cap LinesOf(region) = {}
    BY <1>1, ShapeAssumption
  <1>4. \A x : Earlier(k, x) => Earlier(k + 1, x)
    BY <1>1, Zenon DEF Earlier
  <1>5. \A x \in LinesOf(region) : Earlier(k + 1, x)
    BY <1>1, Zenon DEF Earlier
  <1>6. CASE Complete(acc)
    <2>1. r = [acc EXCEPT !.regions = Append(@, region)]
      BY <1>6 DEF TakeRegion
    <2>2. Opened(acc, k + 1, S, W)
      <3>1. \A i \in 1..Len(acc.regions) : \E j \in 1..(k + 1) : Part(acc.regions[i], j)
        BY <1>1, Zenon DEF Opened
      <3>2. QED
        BY <1>4, <3>1, Zenon DEF Opened
    <2>3. region \in Pieces /\ region.size > 0 /\ Part(region, k + 1)
      BY <1>1, <1>2 DEF Pieces, Part
    <2>4. \A x \in LinesOf(region) : ~Reserved(acc.evsets, S, x)
      <3> SUFFICES ASSUME NEW x \in LinesOf(region), Reserved(acc.evsets, S, x) PROVE FALSE
        OBVIOUS
      <3>1. PICK j \in 1..k : x \in LinesOf(memory.regions[j])
        BY Zenon DEF Opened, Earlier
      <3>2. QED
        BY <1>3, <3>1
    <2>5. ASSUME NEW i \in 1..Len(acc.regions)
          PROVE  LinesOf(acc.regions[i]) \cap LinesOf(region) = {}
      <3>1. PICK j \in 1..k : Part(acc.regions[i], j)
        BY Zenon DEF Opened
      <3>2. LinesOf(acc.regions[i]) \subseteq LinesOf(memory.regions[j])
        BY <3>1, Zenon DEF Part
      <3>3. QED
        BY <1>3, <3>2
    <2> HIDE DEF region
    <2>6. PICK p, q : p = region /\ q = k + 1
      OBVIOUS
    <2>7. Opened([acc EXCEPT !.regions = Append(@, p)], q, S, W)
      <3>1. /\ q \in Nat \ {0} /\ Opened(acc, q, S, W) /\ p \in Pieces /\ p.size > 0 /\ Part(p, q)
            /\ \A x \in LinesOf(p) : ~Reserved(acc.evsets, S, x)
            /\ \A i \in 1..Len(acc.regions) : LinesOf(acc.regions[i]) \cap LinesOf(p) = {}
        BY <1>1, <2>2, <2>3, <2>4, <2>5, <2>6, Zenon
      <3>2. QED
        BY <1>6, <3>1, PieceOffered
    <2>8. QED
      BY <2>1, <2>6, <2>7, Zenon DEF region
  <1>7. CASE ~Complete(acc)
    <2>1. Within(taken, k, region.size, region, S, W) /\ taken.regions = acc.regions
      BY <1>7, LinesTaken
    <2> HIDE DEF taken
    <2>2. taken.regions = <<>> /\ Len(taken.regions) = 0
      BY <1>7, <2>1 DEF Opened
    <2>3. \A x : Reserved(taken.evsets, S, x) => Earlier(k, x) \/ x \in LinesOf(region)
      BY <2>1, Zenon DEF Within, LinesOf
    <2>4. Opened(taken, k + 1, S, W)
      <3>1. \A x : Reserved(taken.evsets, S, x) => Earlier(k + 1, x)
        BY <1>4, <1>5, <2>3, Zenon
      <3>2. taken.regions \in Seq(Pieces) /\ \A i : ~(i \in 1..Len(taken.regions))
        BY <2>2
      <3>3. Tallied(taken, S, W)
        BY <2>1 DEF Within
      <3>4. QED
        BY <2>2, <3>1, <3>2, <3>3, Zenon DEF Opened
    <2>5. CASE Complete(taken) /\ taken.next < region.base + region.size
      <3> DEFINE piece == Rest(region, taken.next)
      <3>1. r = [taken EXCEPT !.regions = Append(@, piece)]
        BY <1>7, <2>5 DEF TakeRegion, taken
      <3>2. PICK b, n, f, a : /\ b = region.base /\ n = region.size /\ f = region.physical_base
                              /\ a = taken.next
        OBVIOUS
      <3>3. /\ b \in Nat /\ n \in Nat \ {0} /\ f \in Nat /\ a \in (b + 1)..(b + n) /\ a < b + n
            /\ \A x : Reserved(taken.evsets, S, x) => Earlier(k, x) \/ x \in b..(a - 1)
        BY <1>2, <2>1, <2>5, <3>2, Zenon DEF Within
      <3>4. piece = [base |-> a, physical_base |-> f + a - b, size |-> n - (a - b)]
        BY <3>2 DEF Rest
      <3>5. /\ piece.base = a /\ piece.physical_base = f + a - b /\ piece.size = n - (a - b)
            /\ piece.size > 0
        BY <3>3, <3>4
      <3>6. LinesOf(piece) = a..(b + n - 1) /\ LinesOf(region) = b..(b + n - 1)
        <4>1. a + ((n - (a - b)) - 1) = b + (n - 1)
          BY <3>3
        <4>2. LinesOf(piece) = a..(a + ((n - (a - b)) - 1)) /\ LinesOf(region) = b..(b + (n - 1))
          BY <3>2, <3>5, Zenon DEF LinesOf
        <4>3. QED
          BY <4>1, <4>2, Zenon
      <3>7. Part(piece, k + 1)
        <4>1. (f + a - b) - a = f - b
          BY <3>3
        <4>2. LinesOf(piece) \subseteq LinesOf(region)
          BY <3>3, <3>6
        <4>3. piece.physical_base - piece.base = region.physical_base - region.base
          BY <3>2, <3>5, <4>1
        <4>4. QED
          BY <4>2, <4>3, Zenon DEF Part
      <3>8. piece \in Pieces
        <4>1. a \in Nat
          BY <3>3
        <4>2. QED
          BY <1>1, <3>2, <4>1 DEF Pieces
      <3>9. \A x \in LinesOf(piece) : ~Reserved(taken.evsets, S, x)
        <4> SUFFICES ASSUME NEW x \in LinesOf(piece), Reserved(taken.evsets, S, x) PROVE FALSE
          OBVIOUS
        <4>1. x \in LinesOf(region) /\ x \notin b..(a - 1)
          BY <3>3, <3>6
        <4>2. PICK j \in 1..k : x \in LinesOf(memory.regions[j])
          BY <3>3, <4>1, Zenon DEF Earlier
        <4>3. QED
          BY <1>3, <4>1, <4>2
      <3>10. \A i \in 1..Len(taken.regions) : LinesOf(taken.regions[i]) \cap LinesOf(piece) = {}
        BY <2>2
      <3> HIDE DEF piece
      <3>11. PICK acc2, p, q : acc2 = taken /\ p = piece /\ q = k + 1
        OBVIOUS
      <3>12. Opened([acc2 EXCEPT !.regions = Append(@, p)], q, S, W)
        <4>1. /\ q \in Nat \ {0} /\ Opened(acc2, q, S, W) /\ p \in Pieces /\ p.size > 0 /\ Part(p, q)
              /\ \A x \in LinesOf(p) : ~Reserved(acc2.evsets, S, x)
              /\ \A i \in 1..Len(acc2.regions) : LinesOf(acc2.regions[i]) \cap LinesOf(p) = {}
              /\ Complete(acc2)
          BY <1>1, <2>4, <2>5, <3>5, <3>7, <3>8, <3>9, <3>10, <3>11, Zenon
        <4>2. QED
          BY <4>1, PieceOffered
      <3>13. QED
        BY <3>1, <3>11, <3>12, Zenon
    <2>6. CASE ~(Complete(taken) /\ taken.next < region.base + region.size)
      <3>1. r = taken
        BY <1>7, <2>6 DEF TakeRegion, taken
      <3>2. QED
        BY <2>4, <3>1, Zenon
    <2>7. QED
      BY <2>5, <2>6
  <1>8. QED
    BY <1>6, <1>7

\* The constructor offers nothing before its eviction sets are complete.
LEMMA ConstructedFacts ==
    ASSUME memory \in Memories, NEW S \in Nat \ {0}, NEW W \in Nat \ {0},
           S = Sets(0), W = WaysOf(0)
    PROVE  Opened(Constructed, Len(memory.regions), S, W)
  <1> DEFINE s == memory.regions
             n == Len(s)
             base == [evsets |-> [u \in 0..(Sets(0) - 1) |-> <<>>], found |-> 0, next |-> 0,
                      regions |-> <<>>]
             loop == [name |-> "regions"]
  <1>1. n \in Nat
    BY ShapeAssumption
  <1>2. Constructed = Looped(loop, base, s)
    <2>1. Constructed = Accumulate(TakeRegion, base, s)
      BY Zenon DEF Constructed
    <2>2. QED
      BY <2>1, RegionsLoop
  <1>3. PICK F : Ran(F, loop, base, s) /\ Looped(loop, base, s) = F[n]
    BY <1>1, LoopRan, Zenon
  <1>4. F[0] = base /\ Constructed = F[n]
    BY <1>2, <1>3, Zenon DEF Ran
  <1>5. \A x, e : Pass(loop, x, e) = TakeRegion(x, e)
    BY DEF Pass
  <1>6. Opened(base, 0, S, W)
    <2> DEFINE e == [u \in 0..(S - 1) |-> <<>>]
    <2>1. /\ base.evsets = e /\ base.found = 0 /\ base.next = 0 /\ base.regions = <<>>
          /\ base = [evsets |-> base.evsets, found |-> base.found, next |-> base.next,
                     regions |-> base.regions]
      OBVIOUS
    <2> HIDE DEF base
    <2>2. e \in [0..(S - 1) -> Seq(Nat)] /\ \A u \in 0..(S - 1) : e[u] = <<>> /\ Len(e[u]) = 0
      OBVIOUS
    <2>3. \A u \in 0..(S - 1) : Range(e[u]) = {}
      BY <2>2 DEF Range
    <2>4. Evsets(e, S, W)
      BY <2>2, <2>3 DEF Evsets
    <2>5. Full(e, S, W) = {}
      BY <2>2 DEF Full
    <2>6. Tallied(base, S, W)
      BY <2>1, <2>4, <2>5, FS_EmptySet DEF Tallied
    <2>7. \A x : ~Reserved(base.evsets, S, x)
      BY <2>1, <2>3, Zenon DEF Reserved
    <2>8. base.regions \in Seq(Pieces) /\ \A i : ~(i \in 1..Len(base.regions))
      BY <2>1
    <2>9. QED
      BY <2>1, <2>6, <2>7, <2>8, Zenon DEF Opened
  <1> HIDE DEF loop, base
  <1> DEFINE T == {i \in 0..n : Opened(F[i], i, S, W)}
  <1>7. 0 \in T
    BY <1>1, <1>4, <1>6
  <1>8. ASSUME NEW i \in 0..(n - 1), i \in T PROVE i + 1 \in T
    <2>1. i + 1 \in 0..n /\ i + 1 \in 1..n /\ (i + 1) - 1 = i
      BY <1>1
    <2>2. F[i + 1] = Pass(loop, F[(i + 1) - 1], s[i + 1])
      BY <1>3, <2>1, Zenon DEF Ran
    <2>3. PICK x : x = F[i]
      OBVIOUS
    <2>4. F[i + 1] = TakeRegion(x, s[i + 1])
      BY <1>5, <2>1, <2>2, <2>3, Zenon
    <2>5. Opened(x, i, S, W)
      BY <1>8, <2>3
    <2>6. Opened(TakeRegion(x, s[i + 1]), i + 1, S, W)
      BY <2>5, RegionTaken
    <2>7. QED
      BY <2>1, <2>4, <2>6
  <1> HIDE DEF T
  <1>9. \A i \in 0..n : i \in T
    BY <1>1, <1>7, <1>8, InductTo
  <1>10. n \in 0..n
    BY <1>1
  <1>11. QED
    BY <1>4, <1>9, <1>10 DEF T

\* No step changes the memory, the eviction sets or what is offered.
LEMMA AdapterKept ==
    [NextAdapter]_vars => memory' = memory /\ evsets' = evsets /\ regions' = regions
  BY DEF NextAdapter, PlainAccess, BypassAccess, ArmAccess, AccessEvictionSet, AccessAgain, Access,
         vars, adapter, memory_vars

\* What the constructor of bypass_adapter leaves.
LEMMA ConstructedReserved ==
    ASSUME memory \in Memories, WaysOf(0) \in Nat \ {0}, memory.adapter = "bypass",
           evsets = Constructed.evsets, regions = Constructed.regions, regions # <<>>
    PROVE  EvsetsReserved
  <1>1. PICK b \in Nat : b = memory.shape[1].index_bits
    BY ShapeAssumption
  <1>2. Sets(0) = 2^b /\ 0 + 1 = 1
    BY <1>1 DEF Sets
  <1>3. PICK W \in Nat \ {0} : W = WaysOf(0)
    OBVIOUS
  <1>4. Doubling(b)
    <2>1. Ways(memory.shape[1].policy) = W
      BY <1>2, <1>3, Zenon DEF WaysOf
    <2>2. 1 \in 1..Len(memory.shape)
      BY ShapeAssumption
    <2>3. \A k \in 0..(b + W) : 2^(k + 1) = 2 * 2^k
      BY <1>1, <2>1, <2>2, PowersAssumption
    <2>4. \A k \in 0..b : k \in 0..(b + W)
      OBVIOUS
    <2>5. 2^0 = 1
      BY PowersAssumption
    <2>6. QED
      BY <2>3, <2>4, <2>5 DEF Doubling
  <1>5. PICK S \in Nat \ {0} : S = Sets(0)
    <2>1. b \in 0..(b + 1)
      OBVIOUS
    <2>2. QED
      BY <1>2, <1>4, <2>1, Powers
  <1>6. PICK c : c = Constructed
    OBVIOUS
  <1>7. PICK n : n = Len(memory.regions)
    OBVIOUS
  <1>8. Opened(c, n, S, W)
    BY <1>3, <1>5, <1>6, <1>7, ConstructedFacts
  <1>9. Tallied(c, S, W) /\ Complete(c) /\ c.evsets = evsets /\ c.regions = regions
    BY <1>6, <1>8, Zenon DEF Opened
  <1>10. Evsets(evsets, S, W) /\ Cardinality(Full(evsets, S, W)) = S
    BY <1>5, <1>9, Zenon DEF Tallied, Complete
  <1>11. \A s \in 0..(S - 1) : Len(evsets[s]) = W
    <2>1. IsFiniteSet(0..(S - 1)) /\ Cardinality(0..(S - 1)) = S
      <3>1. 0 \in Int /\ S - 1 \in Int
        OBVIOUS
      <3>2. QED
        BY <3>1, FS_Interval
    <2>2. Full(evsets, S, W) \subseteq 0..(S - 1)
      BY DEF Full
    <2>3. Full(evsets, S, W) = 0..(S - 1)
      BY <1>10, <2>1, <2>2, FS_Subset
    <2>4. QED
      BY <2>3 DEF Full
  <1>12. \A l \in Offered : ~Reserved(evsets, S, l)
    <2>1. \A i \in 1..Len(regions) : \A l \in LinesOf(regions[i]) : ~Reserved(evsets, S, l)
      BY <1>8, <1>9, Zenon DEF Opened
    <2>2. QED
      BY <2>1 DEF Offered
  <1>13. ASSUME NEW s \in 0..(S - 1)
         PROVE  /\ Cardinality(Range(evsets[s])) = W /\ Len(evsets[s]) = W
                /\ \A l \in Range(evsets[s]) : l % S = s /\ l \notin Offered
    <2>1. PICK e : e = evsets[s]
      OBVIOUS
    <2>2. /\ e \in Seq(Nat) /\ Len(e) = W
          /\ \A x \in Range(e) : x % S = s
          /\ \A i, j \in 1..Len(e) : e[i] = e[j] => i = j
      BY <1>10, <1>11, <2>1 DEF Evsets
    <2>3. Cardinality(Range(e)) = W
      BY <2>2, DistinctCount, Zenon
    <2>4. \A l \in Range(e) : Reserved(evsets, S, l)
      BY <2>1, Zenon DEF Reserved
    <2>5. QED
      BY <1>12, <2>1, <2>2, <2>3, <2>4, Zenon
  <1>14. \A i \in 1..Len(regions) :
            regions[i].size > 0 /\ \E j \in 1..Len(memory.regions) : Part(regions[i], j)
    BY <1>7, <1>8, <1>9, Zenon DEF Opened
  <1>15. \A i, j \in 1..Len(regions) : i # j => LinesOf(regions[i]) \cap LinesOf(regions[j]) = {}
    BY <1>8, <1>9, Zenon DEF Opened
  <1>16. QED
    BY <1>3, <1>5, <1>13, <1>14, <1>15, Zenon DEF EvsetsReserved, Part

\* Whatever is accessed, the eviction sets of bypass_adapter stay complete and out of
\* the client's reach, and what an adapter offers is memory.  A memory that is too
\* small for the eviction sets offers nothing.
THEOREM EvictionSetsReserved ==
    Spec /\ WaysOf(0) \in Nat \ {0}
      => []((memory.adapter = "bypass" => regions # <<>>) => EvsetsReserved)
  <1> DEFINE Reservation == (memory.adapter = "bypass" => regions # <<>>) => EvsetsReserved
  <1>1. InitAdapter /\ WaysOf(0) \in Nat \ {0} => Reservation
    <2> SUFFICES ASSUME InitAdapter, WaysOf(0) \in Nat \ {0},
                        memory.adapter = "bypass" => regions # <<>>
                 PROVE  EvsetsReserved
      OBVIOUS
    <2>1. memory \in Memories
      BY DEF InitAdapter, Init
    <2>2. CASE memory.adapter = "bypass"
      <3>1. evsets = Constructed.evsets /\ regions = Constructed.regions
        BY <2>2, Zenon DEF InitAdapter
      <3>2. QED
        BY <2>1, <2>2, <3>1, ConstructedReserved
    <2>3. CASE memory.adapter # "bypass"
      <3>1. regions = memory.regions
        BY <2>3, Zenon DEF InitAdapter
      <3>2. \A i \in 1..Len(memory.regions) : memory.regions[i].size > 0
        BY <2>1, ShapeAssumption
      <3>3. \A i, j \in 1..Len(memory.regions) :
               i # j => LinesOf(memory.regions[i]) \cap LinesOf(memory.regions[j]) = {}
        BY <2>1, ShapeAssumption, Zenon
      <3>4. \A p : LinesOf(p) \subseteq LinesOf(p)
        OBVIOUS
      <3>5. QED
        BY <2>3, <3>1, <3>2, <3>3, <3>4, Zenon DEF EvsetsReserved
    <2>4. QED
      BY <2>2, <2>3
  <1>2. Reservation /\ [NextAdapter]_vars => Reservation'
    <2> SUFFICES ASSUME Reservation, [NextAdapter]_vars PROVE Reservation'
      OBVIOUS
    <2>1. memory' = memory /\ evsets' = evsets /\ regions' = regions
      BY AdapterKept
    <2>2. EvsetsReserved => EvsetsReserved'
      <3> SUFFICES ASSUME EvsetsReserved PROVE EvsetsReserved'
        OBVIOUS
      <3>1. Sets(0)' = Sets(0) /\ WaysOf(0)' = WaysOf(0) /\ Offered' = Offered
        BY <2>1 DEF Sets, WaysOf, Offered
      <3>2. ASSUME memory'.adapter = "bypass", NEW s \in 0..(Sets(0)' - 1)
            PROVE  /\ Cardinality(Range(evsets'[s])) = WaysOf(0)' /\ Len(evsets'[s]) = WaysOf(0)'
                   /\ \A l \in Range(evsets'[s]) : l % Sets(0)' = s /\ l \notin Offered'
        <4>1. memory.adapter = "bypass" /\ s \in 0..(Sets(0) - 1)
          BY <2>1, <3>1, <3>2, Zenon
        <4>2. /\ Cardinality(Range(evsets[s])) = WaysOf(0) /\ Len(evsets[s]) = WaysOf(0)
              /\ \A l \in Range(evsets[s]) : l % Sets(0) = s /\ l \notin Offered
          BY <4>1, Zenon DEF EvsetsReserved
        <4>3. QED
          BY <2>1, <3>1, <4>2, Zenon
      <3>3. ASSUME NEW i \in 1..Len(regions')
            PROVE  /\ regions'[i].size > 0
                   /\ \E j \in 1..Len(memory'.regions) :
                         /\ LinesOf(regions'[i]) \subseteq LinesOf(memory'.regions[j])
                         /\ regions'[i].physical_base - regions'[i].base
                              = memory'.regions[j].physical_base - memory'.regions[j].base
        BY <2>1, <3>3, Zenon DEF EvsetsReserved
      <3>4. \A i, j \in 1..Len(regions') :
               i # j => LinesOf(regions'[i]) \cap LinesOf(regions'[j]) = {}
        BY <2>1, Zenon DEF EvsetsReserved
      <3>5. QED
        BY <3>2, <3>3, <3>4, Zenon DEF EvsetsReserved
    <2>3. QED
      BY <2>1, <2>2, Zenon
  <1>3. QED
    BY <1>1, <1>2, PTL DEF Spec

-----------------------------------------------------------------------------
(* What the hierarchy keeps.                                               *)

\* The lines of a level are what it holds.
ContentsIn(c, l) == (UNION {Range(c[l + 1].data[s]) : s \in 0..(Sets(l) - 1)}) \ {Invalid}

LEMMA ContentsFacts ==
    ASSUME Built, NEW c, Hierarchy(c), NEW l \in 0..(levels - 1)
    PROVE  \A y : y \in ContentsIn(c, l) <=> y \in Nat /\ Holds(c, l, y)
  <1>1. PICK k, S, n : k = c[l + 1] /\ S = Sets(l) /\ n = WaysOf(l)
    OBVIOUS
  <1>2. S \in Nat \ {0} /\ n \in Nat \ {0} /\ Placed(k, S, n)
    BY <1>1, Shape DEF Dimensions, Hierarchy
  <1>3. PICK d : d = k.data
    OBVIOUS
  <1>4. /\ d \in [0..(S - 1) -> [0..(n - 1) -> Nat \cup {Invalid}]]
        /\ \A s \in 0..(S - 1), w \in 0..(n - 1) : d[s][w] # Invalid => d[s][w] % S = s
    BY <1>2, <1>3, CacheFields DEF Placed
  <1>5. \A y : y \in ContentsIn(c, l) <=> y # Invalid /\ \E s \in 0..(S - 1) : y \in Range(d[s])
    <2> DEFINE U == {Range(d[s]) : s \in 0..(S - 1)}
    <2>1. ContentsIn(c, l) = (UNION U) \ {Invalid}
      BY <1>1, <1>3, Zenon DEF ContentsIn
    <2>2. \A r : r \in U <=> \E s \in 0..(S - 1) : r = Range(d[s])
      BY Zenon
    <2> HIDE DEF U
    <2>3. \A y : y \in UNION U <=> \E s \in 0..(S - 1) : y \in Range(d[s])
      BY <2>2
    <2>4. QED
      BY <2>1, <2>3
  <1>6. \A y : Holds(c, l, y) <=> \E w \in 0..(n - 1) : d[y % S][w] = y
    BY <1>1, <1>3, Zenon DEF Holds, In
  <1>7. Invalid \notin Nat
    BY DEF Invalid
  <1>8. ASSUME NEW y \in ContentsIn(c, l) PROVE y \in Nat /\ Holds(c, l, y)
    <2>1. PICK s \in 0..(S - 1) : y \in Range(d[s]) /\ y # Invalid
      BY <1>5
    <2>2. DOMAIN d[s] = 0..(n - 1)
      BY <1>4
    <2>3. PICK w \in 0..(n - 1) : y = d[s][w]
      BY <2>1, <2>2 DEF Range
    <2>4. y \in Nat /\ y % S = s
      <3>1. d[s][w] \in Nat \cup {Invalid}
        BY <1>4
      <3>2. d[s][w] # Invalid => d[s][w] % S = s
        BY <1>4
      <3>3. QED
        BY <2>1, <2>3, <3>1, <3>2, Zenon
    <2>5. QED
      BY <1>6, <2>3, <2>4
  <1>9. ASSUME NEW y \in Nat, Holds(c, l, y) PROVE y \in ContentsIn(c, l)
    <2>1. PICK w \in 0..(n - 1) : d[y % S][w] = y
      BY <1>6, <1>9
    <2>2. y % S \in 0..(S - 1)
      BY <1>2
    <2>3. DOMAIN d[y % S] = 0..(n - 1)
      BY <1>4, <2>2
    <2>4. y \in Range(d[y % S])
      BY <2>1, <2>3 DEF Range
    <2>5. y # Invalid
      BY <1>7
    <2>6. QED
      BY <1>5, <2>2, <2>4, <2>5, Zenon
  <1>10. QED
    BY <1>8, <1>9

\* The caches of a memory that was never accessed.
LEMMA ColdHierarchy ==
    ASSUME Built
    PROVE  Hierarchy(Cold)
  <1>1. levels \in Nat \ {0} /\ \A l \in 0..(levels - 1) : Dimensions(l)
    BY Shape
  <1>2. PICK c : c = Cold
    OBVIOUS
  <1>3. c = [i \in 1..levels |-> NewCache(i - 1)]
    BY <1>2, Zenon DEF Cold
  <1>4. c = [i \in 1..levels |-> c[i]]
    BY <1>1, <1>3
  <1>5. ASSUME NEW l \in 0..(levels - 1) PROVE Placed(c[l + 1], Sets(l), WaysOf(l))
    <2>1. PICK S, n, p : S = Sets(l) /\ n = WaysOf(l) /\ p = memory.shape[l + 1].policy
      OBVIOUS
    <2>2. S \in Nat \ {0} /\ n \in Nat \ {0} /\ p \in Policies(n)
      BY <1>1, <2>1, Zenon DEF Dimensions
    <2>3. l + 1 \in 1..levels /\ (l + 1) - 1 = l
      BY <1>1
    <2>4. c[l + 1] = NewCache(l)
      BY <1>3, <2>3
    <2>5. PICK k : k = c[l + 1]
      OBVIOUS
    <2>6. k = [data        |-> [s \in 0..(S - 1) |-> [w \in 0..(n - 1) |-> Invalid]],
               replacement |-> [s \in 0..(S - 1) |-> p]]
      BY <2>1, <2>4, <2>5, Zenon DEF NewCache
    <2>7. /\ k.data = [s \in 0..(S - 1) |-> [w \in 0..(n - 1) |-> Invalid]]
          /\ k.replacement = [s \in 0..(S - 1) |-> p]
      BY <2>6
    <2>8. k \in CachesOf(S, n)
      <3>1. k.data \in [0..(S - 1) -> [0..(n - 1) -> Nat \cup {Invalid}]]
        BY <2>7
      <3>2. k.replacement \in [0..(S - 1) -> Policies(n)]
        BY <2>2, <2>7
      <3>3. k = [data |-> k.data, replacement |-> k.replacement]
        BY <2>6, <2>7, Zenon
      <3>4. QED
        BY <3>1, <3>2, <3>3 DEF CachesOf
    <2>9. \A s \in 0..(S - 1), w \in 0..(n - 1) : k.data[s][w] = Invalid
      BY <2>7
    <2>10. Placed(k, S, n)
      BY <2>8, <2>9, Zenon DEF Placed
    <2>11. QED
      BY <2>1, <2>5, <2>10, Zenon
  <1>6. QED
    BY <1>2, <1>4, <1>5, Zenon DEF Hierarchy

\* armv8_bypass_adapter empties a set.
LEMMA SetInvalidated ==
    ASSUME Built, NEW c, Hierarchy(c), NEW s \in 0..(Sets(0) - 1)
    PROVE  /\ Hierarchy(invalidate_set(c, s))
           /\ \A w \in 0..(WaysOf(0) - 1) : invalidate_set(c, s)[1].data[s][w] = Invalid
           /\ \A l \in 1..(levels - 1) : invalidate_set(c, s)[l + 1] = c[l + 1]
  <1>1. levels \in Nat \ {0} /\ Dimensions(0)
    BY Shape
  <1>2. PICK S, n : S = Sets(0) /\ n = WaysOf(0)
    OBVIOUS
  <1>3. S \in Nat \ {0} /\ n \in Nat \ {0} /\ s \in 0..(S - 1)
    BY <1>1, <1>2, Zenon DEF Dimensions
  <1>4. c = [i \in 1..levels |-> c[i]] /\ Placed(c[0 + 1], S, n) /\ 0 + 1 = 1
    <2>1. 0 \in 0..(levels - 1) /\ 0 + 1 = 1
      BY <1>1
    <2>2. QED
      BY <1>2, <2>1, Zenon DEF Hierarchy
  <1>5. PICK k, d, r : k = c[1] /\ d = k.data /\ r = k.replacement
    OBVIOUS
  <1>6. /\ Placed(k, S, n)
        /\ k = [data |-> d, replacement |-> r]
        /\ d \in [0..(S - 1) -> [0..(n - 1) -> Nat \cup {Invalid}]]
        /\ r \in [0..(S - 1) -> Policies(n)]
    <2>1. Placed(k, S, n) /\ k \in CachesOf(S, n)
      <3>1. c[0 + 1] = c[1]
        OBVIOUS
      <3>2. QED
        <4>1. Placed(k, S, n)
          BY <1>4, <1>5, <3>1, Zenon
        <4>2. QED
          BY <4>1 DEF Placed
    <2>2. /\ k = [data |-> k.data, replacement |-> k.replacement]
          /\ k.data \in [0..(S - 1) -> [0..(n - 1) -> Nat \cup {Invalid}]]
          /\ k.replacement \in [0..(S - 1) -> Policies(n)]
      BY <1>3, <2>1, CacheFields, Zenon
    <2>3. QED
      BY <1>5, <2>1, <2>2, Zenon
  <1> DEFINE none == [w \in 0..(n - 1) |-> Invalid]
             q == [k EXCEPT !.data = [d EXCEPT ![s] = none]]
             e == [c EXCEPT ![1] = q]
  <1>7. invalidate_set(c, s) = e
    <2>1. invalidate_set(c, s) = [c EXCEPT ![1] = [c[1] EXCEPT !.data = [c[1].data EXCEPT ![s] = none]]]
      BY <1>2 DEF invalidate_set
    <2>2. QED
      BY <1>5, <2>1, Zenon
  <1>8. q = [data |-> [d EXCEPT ![s] = none], replacement |-> r]
    <2>1. PICK u : u = [d EXCEPT ![s] = none]
      OBVIOUS
    <2>2. [[data |-> d, replacement |-> r] EXCEPT !.data = u] = [data |-> u, replacement |-> r]
      OBVIOUS
    <2>3. QED
      BY <1>6, <2>1, <2>2, Zenon
  <1> HIDE DEF q
  <1>9. q.data = [d EXCEPT ![s] = none] /\ q.replacement = r
    BY <1>8
  <1>10. q \in CachesOf(S, n)
    <2>1. none \in [0..(n - 1) -> Nat \cup {Invalid}]
      OBVIOUS
    <2> HIDE DEF none
    <2>2. q.data \in [0..(S - 1) -> [0..(n - 1) -> Nat \cup {Invalid}]]
      BY <1>6, <1>9, <2>1
    <2>3. q = [data |-> q.data, replacement |-> q.replacement]
      BY <1>8, <1>9, Zenon
    <2>4. QED
      BY <1>6, <1>9, <2>2, <2>3 DEF CachesOf
  <1>11. \A t \in 0..(S - 1), w \in 0..(n - 1) : q.data[t][w] = IF t = s THEN Invalid ELSE d[t][w]
    BY <1>3, <1>6, <1>9
  <1>12. Placed(q, S, n)
    <2>1. /\ \A t \in 0..(S - 1), w \in 0..(n - 1) : d[t][w] # Invalid => d[t][w] % S = t
          /\ \A t \in 0..(S - 1), v, w \in 0..(n - 1) : d[t][v] = d[t][w] /\ d[t][v] # Invalid => v = w
      BY <1>5, <1>6, Zenon DEF Placed
    <2>2. \A t \in 0..(S - 1), w \in 0..(n - 1) : q.data[t][w] # Invalid => q.data[t][w] % S = t
      BY <1>11, <2>1
    <2>3. \A t \in 0..(S - 1), v, w \in 0..(n - 1) :
             q.data[t][v] = q.data[t][w] /\ q.data[t][v] # Invalid => v = w
      BY <1>11, <2>1
    <2>4. QED
      BY <1>10, <2>2, <2>3, Zenon DEF Placed
  <1>13. e[1] = q /\ \A l \in 1..(levels - 1) : e[l + 1] = c[l + 1]
    <2>1. 1 \in 1..levels /\ \A l \in 1..(levels - 1) : l + 1 # 1 /\ l + 1 \in 1..levels
      BY <1>1
    <2>2. QED
      BY <1>4, <2>1
  <1>14. e = [i \in 1..levels |-> e[i]]
    <2>1. DOMAIN c = 1..levels
      BY <1>4
    <2>2. QED
      BY <2>1
  <1> HIDE DEF e
  <1>15. Hierarchy(e)
    <2>1. ASSUME NEW l \in 0..(levels - 1) PROVE Placed(e[l + 1], Sets(l), WaysOf(l))
      <3>1. CASE l = 0
        BY <1>2, <1>4, <1>12, <1>13, <3>1, Zenon
      <3>2. CASE l # 0
        <4>1. l \in 1..(levels - 1)
          BY <3>2
        <4>2. QED
          BY <1>13, <4>1, Zenon DEF Hierarchy
      <3>3. QED
        BY <3>1, <3>2
    <2>2. QED
      BY <1>14, <2>1, Zenon DEF Hierarchy
  <1>16. \A w \in 0..(n - 1) : e[1].data[s][w] = Invalid
    BY <1>3, <1>11, <1>13
  <1>17. QED
    BY <1>2, <1>7, <1>13, <1>15, <1>16, Zenon

\* An access keeps the hierarchy.
LEMMA AccessKeeps ==
    ASSUME Built, NEW c, Hierarchy(c), NEW line \in Nat
    PROVE  Hierarchy(do_access(c, line)) /\ Level(c, line) \in 0..levels
  <1>1. PICK G : AccessRun(G, c, line)
    BY AccessRuns
  <1>2. PICK n : n = Level(c, line)
    OBVIOUS
  <1>3. n \in 0..levels /\ levels \in Nat
    BY <1>2, FoundFacts, Shape
  <1>4. n \in 0..n
    BY <1>3
  <1>5. QED
    BY <1>1, <1>2, <1>3, <1>4, Zenon DEF AccessRun

\* The invariant of a memory of usual levels behind its adapter.
MemoryInv ==
    /\ Built /\ Hierarchy(caches)
    /\ Offered \subseteq Nat
    /\ memory.adapter = "bypass" => evsets \in [0..(Sets(0) - 1) -> Seq(Nat)]
    /\ accessed \in Nat \cup {Invalid} /\ rest \in Seq(Nat)
    /\ pc = "retry" => memory.adapter = "bypass" /\ accessed \in Nat

LEMMA MemoryInit == InitAdapter /\ Usual(memory) => MemoryInv
  <1> SUFFICES ASSUME InitAdapter, Usual(memory) PROVE MemoryInv
    OBVIOUS
  <1>1. memory \in Memories /\ caches = Cold /\ accessed = Invalid
    BY DEF InitAdapter, Init
  <1>2. pc = "idle" /\ rest = <<>>
    BY DEF InitAdapter
  <1>3. Built
    BY <1>1 DEF Built
  <1>4. Hierarchy(caches)
    BY <1>1, <1>3, ColdHierarchy, Zenon
  <1>5. \A i \in 1..Len(memory.regions) : LinesOf(memory.regions[i]) \subseteq Nat
    <2>1. ASSUME NEW i \in 1..Len(memory.regions)
          PROVE  LinesOf(memory.regions[i]) \subseteq Nat
      <3>1. PICK b, n : b = memory.regions[i].base /\ n = memory.regions[i].size
        OBVIOUS
      <3>2. b \in Nat /\ n \in Nat
        BY <1>1, <3>1, ShapeAssumption
      <3>3. LinesOf(memory.regions[i]) = b..(b + (n - 1))
        BY <3>1, Zenon DEF LinesOf
      <3>4. QED
        BY <3>2, <3>3
    <2>2. QED
      BY <2>1
  <1>6. CASE memory.adapter = "bypass"
    <2>1. evsets = Constructed.evsets /\ regions = Constructed.regions
      BY <1>6, Zenon DEF InitAdapter
    <2>2. PICK S, W, n, c : /\ S = Sets(0) /\ W = WaysOf(0) /\ n = Len(memory.regions)
                            /\ c = Constructed
      OBVIOUS
    <2>3. S \in Nat \ {0} /\ W \in Nat \ {0}
      <3>1. Dimensions(0)
        <4>1. 0 \in 0..(levels - 1)
          BY <1>3, Shape
        <4>2. QED
          BY <1>3, <4>1, Shape
      <3>2. QED
        BY <2>2, <3>1, Zenon DEF Dimensions
    <2>4. Opened(c, n, S, W)
      BY <1>1, <2>2, <2>3, ConstructedFacts
    <2>5. evsets \in [0..(S - 1) -> Seq(Nat)]
      BY <2>1, <2>2, <2>4, Zenon DEF Opened, Tallied, Evsets
    <2>6. ASSUME NEW i \in 1..Len(regions) PROVE LinesOf(regions[i]) \subseteq Nat
      <3>1. PICK j \in 1..n : Part(regions[i], j)
        BY <2>1, <2>2, <2>4, Zenon DEF Opened
      <3>2. LinesOf(regions[i]) \subseteq LinesOf(memory.regions[j])
        BY <3>1, Zenon DEF Part
      <3>3. LinesOf(memory.regions[j]) \subseteq Nat
        BY <1>5, <2>2
      <3>4. QED
        BY <3>2, <3>3
    <2>7. Offered \subseteq Nat
      BY <2>6 DEF Offered
    <2>8. QED
      BY <1>1, <1>2, <1>3, <1>4, <2>2, <2>5, <2>7 DEF MemoryInv
  <1>7. CASE memory.adapter # "bypass"
    <2>1. regions = memory.regions
      BY <1>7, Zenon DEF InitAdapter
    <2>2. Offered \subseteq Nat
      BY <1>5, <2>1 DEF Offered
    <2>3. QED
      BY <1>1, <1>2, <1>3, <1>4, <1>7, <2>2 DEF MemoryInv
  <1>8. QED
    BY <1>6, <1>7

\* What a step does to the caches.
Accessing(line) == caches' = do_access(caches, line)
Isolated(line) ==
    LET s == line % Sets(0)
    IN  caches' = invalidate_set(do_access(invalidate_set(caches, s), line), s)

LEMMA Steps ==
    MemoryInv /\ [NextAdapter]_vars =>
      \/ caches' = caches
      \/ memory.adapter # "armv8" /\ \E line \in Nat : Accessing(line)
      \/ memory.adapter = "armv8" /\ \E line \in Nat : Isolated(line)
  <1> SUFFICES ASSUME MemoryInv, [NextAdapter]_vars
               PROVE  \/ caches' = caches
                      \/ memory.adapter # "armv8" /\ \E line \in Nat : Accessing(line)
                      \/ memory.adapter = "armv8" /\ \E line \in Nat : Isolated(line)
    OBVIOUS
  <1>1. /\ Offered \subseteq Nat /\ rest \in Seq(Nat)
        /\ pc = "retry" => memory.adapter = "bypass" /\ accessed \in Nat
    BY DEF MemoryInv
  <1>2. ASSUME NEW line \in Offered, PlainAccess(line)
        PROVE  memory.adapter # "armv8" /\ line \in Nat /\ Accessing(line)
    BY <1>1, <1>2 DEF PlainAccess, Access, Accessing
  <1>3. ASSUME NEW line \in Offered, BypassAccess(line)
        PROVE  memory.adapter # "armv8" /\ line \in Nat /\ Accessing(line)
    BY <1>1, <1>3 DEF BypassAccess, Access, Accessing
  <1>4. ASSUME NEW line \in Offered, ArmAccess(line)
        PROVE  memory.adapter = "armv8" /\ line \in Nat /\ Isolated(line)
    BY <1>1, <1>4 DEF ArmAccess, Isolated
  <1>5. ASSUME AccessEvictionSet
        PROVE  memory.adapter # "armv8" /\ Head(rest) \in Nat /\ Accessing(Head(rest))
    BY <1>1, <1>5 DEF AccessEvictionSet, Accessing
  <1>6. ASSUME AccessAgain
        PROVE  memory.adapter # "armv8" /\ accessed \in Nat /\ Accessing(accessed)
    BY <1>1, <1>6 DEF AccessAgain, Access, Accessing
  <1>7. ASSUME vars' = vars PROVE caches' = caches
    BY <1>7 DEF vars, memory_vars
  <1>8. QED
    BY <1>2, <1>3, <1>4, <1>5, <1>6, <1>7, Zenon DEF NextAdapter

\* The numbers of the levels stay.
LEMMA ShapeKept ==
    ASSUME memory' = memory
    PROVE  /\ levels' = levels /\ Built' = Built
           /\ \A l : /\ Sets(l)' = Sets(l) /\ WaysOf(l)' = WaysOf(l)
                     /\ get_inclusiveness(l)' = get_inclusiveness(l)
  BY DEF levels, Built, Sets, WaysOf, get_inclusiveness

LEMMA MemoryNext == MemoryInv /\ [NextAdapter]_vars => MemoryInv'
  <1> SUFFICES ASSUME MemoryInv, [NextAdapter]_vars PROVE MemoryInv'
    OBVIOUS
  <1>1. memory' = memory /\ evsets' = evsets /\ regions' = regions
    BY AdapterKept
  <1>2. /\ Built /\ Hierarchy(caches) /\ Offered \subseteq Nat /\ rest \in Seq(Nat)
        /\ memory.adapter = "bypass" => evsets \in [0..(Sets(0) - 1) -> Seq(Nat)]
        /\ accessed \in Nat \cup {Invalid}
        /\ pc = "retry" => memory.adapter = "bypass" /\ accessed \in Nat
    BY DEF MemoryInv
  <1>3. /\ levels' = levels /\ Built' /\ Offered' = Offered
        /\ \A l : Sets(l)' = Sets(l) /\ WaysOf(l)' = WaysOf(l)
    BY <1>1, <1>2, ShapeKept DEF Offered
  <1>4. levels \in Nat \ {0} /\ Sets(0) \in Nat \ {0}
    <2>1. levels \in Nat \ {0} /\ \A l \in 0..(levels - 1) : Dimensions(l)
      BY <1>2, Shape
    <2>2. 0 \in 0..(levels - 1)
      BY <2>1
    <2>3. QED
      BY <2>1, <2>2, Zenon DEF Dimensions
  <1>5. ASSUME NEW line \in Nat PROVE line % Sets(0) \in 0..(Sets(0) - 1)
    BY <1>4
  <1>6. ASSUME NEW d, d = caches', Hierarchy(d) PROVE Hierarchy(caches)'
    BY <1>3, <1>6, Zenon DEF Hierarchy
  <1>7. Hierarchy(caches)'
    <2>1. CASE caches' = caches
      BY <1>2, <1>6, <2>1, Zenon
    <2>2. ASSUME NEW line \in Nat, Accessing(line) PROVE Hierarchy(caches)'
      <3>1. PICK d : d = do_access(caches, line)
        OBVIOUS
      <3>2. Hierarchy(d)
        BY <1>2, <3>1, AccessKeeps
      <3>3. QED
        BY <1>6, <2>2, <3>1, <3>2, Zenon DEF Accessing
    <2>3. ASSUME NEW line \in Nat, Isolated(line) PROVE Hierarchy(caches)'
      <3>1. PICK s : s = line % Sets(0)
        OBVIOUS
      <3>2. s \in 0..(Sets(0) - 1)
        BY <1>5, <3>1
      <3>3. PICK c : c = invalidate_set(caches, s)
        OBVIOUS
      <3>4. Hierarchy(c)
        BY <1>2, <3>2, <3>3, SetInvalidated
      <3>5. PICK d : d = do_access(c, line)
        OBVIOUS
      <3>6. Hierarchy(d)
        BY <1>2, <3>4, <3>5, AccessKeeps
      <3>7. PICK e : e = invalidate_set(d, s)
        OBVIOUS
      <3>8. Hierarchy(e)
        BY <1>2, <3>2, <3>6, <3>7, SetInvalidated
      <3>9. QED
        BY <1>6, <2>3, <3>1, <3>3, <3>5, <3>7, <3>8, Zenon DEF Isolated
    <2>4. QED
      BY <2>1, <2>2, <2>3, Steps
  <1>8. memory'.adapter = "bypass" => evsets' \in [0..(Sets(0)' - 1) -> Seq(Nat)]
    BY <1>1, <1>2, <1>3
  <1> DEFINE Typed == /\ accessed' \in Nat \cup {Invalid} /\ rest' \in Seq(Nat)
                      /\ pc' = "retry" => memory.adapter = "bypass" /\ accessed' \in Nat
  <1>9. Typed
    <2>1. ASSUME memory.adapter = "bypass", NEW line \in Nat
          PROVE  evsets[line % Sets(0)] \in Seq(Nat)
      BY <1>2, <1>5, <2>1
    <2>2. ASSUME NEW line \in Offered, PlainAccess(line) PROVE Typed
      BY <1>2, <2>2 DEF PlainAccess, Access
    <2>3. ASSUME NEW line \in Offered, BypassAccess(line) PROVE Typed
      BY <1>2, <2>1, <2>3 DEF BypassAccess, Access
    <2>4. ASSUME NEW line \in Offered, ArmAccess(line) PROVE Typed
      BY <1>2, <2>4 DEF ArmAccess
    <2>5. ASSUME AccessEvictionSet PROVE Typed
      BY <1>2, <2>5 DEF AccessEvictionSet
    <2>6. ASSUME AccessAgain PROVE Typed
      BY <1>2, <2>1, <2>6 DEF AccessAgain, Access
    <2>7. ASSUME vars' = vars PROVE Typed
      BY <1>2, <2>7 DEF vars, memory_vars, adapter
    <2>8. QED
      BY <2>2, <2>3, <2>4, <2>5, <2>6, <2>7, Zenon DEF NextAdapter
  <1>10. QED
    BY <1>1, <1>2, <1>3, <1>7, <1>8, <1>9 DEF MemoryInv

\* Lines keep to their sets, each at most once per level, in every memory whose levels have
\* the policies FIFO, LRU and tree-PLRU.
THEOREM MemoryInvariant == Spec /\ Usual(memory) => []MemoryInv
  <1>1. InitAdapter /\ Usual(memory) => MemoryInv
    BY MemoryInit
  <1>2. MemoryInv /\ [NextAdapter]_vars => MemoryInv'
    BY MemoryNext
  <1>3. QED
    BY <1>1, <1>2, PTL DEF Spec

\* A victim of level 0 is in level 1 after the access, or an inclusive level lost it.
LEMMA VictimsStep ==
    ASSUME MemoryInv, [NextAdapter]_vars, levels > 1, memory.adapter # "armv8",
           NEW y \in Contents(0) \ Contents(0)'
    PROVE  \/ y \in Contents(1)'
           \/ \E k \in 1..(levels - 1) : /\ get_inclusiveness(k) = "inclusive"
                                         /\ y \notin Contents(k)'
  <1>1. Built /\ Hierarchy(caches) /\ memory' = memory
    BY AdapterKept DEF MemoryInv
  <1>2. /\ levels \in Nat \ {0} /\ 0 \in 0..(levels - 1) /\ 1 \in 0..(levels - 1)
        /\ \A k \in 1..(levels - 1) : k \in 0..(levels - 1) /\ k \in 0..k
    BY <1>1, Shape
  <1>3. Contents(0) = ContentsIn(caches, 0)
    BY Zenon DEF Contents, ContentsIn
  <1>4. ASSUME NEW l PROVE Contents(l)' = ContentsIn(caches', l)
    <2>1. Sets(l)' = Sets(l)
      BY <1>1, ShapeKept
    <2>2. QED
      BY <2>1, Zenon DEF Contents, ContentsIn
  <1>5. CASE caches' = caches
    BY <1>3, <1>4, <1>5, Zenon
  <1>6. ASSUME NEW line \in Nat, Accessing(line)
        PROVE  \/ y \in Contents(1)'
               \/ \E k \in 1..(levels - 1) : /\ get_inclusiveness(k) = "inclusive"
                                             /\ y \notin Contents(k)'
    <2>1. PICK c, d : c = caches /\ d = do_access(c, line)
      OBVIOUS
    <2>2. caches' = d /\ Hierarchy(c)
      BY <1>1, <1>6, <2>1, Zenon DEF Accessing
    <2>3. /\ Hierarchy(d)
          /\ \A z \in Nat : Holds(c, 0, z) /\ ~Holds(d, 0, z) => Gone(d, z) \/ Holds(d, 1, z)
      BY <1>1, <2>1, <2>2, AccessLosses
    <2>4. \A l \in 0..(levels - 1) : \A z : z \in ContentsIn(c, l) <=> z \in Nat /\ Holds(c, l, z)
      BY <1>1, <2>2, ContentsFacts
    <2>5. \A l \in 0..(levels - 1) : \A z : z \in ContentsIn(d, l) <=> z \in Nat /\ Holds(d, l, z)
      BY <1>1, <2>3, ContentsFacts
    <2>6. y \in Nat /\ Holds(c, 0, y) /\ ~Holds(d, 0, y)
      BY <1>2, <1>3, <1>4, <2>1, <2>2, <2>4, <2>5, Zenon
    <2>7. CASE Holds(d, 1, y)
      BY <1>2, <1>4, <2>2, <2>5, <2>6, <2>7, Zenon
    <2>8. CASE Gone(d, y)
      <3>1. PICK k \in 1..(levels - 1) : get_inclusiveness(k) = "inclusive" /\ ~Holds(d, k, y)
        BY <1>2, <2>8, Zenon DEF Gone
      <3>2. y \notin Contents(k)'
        BY <1>2, <1>4, <2>2, <2>5, <3>1, Zenon
      <3>3. QED
        BY <3>1, <3>2
    <2>9. QED
      BY <2>3, <2>6, <2>7, <2>8, Zenon
  <1>7. QED
    BY <1>5, <1>6, Steps

\* Whatever the fills of an access do in the levels, a line that they evict from level 0 is in
\* level 1 afterwards, unless an inclusive level lost it at the same time.
THEOREM VictimsAreKept == Spec /\ Usual(memory) => VictimsKept
  <1> DEFINE A == (levels > 1 /\ memory.adapter # "armv8") =>
                     \A line \in Contents(0) \ Contents(0)' :
                        \/ line \in Contents(1)'
                        \/ \E k \in 1..(levels - 1) : /\ get_inclusiveness(k) = "inclusive"
                                                      /\ line \notin Contents(k)'
  <1>1. MemoryInv /\ [NextAdapter]_vars => [A]_memory_vars
    <2> SUFFICES ASSUME MemoryInv, [NextAdapter]_vars, levels > 1, memory.adapter # "armv8",
                        NEW line \in Contents(0) \ Contents(0)'
                 PROVE  \/ line \in Contents(1)'
                        \/ \E k \in 1..(levels - 1) : /\ get_inclusiveness(k) = "inclusive"
                                                      /\ line \notin Contents(k)'
      BY Zenon
    <2>1. QED
      BY VictimsStep
  <1>2. Spec /\ Usual(memory) => []MemoryInv
    BY MemoryInvariant
  <1>3. QED
    BY <1>1, <1>2, PTL DEF Spec, VictimsKept

-----------------------------------------------------------------------------
(* Cyclic eviction.                                                        *)

\* An age after i misses of n ways.
Later(a, i, n) == IF a + i < n THEN a + i ELSE a + i - n

LEMMA LaterFacts ==
    ASSUME NEW n \in Nat \ {0}, NEW a \in 0..(n - 1)
    PROVE  /\ Later(a, 0, n) = a
           /\ \A i \in 0..(n - 1) :
                 Later(a, i + 1, n) = IF Later(a, i, n) = n - 1 THEN 0 ELSE Later(a, i, n) + 1
           /\ \A i, j \in 0..(n - 1) : Later(a, i, n) = n - 1 /\ Later(a, j, n) = n - 1 => i = j
  BY DEF Later

\* As many misses as there are ways replace all, from every object of the policies.
LEMMA Cyclic ==
    ASSUME NEW n \in Nat \ {0}, NEW p \in Policies(n)
    PROVE  check_cyclic_eviction(p)
  <1> DEFINE base == [policy |-> p, ways |-> {}]
             s == [i \in 1..n |-> i]
             loop == [name |-> "evict"]
  <1>1. Ways(p) = n
    BY PolicySteps
  <1>2. Len(s) = n /\ Len(s) \in Nat
    OBVIOUS
  <1>3. EvictedBy(p, n) = Looped(loop, base, s).ways
    <2>1. EvictedBy(p, n) = Accumulate(LAMBDA acc, i : [policy |-> Miss(acc.policy).policy,
                                             ways |-> acc.ways \cup {Miss(acc.policy).way}],
                                       base, s).ways
      BY Zenon DEF EvictedBy
    <2>2. QED
      BY <2>1, EvictLoop, Zenon
  <1>4. PICK F : Ran(F, loop, base, s) /\ Looped(loop, base, s) = F[Len(s)]
    BY <1>2, LoopRan, Zenon
  <1>5. \A x, y : Pass(loop, x, y) = Evict(x)
    BY DEF Pass
  <1>6. F[0] = base /\ base.policy = p /\ base.ways = {}
    BY <1>4, Zenon DEF Ran
  <1>7. EvictedBy(p, n) = F[n].ways
    BY <1>2, <1>3, <1>4, Zenon
  <1>8. \A i \in 1..n : F[i] = Pass(loop, F[i - 1], s[i])
    BY <1>2, <1>4, Zenon DEF Ran
  <1> HIDE DEF base, s, loop
  <1>9. ASSUME NEW i \in 0..(n - 1)
        PROVE  /\ F[i + 1].policy = Miss(F[i].policy).policy
               /\ F[i + 1].ways = F[i].ways \cup {Miss(F[i].policy).way}
    <2>1. i + 1 \in 1..n /\ (i + 1) - 1 = i
      OBVIOUS
    <2>2. F[i + 1] = Evict(F[i])
      BY <1>5, <1>8, <2>1, Zenon
    <2>3. QED
      BY <2>2 DEF Evict
  <1> DEFINE e == [j \in 0..(n - 1) |-> Miss(F[j].policy).way]
             Aged(i) == \A w \in 0..(n - 1) : Age(F[i].policy, w) = Later(Age(p, w), i, n)
             T == {i \in 0..n : /\ F[i].policy \in Policies(n) /\ Aged(i)
                                /\ F[i].ways = {e[j] : j \in 0..(i - 1)}}
  <1>10. \A w \in 0..(n - 1) : Age(p, w) \in 0..(n - 1)
    BY Ages
  <1>11. \A j \in 0..(n - 1) : e[j] = Miss(F[j].policy).way
    OBVIOUS
  <1> HIDE DEF e
  <1>12. 0 \in T
    <2>1. Aged(0)
      BY <1>6, <1>10, LaterFacts
    <2>2. F[0].ways = {e[j] : j \in 0..(0 - 1)}
      BY <1>6
    <2>3. QED
      BY <1>6, <2>1, <2>2
  <1>13. ASSUME NEW i \in 0..(n - 1), i \in T PROVE i + 1 \in T
    <2>1. PICK q, r, v : q = F[i].policy /\ r = Miss(q).policy /\ v = Miss(q).way
      OBVIOUS
    <2>2. q \in Policies(n) /\ Aged(i) /\ F[i].ways = {e[j] : j \in 0..(i - 1)}
      BY <1>13, <2>1
    <2>3. F[i + 1].policy = r /\ F[i + 1].ways = F[i].ways \cup {v} /\ e[i] = v
      BY <1>9, <1>11, <2>1, Zenon
    <2>4. r \in Policies(n)
      BY <2>1, <2>2, PolicySteps
    <2>5. ASSUME NEW w \in 0..(n - 1) PROVE Age(r, w) = Later(Age(p, w), i + 1, n)
      <3>1. PICK a, x, y : a = Age(p, w) /\ x = Age(q, w) /\ y = Age(r, w)
        OBVIOUS
      <3>2. /\ x \in 0..(n - 1)
            /\ IF w = v THEN x = n - 1 /\ y = 0 ELSE y = x + 1
        BY <2>1, <2>2, <3>1, Ages
      <3>3. y \in 0..(n - 1)
        BY <2>4, <3>1, Ages
      <3>4. a \in 0..(n - 1) /\ x = Later(a, i, n)
        BY <1>10, <2>1, <2>2, <3>1, Zenon
      <3>5. Later(a, i + 1, n) = IF x = n - 1 THEN 0 ELSE x + 1
        BY <3>4, LaterFacts
      <3>6. y = IF x = n - 1 THEN 0 ELSE x + 1
        BY <3>2, <3>3
      <3>7. QED
        BY <3>1, <3>5, <3>6
    <2>6. Aged(i + 1)
      BY <2>3, <2>5, Zenon
    <2>7. F[i + 1].ways = {e[j] : j \in 0..((i + 1) - 1)}
      <3>1. \A j : j \in 0..((i + 1) - 1) <=> j \in 0..(i - 1) \/ j = i
        OBVIOUS
      <3>2. QED
        BY <2>2, <2>3, <3>1
    <2>8. i + 1 \in 0..n
      OBVIOUS
    <2>9. QED
      BY <2>3, <2>4, <2>6, <2>7, <2>8
  <1> HIDE DEF T
  <1>14. \A i \in 0..n : i \in T
    BY <1>12, <1>13, InductTo
  <1>15. ASSUME NEW i \in 0..(n - 1)
         PROVE  /\ e[i] \in 0..(n - 1)
                /\ Age(F[i].policy, e[i]) = n - 1
                /\ \A w \in 0..(n - 1) : Age(F[i].policy, w) = Later(Age(p, w), i, n)
    <2>1. i \in T
      BY <1>14
    <2>2. F[i].policy \in Policies(n) /\ Aged(i)
      BY <2>1, Zenon DEF T
    <2>3. e[i] = Miss(F[i].policy).way
      BY <1>11
    <2>4. e[i] \in 0..(n - 1)
      BY <2>2, <2>3, PolicySteps
    <2>5. Age(F[i].policy, e[i]) = n - 1
      BY <2>2, <2>3, <2>4, Ages
    <2>6. QED
      BY <2>2, <2>4, <2>5
  <1>16. ASSUME NEW i \in 0..(n - 1), NEW j \in 0..(n - 1), e[i] = e[j] PROVE i = j
    <2>1. PICK w, a : w = e[i] /\ a = Age(p, w)
      OBVIOUS
    <2>2. w \in 0..(n - 1) /\ Later(a, i, n) = n - 1 /\ Later(a, j, n) = n - 1
      BY <1>15, <1>16, <2>1, Zenon
    <2>3. a \in 0..(n - 1)
      BY <1>10, <2>1, <2>2
    <2>4. QED
      BY <2>2, <2>3, LaterFacts
  <1> DEFINE o == [k \in 1..n |-> e[k - 1]]
  <1>17. \A k \in 1..n : k - 1 \in 0..(n - 1) /\ o[k] = e[k - 1]
    OBVIOUS
  <1>18. o \in Orders(n)
    <2>1. o \in [1..n -> 0..(n - 1)]
      BY <1>15
    <2>2. ASSUME NEW k \in 1..n, NEW l \in 1..n, o[k] = o[l] PROVE k = l
      <3>1. k - 1 = l - 1
        BY <1>16, <1>17, <2>2
      <3>2. QED
        BY <3>1
    <2>3. QED
      BY <2>1, <2>2 DEF Orders
  <1> HIDE DEF o
  <1>19. \A w \in 0..(n - 1) : \E k \in 0..(n - 1) : e[k] = w
    BY <1>17, <1>18, EveryWay
  <1>20. F[n].ways = {e[j] : j \in 0..(n - 1)}
    <2>1. n \in T
      BY <1>14
    <2>2. QED
      BY <2>1 DEF T
  <1>21. F[n].ways = 0..(n - 1)
    BY <1>15, <1>19, <1>20
  <1>22. Cardinality(0..(n - 1)) = n
    <2>1. ~(0 > n - 1) /\ (n - 1) - 0 + 1 = n /\ 0 \in Int /\ n - 1 \in Int
      OBVIOUS
    <2>2. QED
      BY <2>1, FS_Interval
  <1>23. QED
    BY <1>1, <1>7, <1>21, <1>22, Zenon DEF check_cyclic_eviction

\* From every state of a memory of one level, as many misses as there are ways replace all
\* lines of the first set, whatever was accessed before.
THEOREM EvictionIsCyclic == Spec /\ Usual(memory) => []AlwaysCyclic
  <1>1. MemoryInv => AlwaysCyclic
    <2> SUFFICES ASSUME MemoryInv PROVE check_cyclic_eviction(policy)
      BY Zenon DEF AlwaysCyclic
    <2>1. PICK S, n, c : S = Sets(0) /\ n = WaysOf(0) /\ c = caches[1]
      OBVIOUS
    <2>2. 0 \in 0..(levels - 1) /\ 0 + 1 = 1
      BY Shape DEF MemoryInv
    <2>3. S \in Nat \ {0} /\ n \in Nat \ {0}
      BY <2>1, <2>2, Shape DEF MemoryInv, Dimensions
    <2>4. Placed(c, S, n)
      BY <2>1, <2>2, Zenon DEF MemoryInv, Hierarchy
    <2>5. c.replacement \in [0..(S - 1) -> Policies(n)]
      BY <2>3, <2>4, CacheFields DEF Placed
    <2>6. c.replacement[0] \in Policies(n)
      BY <2>3, <2>5
    <2>7. QED
      BY <2>1, <2>3, <2>6, Cyclic DEF policy
  <1>2. Spec /\ Usual(memory) => []MemoryInv
    BY MemoryInvariant
  <1>3. QED
    BY <1>1, <1>2, PTL

-----------------------------------------------------------------------------
(* What a fill brings to a level stays there while the access goes on.     *)

\* What a fill changes: one place, and the policy of its set.
Takes(c, r, line, S, n) ==
    LET s == line % S
        m == Miss(c.replacement[s])
    IN  /\ s \in 0..(S - 1) /\ m.way \in 0..(n - 1)
        /\ r.data[s][m.way] = line /\ r.replacement[s] = m.policy
        /\ \A t \in 0..(S - 1), u \in 0..(n - 1) :
              t # s \/ u # m.way => r.data[t][u] = c.data[t][u]
        /\ \A t \in 0..(S - 1) : t # s => r.replacement[t] = c.replacement[t]

LEMMA FillTakes ==
    ASSUME NEW S \in Nat \ {0}, NEW n \in Nat \ {0}, NEW c, Placed(c, S, n), NEW line \in Nat
    PROVE  /\ Has(c, line) => fill_cache(c, line).cache = c /\ fill_cache(c, line).victim = Invalid
           /\ ~Has(c, line) =>
                 /\ Takes(c, fill_cache(c, line).cache, line, S, n)
                 /\ fill_cache(c, line).victim
                      = c.data[line % S][Miss(c.replacement[line % S]).way]
  <1> DEFINE s == line % S
             m == Miss(c.replacement[s])
             v == m.way
             d == [c.data EXCEPT ![s] = [@ EXCEPT ![v] = line]]
             r == [c.replacement EXCEPT ![s] = m.policy]
             f == fill_cache(c, line)
  <1>1. c \in CachesOf(S, n)
    BY DEF Placed
  <1>2. /\ c.data \in [0..(S - 1) -> [0..(n - 1) -> Nat \cup {Invalid}]]
        /\ c.replacement \in [0..(S - 1) -> Policies(n)]
    BY <1>1, CacheFields
  <1>3. CASE Has(c, line)
    <2>1. f = [cache |-> c, victim |-> Invalid]
      BY <1>3 DEF fill_cache
    <2>2. f.cache = c /\ f.victim = Invalid
      BY <2>1
    <2>3. QED
      BY <1>3, <2>2
  <1>4. CASE ~Has(c, line)
    <2>1. /\ s \in 0..(S - 1) /\ v \in 0..(n - 1)
          /\ f = [cache |-> [data |-> d, replacement |-> r], victim |-> c.data[s][v]]
      BY <1>1, <1>4, ReplaceCache DEF fill_cache
    <2> HIDE DEF s, v, m
    <2>2. /\ d[s][v] = line
          /\ \A t \in 0..(S - 1), u \in 0..(n - 1) : t # s \/ u # v => d[t][u] = c.data[t][u]
          /\ r[s] = m.policy /\ \A t \in 0..(S - 1) : t # s => r[t] = c.replacement[t]
      BY <1>2, <2>1
    <2> HIDE DEF d, r, f
    <2>3. f.cache.data = d /\ f.cache.replacement = r /\ f.victim = c.data[s][v]
      BY <2>1
    <2>4. Takes(c, f.cache, line, S, n)
      BY <2>1, <2>2, <2>3, Zenon DEF Takes, s, m, v
    <2>5. QED
      BY <1>4, <2>3, <2>4, Zenon DEF f, s, m, v
  <1>5. QED
    BY <1>3, <1>4

\* A line that is in a cache, its way at most k misses old.
Young(c, S, n, y, k) ==
    \E w \in 0..(n - 1) : c.data[y % S][w] = y /\ Age(c.replacement[y % S], w) <= k

\* Filling with another line makes it older, filling with itself makes it new.
LEMMA YoungFill ==
    ASSUME NEW S \in Nat \ {0}, NEW n \in Nat \ {0}, NEW c, Placed(c, S, n), NEW line \in Nat
    PROVE  LET r == fill_cache(c, line).cache
           IN  /\ ~Has(c, line) => Young(r, S, n, line, 0)
               /\ \A y \in Nat, k \in Nat : k < n - 1 /\ Young(c, S, n, y, k) => Young(r, S, n, y, k + 1)
  <1> DEFINE r == fill_cache(c, line).cache
             s == line % S
             m == Miss(c.replacement[s])
  <1>1. c \in CachesOf(S, n)
    BY DEF Placed
  <1>2. \A t \in 0..(S - 1) : c.replacement[t] \in Policies(n)
    BY <1>1, CacheFields
  <1>3. CASE Has(c, line)
    <2>1. r = c
      BY <1>3, FillTakes
    <2> HIDE DEF r
    <2>2. ASSUME NEW y \in Nat, NEW k \in Nat, k < n - 1, Young(c, S, n, y, k)
          PROVE  Young(r, S, n, y, k + 1)
      <3>1. PICK w \in 0..(n - 1) : c.data[y % S][w] = y /\ Age(c.replacement[y % S], w) <= k
        BY <2>2 DEF Young
      <3>2. y % S \in 0..(S - 1)
        OBVIOUS
      <3>3. PICK a : a = Age(c.replacement[y % S], w)
        OBVIOUS
      <3>4. a \in 0..(n - 1)
        BY <1>2, <3>2, <3>3, Ages
      <3>5. a <= k + 1
        BY <3>1, <3>3, <3>4
      <3>6. QED
        BY <2>1, <3>1, <3>3, <3>5, Zenon DEF Young
    <2>3. QED
      BY <1>3, <2>2 DEF r
  <1>4. CASE ~Has(c, line)
    <2>1. Takes(c, r, line, S, n)
      BY <1>4, FillTakes
    <2> HIDE DEF r
    <2>2. /\ s \in 0..(S - 1) /\ m.way \in 0..(n - 1)
          /\ r.data[s][m.way] = line /\ r.replacement[s] = m.policy
          /\ \A t \in 0..(S - 1), u \in 0..(n - 1) :
                t # s \/ u # m.way => r.data[t][u] = c.data[t][u]
          /\ \A t \in 0..(S - 1) : t # s => r.replacement[t] = c.replacement[t]
      BY <2>1, Zenon DEF Takes
    <2>3. PICK p : p = c.replacement[s]
      OBVIOUS
    <2>4. p \in Policies(n) /\ m = Miss(p)
      BY <1>2, <2>2, <2>3
    <2>5. ASSUME NEW w \in 0..(n - 1)
          PROVE  /\ Age(p, w) \in 0..(n - 1)
                 /\ IF w = m.way THEN Age(p, w) = n - 1 /\ Age(m.policy, w) = 0
                    ELSE Age(m.policy, w) = Age(p, w) + 1
      BY <2>4, Ages
    <2> HIDE DEF s, m
    <2>6. Young(r, S, n, line, 0)
      <3>1. Age(m.policy, m.way) = 0 /\ 0 <= 0
        BY <2>2, <2>5
      <3>2. QED
        BY <2>2, <3>1, Zenon DEF Young, s
    <2>7. ASSUME NEW y \in Nat, NEW k \in Nat, k < n - 1, Young(c, S, n, y, k)
          PROVE  Young(r, S, n, y, k + 1)
      <3>1. PICK w \in 0..(n - 1) : c.data[y % S][w] = y /\ Age(c.replacement[y % S], w) <= k
        BY <2>7 DEF Young
      <3>2. y % S \in 0..(S - 1)
        OBVIOUS
      <3>3. PICK a : a = Age(c.replacement[y % S], w)
        OBVIOUS
      <3>4. a \in 0..(n - 1) /\ a <= k
        BY <1>2, <3>1, <3>2, <3>3, Ages
      <3>5. CASE y % S = s
        <4>1. a = Age(p, w)
          BY <2>3, <3>3, <3>5, Zenon
        <4>2. w # m.way
          BY <2>5, <2>7, <3>4, <4>1
        <4>3. Age(m.policy, w) = a + 1
          BY <2>5, <4>1, <4>2, Zenon
        <4>4. a + 1 <= k + 1
          BY <3>4
        <4>5. r.data[y % S][w] = y /\ Age(r.replacement[y % S], w) = a + 1
          BY <2>2, <3>1, <3>2, <3>5, <4>2, <4>3, Zenon
        <4>6. QED
          BY <4>4, <4>5, Zenon DEF Young
      <3>6. CASE y % S # s
        <4>1. r.data[y % S][w] = y /\ Age(r.replacement[y % S], w) = a
          BY <2>2, <3>1, <3>2, <3>3, <3>6, Zenon
        <4>2. a <= k + 1
          BY <3>4
        <4>3. QED
          BY <4>1, <4>2, Zenon DEF Young
      <3>7. QED
        BY <3>5, <3>6
    <2>8. QED
      BY <2>6, <2>7 DEF r
  <1>5. QED
    BY <1>3, <1>4, Zenon DEF r

\* No level invalidates or excludes what is below it: what get_inclusiveness returns.
Plain(m) == \A i \in 1..Len(m.shape) : m.shape[i].inclusiveness = "non_inclusive"

LEMMA PlainLevels ==
    ASSUME Built, Plain(memory)
    PROVE  \A l \in 0..(levels - 1) : get_inclusiveness(l) = "non_inclusive"
  <1>1. levels \in Nat
    BY Shape
  <1>2. \A l \in 0..(levels - 1) : l + 1 \in 1..Len(memory.shape)
    BY <1>1 DEF levels
  <1>3. QED
    BY <1>2, Zenon DEF Plain, get_inclusiveness

\* One level of back_fill: the line comes to the level, and those that came to the levels
\* above before it are older by one at most.
LEMMA YoungStep ==
    ASSUME Built, Plain(memory), NEW c, Hierarchy(c), NEW line \in Nat,
           NEW l \in 0..(levels - 1), ~Holds(c, l, line), NEW d, BackStep(c, d, line, l)
    PROVE  /\ \A k \in 0..(l - 1) : d[k + 1] = c[k + 1]
           /\ Young(d[l + 1], Sets(l), WaysOf(l), line, 0)
           /\ \A m \in (l + 1)..(levels - 1) : \A k \in Nat :
                 k < WaysOf(m) - 1 /\ Young(c[m + 1], Sets(m), WaysOf(m), line, k)
                   => Young(d[m + 1], Sets(m), WaysOf(m), line, k + 1)
  <1>1. levels \in Nat \ {0} /\ get_inclusiveness(l) = "non_inclusive"
    BY Shape, PlainLevels
  <1>2. PICK v : Cascade(c, d, v, line, l)
    BY <1>1 DEF BackStep
  <1>3. /\ v \in [l..levels -> Nat \cup {Invalid}] /\ v[l] = line
        /\ \A m \in l..(levels - 1) : Taken(c, d, m, v[m], v[m + 1])
        /\ Below(c, d, l, v[l + 1], TRUE)
    BY <1>2, Zenon DEF Cascade
  <1>4. ~("non_inclusive" = "inclusive")
    OBVIOUS
  <1>5. \A k \in 0..(l - 1) : d[k + 1] = c[k + 1]
    BY <1>1, <1>3, <1>4, Zenon DEF Below
  <1>6. ASSUME NEW m \in l..(levels - 1)
        PROVE  /\ m \in 0..(levels - 1) /\ Sets(m) \in Nat \ {0} /\ WaysOf(m) \in Nat \ {0}
               /\ Placed(c[m + 1], Sets(m), WaysOf(m))
               /\ v[m] \in Nat \cup {Invalid}
               /\ v[m] = Invalid => d[m + 1] = c[m + 1]
               /\ v[m] # Invalid => d[m + 1] = fill_cache(c[m + 1], v[m]).cache
    <2>1. m \in 0..(levels - 1) /\ m \in l..levels
      BY <1>1
    <2>2. Dimensions(m) /\ Placed(c[m + 1], Sets(m), WaysOf(m))
      BY <2>1, Shape, Zenon DEF Hierarchy
    <2>3. v[m] \in Nat \cup {Invalid}
      BY <1>3, <2>1
    <2>4. QED
      BY <1>3, <2>1, <2>2, <2>3, Zenon DEF Dimensions, Taken
  <1>7. Young(d[l + 1], Sets(l), WaysOf(l), line, 0)
    <2>1. l \in l..(levels - 1) /\ line # Invalid
      BY <1>1 DEF Invalid
    <2>2. PICK k, S, n : k = c[l + 1] /\ S = Sets(l) /\ n = WaysOf(l)
      OBVIOUS
    <2>3. /\ S \in Nat \ {0} /\ n \in Nat \ {0} /\ Placed(k, S, n)
          /\ d[l + 1] = fill_cache(k, line).cache
      BY <1>3, <1>6, <2>1, <2>2, Zenon
    <2>4. ~Has(k, line)
      <3>1. k \in CachesOf(S, n)
        BY <2>3, Zenon DEF Placed
      <3>2. Has(k, line) <=> In(k, S, n, line)
        BY <2>3, <3>1, LookupFacts
      <3>3. QED
        BY <2>2, <3>2, Zenon DEF Holds
    <2>5. Young(fill_cache(k, line).cache, S, n, line, 0)
      BY <2>3, <2>4, YoungFill
    <2>6. QED
      BY <2>2, <2>3, <2>5, Zenon
  <1>8. ASSUME NEW m \in (l + 1)..(levels - 1), NEW k \in Nat, k < WaysOf(m) - 1,
               Young(c[m + 1], Sets(m), WaysOf(m), line, k)
        PROVE  Young(d[m + 1], Sets(m), WaysOf(m), line, k + 1)
    <2>1. m \in l..(levels - 1)
      BY <1>1
    <2>2. PICK e, S, n, x : e = c[m + 1] /\ S = Sets(m) /\ n = WaysOf(m) /\ x = v[m]
      OBVIOUS
    <2>3. /\ S \in Nat \ {0} /\ n \in Nat \ {0} /\ Placed(e, S, n)
          /\ x \in Nat \cup {Invalid}
          /\ x = Invalid => d[m + 1] = e
          /\ x # Invalid => d[m + 1] = fill_cache(e, x).cache
          /\ k < n - 1 /\ Young(e, S, n, line, k)
      BY <1>6, <1>8, <2>1, <2>2, Zenon
    <2>4. CASE x = Invalid
      <3>1. PICK w \in 0..(n - 1) :
               e.data[line % S][w] = line /\ Age(e.replacement[line % S], w) <= k
        BY <2>3 DEF Young
      <3>2. PICK a : a = Age(e.replacement[line % S], w)
        OBVIOUS
      <3>3. a \in 0..(n - 1)
        <4>1. line % S \in 0..(S - 1)
          BY <2>3
        <4>2. e.replacement[line % S] \in Policies(n)
          BY <2>3, <4>1, CacheFields DEF Placed
        <4>3. QED
          BY <2>3, <3>2, <4>2, Ages
      <3>4. a <= k + 1
        BY <3>1, <3>2, <3>3
      <3>5. Young(e, S, n, line, k + 1)
        BY <3>1, <3>2, <3>4, Zenon DEF Young
      <3>6. QED
        BY <2>2, <2>3, <2>4, <3>5, Zenon
    <2>5. CASE x # Invalid
      <3>1. x \in Nat
        BY <2>3, <2>5
      <3>2. Young(fill_cache(e, x).cache, S, n, line, k + 1)
        BY <2>3, <3>1, YoungFill
      <3>3. QED
        BY <2>2, <2>3, <2>5, <3>2, Zenon
    <2>6. QED
      BY <2>4, <2>5
  <1>9. QED
    BY <1>5, <1>7, <1>8

-----------------------------------------------------------------------------
(* The levels below the one that had the line have it after the access.    *)

\* Every level has more ways than there are levels below it.
Grown(m) == \A i \in 1..Len(m.shape) : Ways(m.shape[i].policy) >= i

LEMMA GrownLevels ==
    ASSUME Built, Grown(memory)
    PROVE  \A l \in 0..(levels - 1) : l < WaysOf(l)
  <1>1. levels \in Nat \ {0} /\ \A l \in 0..(levels - 1) : Dimensions(l)
    BY Shape
  <1>2. ASSUME NEW l \in 0..(levels - 1) PROVE l < WaysOf(l)
    <2>1. l + 1 \in 1..Len(memory.shape)
      BY <1>1 DEF levels
    <2>2. WaysOf(l) >= l + 1
      BY <2>1, Zenon DEF Grown, WaysOf
    <2>3. WaysOf(l) \in Nat
      BY <1>1 DEF Dimensions
    <2>4. QED
      BY <2>2, <2>3
  <1>3. QED
    BY <1>2

\* Of the levels below the one that had the line, those from j on have got it, each so lately
\* that the fills still to come do not evict it; the others do not have it.
Brought(c, j, level, line) ==
    /\ \A m \in j..(level - 1) : \A k \in Nat :
          k = m - j => Young(c[m + 1], Sets(m), WaysOf(m), line, k)
    /\ \A m \in 0..(j - 1) : ~Holds(c, m, line)

LEMMA BroughtStep ==
    ASSUME Built, Plain(memory), Grown(memory), NEW c, Hierarchy(c), NEW line \in Nat,
           NEW level \in 0..levels, NEW l \in 0..(level - 1), Brought(c, l + 1, level, line),
           NEW d, BackStep(c, d, line, l)
    PROVE  Brought(d, l, level, line)
  <1>1. levels \in Nat \ {0}
    BY Shape
  <1>2. l \in 0..(levels - 1) /\ (l + 1) - 1 = l /\ l \in 0..l
    BY <1>1
  <1>3. /\ \A m \in (l + 1)..(level - 1) : \A k \in Nat :
              k = m - (l + 1) => Young(c[m + 1], Sets(m), WaysOf(m), line, k)
        /\ \A m \in 0..l : ~Holds(c, m, line)
    BY <1>2, Zenon DEF Brought
  <1>4. /\ \A k \in 0..(l - 1) : d[k + 1] = c[k + 1]
        /\ Young(d[l + 1], Sets(l), WaysOf(l), line, 0)
        /\ \A m \in (l + 1)..(levels - 1) : \A k \in Nat :
              k < WaysOf(m) - 1 /\ Young(c[m + 1], Sets(m), WaysOf(m), line, k)
                => Young(d[m + 1], Sets(m), WaysOf(m), line, k + 1)
    <2>1. ~Holds(c, l, line)
      BY <1>2, <1>3
    <2>2. QED
      BY <1>2, <2>1, YoungStep, Zenon
  <1>5. ASSUME NEW m \in l..(level - 1), NEW k \in Nat, k = m - l
        PROVE  Young(d[m + 1], Sets(m), WaysOf(m), line, k)
    <2>1. CASE m = l
      <3>1. k = 0
        BY <1>5, <2>1
      <3>2. QED
        BY <1>4, <2>1, <3>1, Zenon
    <2>2. CASE m # l
      <3>1. m \in (l + 1)..(level - 1) /\ m \in (l + 1)..(levels - 1) /\ m \in 0..(levels - 1)
        BY <1>1, <1>2, <2>2
      <3>2. PICK a : a = m - (l + 1)
        OBVIOUS
      <3>3. a \in Nat /\ a + 1 = k /\ a < m
        BY <1>5, <3>1, <3>2
      <3>4. a < WaysOf(m) - 1
        <4>1. m < WaysOf(m) /\ WaysOf(m) \in Nat
          BY <3>1, GrownLevels, Shape DEF Dimensions
        <4>2. QED
          BY <3>1, <3>3, <4>1
      <3>5. Young(d[m + 1], Sets(m), WaysOf(m), line, a + 1)
        BY <1>3, <1>4, <3>1, <3>2, <3>3, <3>4, Zenon
      <3>6. QED
        BY <3>3, <3>5, Zenon
    <2>3. QED
      BY <2>1, <2>2
  <1>6. ASSUME NEW m \in 0..(l - 1) PROVE ~Holds(d, m, line)
    <2>1. m \in 0..l
      BY <1>2
    <2>2. QED
      BY <1>3, <1>4, <2>1, Zenon DEF Holds
  <1>7. QED
    BY <1>5, <1>6, Zenon DEF Brought

\* Whatever the victims of its fills displace, an access leaves its line in every level below
\* the one that had it.
LEMMA AccessBrings ==
    ASSUME Built, Plain(memory), Grown(memory), NEW c, Hierarchy(c), NEW line \in Nat
    PROVE  \A m \in 0..(Level(c, line) - 1) : Holds(do_access(c, line), m, line)
  <1>1. PICK G : AccessRun(G, c, line)
    BY AccessRuns
  <1>2. PICK level : level = Level(c, line)
    OBVIOUS
  <1>3. levels \in Nat \ {0} /\ level \in 0..levels
    BY <1>2, FoundFacts, Shape
  <1>4. /\ G[0] = Found(c, line) /\ do_access(c, line) = G[level]
        /\ \A i \in 0..level : Hierarchy(G[i])
        /\ \A i \in 0..(level - 1) : BackStep(G[i], G[i + 1], line, level - 1 - i)
    BY <1>1, <1>2, Zenon DEF AccessRun
  <1> DEFINE T == {i \in 0..level : \A j \in 0..level :
                      j = level - i => Brought(G[i], j, level, line)}
  <1>5. 0 \in T
    <2>1. \A k \in 0..(level - 1) : ~Holds(c, k, line)
      BY <1>2, FoundFacts
    <2>2. \A k \in 0..(levels - 1) : k # level => G[0][k + 1] = c[k + 1]
      BY <1>2, <1>4, FoundFacts
    <2>3. ASSUME NEW m \in 0..(level - 1) PROVE ~Holds(G[0], m, line)
      <3>1. m \in 0..(levels - 1) /\ m # level
        BY <1>3
      <3>2. QED
        BY <2>1, <2>2, <3>1, Zenon DEF Holds
    <2>4. \A m \in level..(level - 1) : FALSE
      BY <1>3
    <2>5. Brought(G[0], level, level, line)
      BY <2>3, <2>4, Zenon DEF Brought
    <2>6. level - 0 = level /\ 0 \in 0..level
      BY <1>3
    <2>7. QED
      BY <2>5, <2>6
  <1>6. ASSUME NEW i \in 0..(level - 1), i \in T PROVE i + 1 \in T
    <2>1. PICK l : l = level - 1 - i
      OBVIOUS
    <2>2. /\ i \in 0..level /\ i + 1 \in 0..level /\ l \in 0..(level - 1) /\ l + 1 \in 0..level
          /\ l + 1 = level - i /\ l = level - (i + 1)
      BY <1>3, <2>1
    <2>3. Brought(G[i], l + 1, level, line)
      BY <1>6, <2>2
    <2>4. BackStep(G[i], G[i + 1], line, l) /\ Hierarchy(G[i])
      BY <1>4, <2>1, <2>2, Zenon
    <2>5. Brought(G[i + 1], l, level, line)
      BY <1>3, <2>2, <2>3, <2>4, BroughtStep
    <2>6. QED
      BY <2>2, <2>5
  <1> HIDE DEF T
  <1>7. level \in T
    <2>1. level \in Nat /\ level \in 0..level
      BY <1>3
    <2>2. \A i \in 0..level : i \in T
      BY <1>5, <1>6, <2>1, InductTo
    <2>3. QED
      BY <2>1, <2>2
  <1>8. Brought(G[level], 0, level, line)
    <2>1. 0 \in 0..level /\ 0 = level - level
      BY <1>3
    <2>2. QED
      BY <1>7, <2>1 DEF T
  <1>9. ASSUME NEW m \in 0..(level - 1) PROVE Holds(G[level], m, line)
    <2>1. m \in Nat /\ m = m - 0
      BY <1>3
    <2>2. Young(G[level][m + 1], Sets(m), WaysOf(m), line, m)
      BY <1>8, <2>1, Zenon DEF Brought
    <2>3. QED
      BY <2>2, Zenon DEF Young, Holds, In
  <1>10. QED
    BY <1>2, <1>4, <1>9, Zenon

\* A line is in the set that lookup searches, and in no other place of the cache.
LEMMA PlacedOnce ==
    ASSUME NEW S \in Nat \ {0}, NEW n \in Nat \ {0}, NEW c, Placed(c, S, n),
           NEW s \in 0..(S - 1), NEW t \in 0..(S - 1), NEW v \in 0..(n - 1), NEW w \in 0..(n - 1),
           c.data[s][v] # Invalid
    PROVE  /\ get_set(c, c.data[s][v]) = s
           /\ c.data[t][w] = c.data[s][v] => s = t /\ v = w
  <1>1. c \in CachesOf(S, n)
    BY DEF Placed
  <1>2. PICK y : y = c.data[s][v]
    OBVIOUS
  <1>3. y \in Nat
    <2>1. c.data \in [0..(S - 1) -> [0..(n - 1) -> Nat \cup {Invalid}]]
      BY <1>1, CacheFields
    <2>2. QED
      BY <1>2, <2>1
  <1>4. y % S = s /\ (c.data[t][w] = y => y % S = t)
    <2>1. \A i \in 0..(S - 1), j \in 0..(n - 1) :
             c.data[i][j] # Invalid => c.data[i][j] % S = i
      BY Zenon DEF Placed
    <2>2. y % S = s
      BY <1>2, <2>1, Zenon
    <2>3. ASSUME c.data[t][w] = y PROVE y % S = t
      BY <1>2, <2>1, <2>3, Zenon
    <2>4. QED
      BY <2>2, <2>3
  <1>5. get_set(c, y) = y % S
    BY <1>1, <1>3, LookupFacts
  <1>6. ASSUME c.data[t][w] = y PROVE s = t /\ v = w
    <2>1. s = t
      BY <1>4, <1>6
    <2>2. \A i \in 0..(S - 1), j, k \in 0..(n - 1) :
             c.data[i][j] = c.data[i][k] /\ c.data[i][j] # Invalid => j = k
      BY Zenon DEF Placed
    <2>3. c.data[s][v] = c.data[s][w] /\ c.data[s][v] # Invalid
      BY <1>2, <1>6, <2>1, Zenon
    <2>4. v = w
      BY <2>2, <2>3, Zenon
    <2>5. QED
      BY <2>1, <2>4
  <1>7. QED
    BY <1>2, <1>4, <1>5, <1>6, Zenon

\* The invariant of a memory without an adapter: what the last access left.
Brings == memory.adapter = "none" =>
             /\ served \in 0..levels
             /\ accessed # Invalid =>
                   \A l \in 0..(levels - 1) : l < served => Holds(caches, l, accessed)
ConsistentInv == MemoryInv /\ Plain(memory) /\ Grown(memory) /\ Brings

LEMMA BringsInit == InitAdapter /\ Usual(memory) => Brings
  <1> SUFFICES ASSUME InitAdapter, Usual(memory) PROVE Brings
    OBVIOUS
  <1>1. served = levels /\ accessed = Invalid /\ memory \in Memories
    BY DEF InitAdapter, Init
  <1>2. levels \in Nat
    BY <1>1, Shape DEF Built
  <1>3. QED
    BY <1>1, <1>2 DEF Brings

LEMMA BringsNext == ConsistentInv /\ [NextAdapter]_vars => ConsistentInv'
  <1> SUFFICES ASSUME ConsistentInv, [NextAdapter]_vars PROVE ConsistentInv'
    OBVIOUS
  <1>1. MemoryInv /\ Plain(memory) /\ Grown(memory) /\ Brings
    BY DEF ConsistentInv
  <1>2. MemoryInv' /\ memory' = memory
    BY <1>1, MemoryNext, AdapterKept
  <1>3. Built /\ Hierarchy(caches) /\ Offered \subseteq Nat
        /\ (pc = "retry" => memory.adapter = "bypass")
    BY <1>1 DEF MemoryInv
  <1>4. levels' = levels /\ \A l : Sets(l)' = Sets(l) /\ WaysOf(l)' = WaysOf(l)
    BY <1>2, ShapeKept
  <1>5. ASSUME NEW c, NEW line, NEW n, caches' = c, accessed' = line, served' = n,
               memory.adapter = "none" =>
                  /\ n \in 0..levels
                  /\ line # Invalid =>
                        \A l \in 0..(levels - 1) : l < n => Holds(c, l, line)
        PROVE  Brings'
    <2>1. \A l : Holds(caches, l, accessed)' <=> Holds(c, l, line)
      BY <1>4, <1>5, Zenon DEF Holds
    <2>2. QED
      BY <1>2, <1>4, <1>5, <2>1, Zenon DEF Brings
  <1>6. Brings'
    <2>1. ASSUME NEW line \in Offered, PlainAccess(line) PROVE Brings'
      <3>1. PICK c, n : c = do_access(caches, line) /\ n = Level(caches, line)
        OBVIOUS
      <3>2. caches' = c /\ accessed' = line /\ served' = n
        BY <2>1, <3>1, Zenon DEF PlainAccess, Access
      <3>3. line \in Nat
        BY <1>3
      <3>4. n \in 0..levels /\ \A l \in 0..(n - 1) : Holds(c, l, line)
        BY <1>1, <1>3, <3>1, <3>3, AccessBrings, AccessKeeps, Zenon
      <3>5. levels \in Nat
        BY <1>3, Shape
      <3>6. \A l \in 0..(levels - 1) : l < n => l \in 0..(n - 1)
        BY <3>4, <3>5
      <3>7. QED
        BY <1>5, <3>2, <3>4, <3>6, Zenon
    <2>2. CASE memory.adapter # "none"
      BY <1>2, <2>2 DEF Brings
    <2>3. ASSUME memory.adapter = "none", UNCHANGED <<caches, served, accessed>> PROVE Brings'
      BY <1>1, <1>2, <1>4, <2>3 DEF Brings, Holds
    <2>4. CASE memory.adapter = "none"
      <3>1. ASSUME NEW line \in Offered, BypassAccess(line) PROVE FALSE
        BY <2>4, <3>1 DEF BypassAccess
      <3>2. ASSUME NEW line \in Offered, ArmAccess(line) PROVE FALSE
        BY <2>4, <3>2 DEF ArmAccess
      <3>3. ~AccessEvictionSet /\ ~AccessAgain
        BY <1>3, <2>4 DEF AccessEvictionSet, AccessAgain
      <3>4. CASE UNCHANGED vars
        BY <2>3, <2>4, <3>4 DEF vars, memory_vars
      <3>5. QED
        BY <2>1, <3>1, <3>2, <3>3, <3>4, Zenon DEF NextAdapter
    <2>5. QED
      BY <2>2, <2>4
  <1>7. Plain(memory)' /\ Grown(memory)'
    BY <1>1, <1>2, Zenon DEF Plain, Grown
  <1>8. QED
    BY <1>2, <1>6, <1>7 DEF ConsistentInv

LEMMA ConsistentHolds == ConsistentInv => Consistent
  <1> SUFFICES ASSUME ConsistentInv PROVE Consistent
    OBVIOUS
  <1>1. /\ Built /\ Hierarchy(caches) /\ Plain(memory) /\ Brings
        /\ accessed \in Nat \cup {Invalid}
    BY DEF ConsistentInv, MemoryInv
  <1>2. levels \in Nat \ {0} /\ \A l \in 0..(levels - 1) : Dimensions(l)
    BY <1>1, Shape
  <1>3. ASSUME NEW i \in 1..levels, NEW s \in 0..(Sets(i - 1) - 1), NEW t \in 0..(Sets(i - 1) - 1),
               NEW v \in 0..(WaysOf(i - 1) - 1), NEW w \in 0..(WaysOf(i - 1) - 1),
               caches[i].data[s][v] # Invalid
        PROVE  /\ get_set(caches[i], caches[i].data[s][v]) = s
               /\ caches[i].data[t][w] = caches[i].data[s][v] => <<s, v>> = <<t, w>>
    <2>1. i - 1 \in 0..(levels - 1) /\ (i - 1) + 1 = i
      BY <1>2
    <2>2. PICK S, n, c : S = Sets(i - 1) /\ n = WaysOf(i - 1) /\ c = caches[i]
      OBVIOUS
    <2>3. S \in Nat \ {0} /\ n \in Nat \ {0} /\ Placed(c, S, n)
      BY <1>1, <1>2, <2>1, <2>2, Zenon DEF Dimensions, Hierarchy
    <2>4. /\ s \in 0..(S - 1) /\ t \in 0..(S - 1) /\ v \in 0..(n - 1) /\ w \in 0..(n - 1)
          /\ c.data[s][v] # Invalid
      BY <1>3, <2>2, Zenon
    <2>5. get_set(c, c.data[s][v]) = s /\ (c.data[t][w] = c.data[s][v] => s = t /\ v = w)
      BY <2>3, <2>4, PlacedOnce
    <2>6. QED
      BY <2>2, <2>5, Zenon
  <1>4. ASSUME accessed # Invalid, memory.adapter = "none", NEW l \in 0..(served - 1), l < levels
        PROVE  accessed \in Contents(l)
    <2>1. served \in 0..levels
      BY <1>1, <1>4 DEF Brings
    <2>2. l \in 0..(levels - 1) /\ l < served
      BY <1>2, <1>4, <2>1
    <2>3. Holds(caches, l, accessed) /\ accessed \in Nat
      BY <1>1, <1>4, <2>2, Zenon DEF Brings
    <2>4. accessed \in ContentsIn(caches, l)
      BY <1>1, <2>2, <2>3, ContentsFacts
    <2>5. QED
      BY <2>4, Zenon DEF Contents, ContentsIn
  <1>5. ASSUME NEW l \in 1..(levels - 1)
        PROVE  get_inclusiveness(l) # "inclusive" /\ get_inclusiveness(l) # "exclusive"
    <2>1. l \in 0..(levels - 1)
      BY <1>2
    <2>2. get_inclusiveness(l) = "non_inclusive"
      BY <1>1, <2>1, PlainLevels
    <2>3. QED
      BY <2>2
  <1>6. QED
    BY <1>3, <1>4, <1>5, Zenon DEF Consistent

\* With the inclusiveness that the code gives its levels, and more ways in a level than there are
\* levels below it, the caches are consistent after every access: each line in its set and there
\* once, and the line accessed in every level that was filled for it.
THEOREM LevelsConsistent ==
    Spec /\ Usual(memory) /\ Plain(memory) /\ Grown(memory) => []Consistent
  <1>1. InitAdapter /\ Usual(memory) /\ Plain(memory) /\ Grown(memory) => ConsistentInv
    BY MemoryInit, BringsInit DEF ConsistentInv
  <1>2. ConsistentInv /\ [NextAdapter]_vars => ConsistentInv'
    BY BringsNext
  <1>3. ConsistentInv => Consistent
    BY ConsistentHolds
  <1>4. QED
    BY <1>1, <1>2, <1>3, PTL DEF Spec

-----------------------------------------------------------------------------
(* What the ways of a set hold in the order of its policy.                 *)

\* The ways, taken in the order o, hold the first lines of a list, and the rest are free.
Stack(d, o, n, list) ==
    \A k \in 1..n : d[o[k]] = IF k <= Len(list) THEN list[k] ELSE Invalid

\* A list with a line in front, the place up to which the others move back.
Moved(list, line, place) ==
    [i \in 1..(IF place > Len(list) THEN place ELSE Len(list)) |->
        IF i = 1 THEN line ELSE IF i <= place THEN list[i - 1] ELSE list[i]]

\* What it is, as a sequence of lines.
IsMoved(m, list, line, place) ==
    /\ m \in Seq(Nat) /\ Len(m) = (IF place > Len(list) THEN place ELSE Len(list))
    /\ \A k \in 1..Len(m) :
          m[k] = IF k = 1 THEN line ELSE IF k <= place THEN list[k - 1] ELSE list[k]

LEMMA MovedFacts ==
    ASSUME NEW list \in Seq(Nat), NEW line \in Nat, NEW place \in 1..(Len(list) + 1)
    PROVE  IsMoved(Moved(list, line, place), list, line, place)
  <1> DEFINE m == Moved(list, line, place)
             a == IF place > Len(list) THEN place ELSE Len(list)
  <1>1. Len(list) \in Nat /\ a \in Nat /\ (\A k \in 1..Len(list) : list[k] \in Nat)
        /\ (a = Len(list) \/ (a = Len(list) + 1 /\ place = a))
    <2>1. Len(list) \in Nat /\ \A k \in 1..Len(list) : list[k] \in Nat
      OBVIOUS
    <2>2. PICK L : L = Len(list)
      OBVIOUS
    <2>3. L \in Nat /\ place \in 1..(L + 1) /\ a = IF place > L THEN place ELSE L
      BY <2>1, <2>2, Zenon
    <2>4. a \in Nat /\ (a = L \/ (a = L + 1 /\ place = a))
      <3> HIDE DEF a
      <3>1. QED
        BY <2>3
    <2>5. QED
      BY <2>1, <2>2, <2>4, Zenon
  <1>2. m = [i \in 1..a |-> IF i = 1 THEN line ELSE IF i <= place THEN list[i - 1] ELSE list[i]]
    BY Zenon DEF Moved
  <1>3. \A k \in 1..a : (IF k = 1 THEN line ELSE IF k <= place THEN list[k - 1] ELSE list[k]) \in Nat
    BY <1>1
  <1> HIDE DEF m, a
  <1>4. m \in [1..a -> Nat]
    BY <1>2, <1>3
  <1>5. m \in Seq(Nat) /\ Len(m) = a
    BY <1>1, <1>4
  <1>6. \A k \in 1..Len(m) :
           m[k] = IF k = 1 THEN line ELSE IF k <= place THEN list[k - 1] ELSE list[k]
    BY <1>2, <1>5
  <1>7. QED
    BY <1>5, <1>6, Zenon DEF m, a, IsMoved

\* A hit brings the line to the front of the list.
LEMMA StackHit ==
    ASSUME NEW n \in Nat \ {0}, NEW o \in Orders(n), NEW q, NEW d, NEW list \in Seq(Nat),
           Stack(d, o, n, list), NEW i \in 1..n, i <= Len(list),
           \A k \in 1..n : q[k] = o[Before(i, k)]
    PROVE  Stack(d, q, n, Moved(list, list[i], i))
  <1> DEFINE m == Moved(list, list[i], i)
  <1>1. Len(list) \in Nat /\ i \in 1..(Len(list) + 1) /\ i \in 1..Len(list)
    OBVIOUS
  <1>2. list[i] \in Nat
    BY <1>1
  <1> HIDE DEF m
  <1>3. /\ Len(m) = Len(list)
        /\ \A k \in 1..Len(list) :
              m[k] = IF k = 1 THEN list[i] ELSE IF k <= i THEN list[k - 1] ELSE list[k]
    <2>1. PICK h : h = list[i]
      OBVIOUS
    <2>2. /\ Len(m) = (IF i > Len(list) THEN i ELSE Len(list))
          /\ \A k \in 1..Len(m) :
                m[k] = IF k = 1 THEN h ELSE IF k <= i THEN list[k - 1] ELSE list[k]
      <3>1. h \in Nat /\ m = Moved(list, h, i)
        BY <1>2, <2>1 DEF m
      <3>2. QED
        <4>1. i \in 1..(Len(list) + 1) /\ h \in Nat
          BY <1>1, <3>1
        <4>2. IsMoved(Moved(list, h, i), list, h, i)
          BY <4>1, MovedFacts
        <4>3. QED
          BY <3>1, <4>2, Zenon DEF IsMoved
    <2>3. Len(m) = Len(list)
      <3>1. ~(i > Len(list))
        BY <1>1
      <3>2. QED
        BY <2>2, <3>1, Zenon
    <2>4. QED
      BY <2>1, <2>2, <2>3, Zenon
  <1>4. ASSUME NEW k \in 1..n PROVE d[q[k]] = IF k <= Len(m) THEN m[k] ELSE Invalid
    <2>1. PICK j : j = Before(i, k)
      OBVIOUS
    <2>2. j \in 1..n /\ (j = IF k = 1 THEN i ELSE IF k <= i THEN k - 1 ELSE k)
      BY <2>1 DEF Before
    <2>3. d[q[k]] = IF j <= Len(list) THEN list[j] ELSE Invalid
      BY <2>1, <2>2, Zenon DEF Stack
    <2>4. QED
      BY <1>1, <1>3, <2>2, <2>3
  <1>5. QED
    BY <1>4, Zenon DEF Stack, m

\* A miss puts the line into the last way, and that to the front.
LEMMA StackMiss ==
    ASSUME NEW n \in Nat \ {0}, NEW o \in Orders(n), NEW q, NEW d, NEW e,
           NEW list \in Seq(Nat), NEW line \in Nat, Stack(d, o, n, list),
           e[o[n]] = line, \A u \in 0..(n - 1) : u # o[n] => e[u] = d[u],
           \A k \in 1..n : q[k] = o[Before(n, k)],
           NEW place \in 1..(Len(list) + 1), place = Len(list) + 1 \/ n <= place
    PROVE  Stack(e, q, n, Moved(list, line, place))
  <1> DEFINE m == Moved(list, line, place)
             a == IF place > Len(list) THEN place ELSE Len(list)
  <1>1. /\ Len(m) = a
        /\ \A k \in 1..Len(m) :
              m[k] = IF k = 1 THEN line ELSE IF k <= place THEN list[k - 1] ELSE list[k]
    <2>1. IsMoved(Moved(list, line, place), list, line, place)
      BY MovedFacts
    <2>2. QED
      BY <2>1, Zenon DEF IsMoved
  <1>2. /\ Len(list) \in Nat /\ a \in Nat /\ a >= 1 /\ place \in 1..(Len(list) + 1)
        /\ a = IF place = Len(list) + 1 THEN Len(list) + 1 ELSE Len(list)
    <2>1. Len(list) \in Nat
      OBVIOUS
    <2>2. PICK L : L = Len(list)
      OBVIOUS
    <2>3. L \in Nat /\ place \in 1..(L + 1) /\ a = IF place > L THEN place ELSE L
      BY <2>1, <2>2, Zenon
    <2>4. a \in Nat /\ a >= 1 /\ a = IF place = L + 1 THEN L + 1 ELSE L
      <3> HIDE DEF a
      <3>1. QED
        BY <2>3
    <2>5. QED
      BY <2>1, <2>2, <2>4, Zenon
  <1> HIDE DEF m, a
  <1>3. ASSUME NEW k \in 1..n PROVE e[q[k]] = IF k <= Len(m) THEN m[k] ELSE Invalid
    <2>1. CASE k = 1
      <3>1. Before(n, 1) = n /\ 1 \in 1..n
        BY DEF Before
      <3>2. e[q[k]] = line
        BY <2>1, <3>1, Zenon
      <3>3. 1 \in 1..Len(m) /\ 1 <= Len(m)
        BY <1>1, <1>2
      <3>4. m[1] = line
        BY <1>1, <3>3
      <3>5. QED
        BY <2>1, <3>2, <3>3, <3>4, Zenon
    <2>2. CASE k # 1
      <3>1. PICK j : j = k - 1
        OBVIOUS
      <3>2. j \in 1..n /\ j # n /\ n \in 1..n /\ Before(n, k) = j
        BY <2>2, <3>1 DEF Before
      <3>3. o[j] \in 0..(n - 1) /\ o[j] # o[n] /\ q[k] = o[j]
        BY <3>2 DEF Orders
      <3>4. e[q[k]] = d[o[j]]
        BY <3>3, Zenon
      <3>5. d[o[j]] = IF j <= Len(list) THEN list[j] ELSE Invalid
        BY <3>2, Zenon DEF Stack
      <3>6. k <= Len(m) <=> j <= Len(list)
        <4>1. PICK L, M : L = Len(list) /\ M = Len(m)
          OBVIOUS
        <4>2. /\ L \in Nat /\ place \in 1..(L + 1) /\ (place = L + 1 \/ n <= place)
              /\ M = IF place = L + 1 THEN L + 1 ELSE L
          BY <1>1, <1>2, <4>1, Zenon
        <4>3. k <= M <=> j <= L
          BY <2>2, <3>1, <4>2
        <4>4. QED
          BY <4>1, <4>3, Zenon
      <3>7. ASSUME k <= Len(m) PROVE m[k] = list[j]
        <4>1. k \in 1..Len(m) /\ k <= place
          BY <1>1, <1>2, <3>7
        <4>2. QED
          BY <1>1, <2>2, <3>1, <4>1
      <3>8. QED
        BY <3>4, <3>5, <3>6, <3>7
    <2>3. QED
      BY <2>1, <2>2
  <1>4. QED
    BY <1>3, Zenon DEF Stack, m

\* As many ways are in use as the list is long.
LEMMA StackCount ==
    ASSUME NEW n \in Nat \ {0}, NEW o \in Orders(n), NEW d, NEW list \in Seq(Nat),
           Len(list) <= n, Stack(d, o, n, list)
    PROVE  Cardinality({w \in 0..(n - 1) : d[w] # Invalid}) = Len(list)
  <1> DEFINE a == Len(list)
             t == [k \in 1..a |-> o[k]]
             U == {w \in 0..(n - 1) : d[w] # Invalid}
  <1>1. a \in Nat /\ \A k \in 1..a : k \in 1..n /\ list[k] \in Nat
    OBVIOUS
  <1>2. o \in [1..n -> 0..(n - 1)] /\ \A i, j \in 1..n : o[i] = o[j] => i = j
    BY DEF Orders
  <1>3. Invalid \notin Nat
    BY DEF Invalid
  <1> HIDE DEF a
  <1>4. t \in Seq(0..(n - 1)) /\ Len(t) = a
    BY <1>1, <1>2
  <1>5. \A j, k \in 1..Len(t) : t[j] = t[k] => j = k
    BY <1>1, <1>2, <1>4
  <1>6. Range(t) = U
    <2>1. \A w : w \in Range(t) <=> \E k \in 1..a : t[k] = w
      BY <1>4 DEF Range
    <2>2. ASSUME NEW k \in 1..a PROVE t[k] \in U
      <3>1. t[k] = o[k] /\ k \in 1..n /\ o[k] \in 0..(n - 1) /\ k <= a
        BY <1>1, <1>2
      <3>2. d[o[k]] = list[k]
        BY <3>1, Zenon DEF Stack, a
      <3>3. d[o[k]] # Invalid
        BY <1>1, <1>3, <3>2
      <3>4. QED
        BY <3>1, <3>3
    <2>3. ASSUME NEW w \in U PROVE \E k \in 1..a : t[k] = w
      <3>1. PICK k \in 1..n : o[k] = w
        BY EveryWay
      <3>2. k <= a
        BY <3>1, Zenon DEF Stack, a
      <3>3. k \in 1..a
        BY <1>1, <3>2
      <3>4. QED
        BY <3>1, <3>3
    <2> HIDE DEF t, U
    <2>4. \A w : w \in Range(t) <=> w \in U
      BY <2>1, <2>2, <2>3, Zenon
    <2>5. QED
      BY <2>4, Zenon
  <1>7. Cardinality(Range(t)) = Len(t)
    <2> HIDE DEF t
    <2>1. (\A j, k \in 1..Len(t) : t[j] = t[k] => j = k) <=> Cardinality(Range(t)) = Len(t)
      BY <1>4, DistinctCount
    <2>2. QED
      BY <1>5, <2>1, Zenon
  <1>8. QED
    BY <1>4, <1>6, <1>7, Zenon DEF a

\* A set whose policy is a list, with the lines of a list in its order.
Listed(c, s, n, list) == /\ c.replacement[s].kind \in {"FIFO", "LRU"}
                         /\ Stack(c.data[s], c.replacement[s].order, n, list)
\* The sets but s are the same.
Elsewhere(c, r, s, S) ==
    \A t \in 0..(S - 1) : t # s => r.data[t] = c.data[t] /\ r.replacement[t] = c.replacement[t]

LEMMA ListPolicies ==
    ASSUME NEW n \in Nat \ {0}, NEW p \in Policies(n), p.kind \in {"FIFO", "LRU"}
    PROVE  p \in OrderPolicies(n) /\ p.order \in Orders(n)
  <1>1. p \notin Trees(n)
    BY TreeFields
  <1>2. p \in OrderPolicies(n)
    BY <1>1 DEF Policies
  <1>3. QED
    BY <1>2 DEF OrderPolicies

\* What OrderSteps says of a hit.
LEMMA OrderHit ==
    ASSUME NEW n \in Nat \ {0}, NEW p \in OrderPolicies(n), NEW i \in 1..n
    PROVE  /\ Hit(p, p.order[i]).kind = p.kind
           /\ p.kind = "FIFO" => Hit(p, p.order[i]) = p
           /\ p.kind = "LRU" => \A k \in 1..n : Hit(p, p.order[i]).order[k] = p.order[Before(i, k)]
  BY OrderSteps, Z3

\* The list of the set after a hit, and after a miss.
HitListed(c, r, line, s, S, n, list) ==
    LET kind == c.replacement[s].kind
    IN  /\ r.replacement[s].kind = kind /\ Elsewhere(c, r, s, S)
        /\ \E i \in 1..n :
              /\ i <= Len(list) /\ list[i] = line
              /\ kind = "FIFO" => Listed(r, s, n, list)
              /\ kind = "LRU" => Listed(r, s, n, Moved(list, line, i))

MissListed(c, r, line, s, S, n, list) ==
    /\ r.replacement[s].kind = c.replacement[s].kind /\ Elsewhere(c, r, s, S)
    /\ \A i \in 1..n : i <= Len(list) => list[i] # line
    /\ \A place \in 1..(Len(list) + 1) : place = Len(list) + 1 \/ n <= place
          => Listed(r, s, n, Moved(list, line, place))

LEMMA ListHit ==
    ASSUME NEW S \in Nat \ {0}, NEW n \in Nat \ {0}, NEW c, Placed(c, S, n), NEW line \in Nat,
           Has(c, line), NEW s, s = line % S, NEW list \in Seq(Nat), Listed(c, s, n, list)
    PROVE  HitListed(c, hit(c, line), line, s, S, n, list)
  <1> DEFINE r == hit(c, line)
             p == c.replacement[s]
             w == Handle(c, line)
             o == p.order
             d == c.data[s]
  <1>1. c \in CachesOf(S, n)
    BY DEF Placed
  <1>2. s \in 0..(S - 1) /\ w \in 0..(n - 1) /\ d[w] = line
    BY <1>1, LookupFacts
  <1>3. /\ c.data \in [0..(S - 1) -> [0..(n - 1) -> Nat \cup {Invalid}]]
        /\ c.replacement \in [0..(S - 1) -> Policies(n)]
    BY <1>1, CacheFields
  <1>4. p.kind \in {"FIFO", "LRU"} /\ Stack(d, o, n, list)
    BY DEF Listed
  <1>5. p \in OrderPolicies(n) /\ o \in Orders(n)
    BY <1>2, <1>3, <1>4, ListPolicies
  <1>6. r = [data |-> c.data, replacement |-> [c.replacement EXCEPT ![s] = Hit(p, w)]]
    BY HitCache
  <1> HIDE DEF r, w
  <1>7. r.data = c.data /\ r.replacement = [c.replacement EXCEPT ![s] = Hit(p, w)]
    BY <1>6
  <1>8. r.replacement[s] = Hit(p, w) /\ Elsewhere(c, r, s, S) /\ r.data[s] = d
    BY <1>2, <1>3, <1>7 DEF Elsewhere
  <1> HIDE DEF o, d
  <1>9. PICK i \in 1..n : o[i] = w
    <2>1. PICK q, u : q = o /\ u = w
      OBVIOUS
    <2>2. q \in Orders(n) /\ u \in 0..(n - 1)
      BY <1>2, <1>5, <2>1, Zenon
    <2>3. \E i \in 1..n : q[i] = u
      BY <2>2, EveryWay
    <2>4. QED
      BY <2>1, <2>3, Zenon
  <1> HIDE DEF p
  <1>10. d[o[i]] = IF i <= Len(list) THEN list[i] ELSE Invalid
    BY <1>4, Zenon DEF Stack
  <1>11. i <= Len(list) /\ list[i] = line
    <2>1. line # Invalid
      BY DEF Invalid
    <2>2. QED
      BY <1>2, <1>9, <1>10, <2>1, Zenon
  <1>12. /\ Hit(p, w).kind = p.kind
         /\ p.kind = "FIFO" => Hit(p, w) = p
         /\ p.kind = "LRU" => \A k \in 1..n : Hit(p, w).order[k] = o[Before(i, k)]
    <2>1. /\ Hit(p, p.order[i]).kind = p.kind
          /\ p.kind = "FIFO" => Hit(p, p.order[i]) = p
          /\ p.kind = "LRU" => \A k \in 1..n : Hit(p, p.order[i]).order[k] = p.order[Before(i, k)]
      BY <1>5, <1>9, OrderHit
    <2>2. p.order[i] = w
      BY <1>9 DEF o
    <2>3. QED
      BY <2>1, <2>2, Zenon DEF o
  <1>13. ASSUME p.kind = "FIFO" PROVE Listed(r, s, n, list)
    BY <1>4, <1>8, <1>12, <1>13, Zenon DEF Listed, o
  <1>14. ASSUME p.kind = "LRU" PROVE Listed(r, s, n, Moved(list, line, i))
    <2>1. Stack(d, Hit(p, w).order, n, Moved(list, list[i], i))
      BY <1>4, <1>5, <1>11, <1>12, <1>14, StackHit
    <2>2. QED
      BY <1>4, <1>8, <1>11, <1>12, <2>1, Zenon DEF Listed
  <1>15. QED
    BY <1>8, <1>11, <1>12, <1>13, <1>14, Zenon DEF r, p, HitListed

LEMMA ListMiss ==
    ASSUME NEW S \in Nat \ {0}, NEW n \in Nat \ {0}, NEW c, Placed(c, S, n), NEW line \in Nat,
           ~Has(c, line), NEW s, s = line % S, NEW list \in Seq(Nat), Listed(c, s, n, list)
    PROVE  MissListed(c, fill_cache(c, line).cache, line, s, S, n, list)
  <1> DEFINE r == fill_cache(c, line).cache
             p == c.replacement[s]
             m == Miss(p)
             o == p.order
             d == c.data[s]
  <1>1. c \in CachesOf(S, n) /\ Placed(r, S, n)
    <2>1. c \in CachesOf(S, n)
      BY DEF Placed
    <2>2. Placed(fill_cache(c, line).cache, S, n)
      <3>1. LET f == fill_cache(c, line)
            IN  /\ Placed(f.cache, S, n) /\ f.victim \in Nat \cup {Invalid}
                /\ f.victim # Invalid => f.victim # line /\ In(c, S, n, f.victim)
                /\ \A x \in Nat : In(f.cache, S, n, x)
                                    <=> (In(c, S, n, x) \/ x = line) /\ x # f.victim
        BY FillCache
      <3>2. QED
        BY <3>1, Zenon
    <2>3. QED
      BY <2>1, <2>2
  <1>2. r \in CachesOf(S, n)
    BY <1>1 DEF Placed
  <1>3. /\ c.data \in [0..(S - 1) -> [0..(n - 1) -> Nat \cup {Invalid}]]
        /\ c.replacement \in [0..(S - 1) -> Policies(n)]
    BY <1>1, CacheFields
  <1>4. r.data \in [0..(S - 1) -> [0..(n - 1) -> Nat \cup {Invalid}]]
    BY <1>2, CacheFields
  <1>5. s \in 0..(S - 1) /\ (Has(c, line) <=> In(c, S, n, line))
    BY <1>1, LookupFacts
  <1>6. p.kind \in {"FIFO", "LRU"} /\ Stack(d, o, n, list)
    BY DEF Listed
  <1>7. p \in OrderPolicies(n) /\ o \in Orders(n)
    BY <1>3, <1>5, <1>6, ListPolicies
  <1>8. Takes(c, r, line, S, n)
    BY FillTakes
  <1> HIDE DEF r
  <1>9. /\ r.data[s][m.way] = line /\ r.replacement[s] = m.policy
        /\ \A t \in 0..(S - 1), u \in 0..(n - 1) :
              t # s \/ u # m.way => r.data[t][u] = c.data[t][u]
        /\ \A t \in 0..(S - 1) : t # s => r.replacement[t] = c.replacement[t]
    BY <1>8, Zenon DEF Takes
  <1>10. Elsewhere(c, r, s, S)
    <2>1. ASSUME NEW t \in 0..(S - 1), t # s PROVE r.data[t] = c.data[t]
      <3>1. PICK x, y : x = r.data[t] /\ y = c.data[t]
        OBVIOUS
      <3>2. x \in [0..(n - 1) -> Nat \cup {Invalid}] /\ y \in [0..(n - 1) -> Nat \cup {Invalid}]
        BY <1>3, <1>4, <3>1
      <3>3. \A u \in 0..(n - 1) : x[u] = y[u]
        BY <1>9, <2>1, <3>1, Zenon
      <3>4. x = y
        BY <3>2, <3>3
      <3>5. QED
        BY <3>1, <3>4
    <2>2. QED
      BY <1>9, <2>1, Zenon DEF Elsewhere
  <1>11. /\ m.way = o[n] /\ m.policy.kind = p.kind /\ n \in 1..n
         /\ \A k \in 1..n : m.policy.order[k] = o[Before(n, k)]
    BY <1>7, OrderSteps
  <1> HIDE DEF m
  <1>12. ASSUME NEW i \in 1..n, i <= Len(list) PROVE list[i] # line
    <2>1. d[o[i]] = list[i]
      BY <1>6, <1>12, Zenon DEF Stack
    <2>2. o[i] \in 0..(n - 1)
      BY <1>7 DEF Orders
    <2>3. d[o[i]] # line
      BY <1>5, <2>2 DEF In
    <2>4. QED
      BY <2>1, <2>3
  <1>13. ASSUME NEW place \in 1..(Len(list) + 1), place = Len(list) + 1 \/ n <= place
         PROVE  Listed(r, s, n, Moved(list, line, place))
    <2>1. PICK e, q : e = r.data[s] /\ q = m.policy.order
      OBVIOUS
    <2>2. /\ e[o[n]] = line /\ (\A u \in 0..(n - 1) : u # o[n] => e[u] = d[u])
          /\ \A k \in 1..n : q[k] = o[Before(n, k)]
      BY <1>5, <1>9, <1>11, <2>1, Zenon
    <2> HIDE DEF d, o
    <2>3. Stack(d, o, n, list) /\ o \in Orders(n)
      BY <1>6, <1>7
    <2>4. Stack(e, q, n, Moved(list, line, place))
      BY <1>13, <2>2, <2>3, StackMiss
    <2>5. QED
      BY <1>6, <1>9, <1>11, <2>1, <2>4, Zenon DEF Listed
  <1>14. QED
    BY <1>9, <1>10, <1>11, <1>12, <1>13, Zenon DEF r, p, MissListed

-----------------------------------------------------------------------------
(* What an access does to the level that the client sees.                  *)

\* The set of the line in level 0 is empty.
Bare(c, line) == \A w \in 0..(WaysOf(0) - 1) : c[1].data[line % Sets(0)][w] = Invalid

\* The levels below j are as before, and level u as it will be when the fills have passed it.
Reached(g, c, j, u, e) ==
    /\ \A m \in 0..(j - 1) : g[m + 1] = c[m + 1]
    /\ j <= u => g[u + 1] = e

\* A fill of the line changes level u once: when it is its turn; a bare level 0 has no victim.
LEMMA ReachedStep ==
    ASSUME Built, Plain(memory), NEW c, Hierarchy(c), NEW g, Hierarchy(g), NEW line \in Nat,
           NEW u \in {0, 1}, u <= levels - 1, NEW e, NEW l \in 0..(levels - 1),
           u = 1 /\ l = 0 => Bare(c, line), Reached(g, c, l + 1, u, e), NEW d, BackStep(g, d, line, l),
           l = u => e = fill_cache(c[u + 1], line).cache
    PROVE  Reached(d, c, l, u, e)
  <1>1. levels \in Nat \ {0} /\ get_inclusiveness(l) = "non_inclusive"
    BY Shape, PlainLevels
  <1>2. PICK v : Cascade(g, d, v, line, l)
    BY <1>1 DEF BackStep
  <1>3. /\ v \in [l..levels -> Nat \cup {Invalid}] /\ v[l] = line
        /\ \A m \in l..(levels - 1) : Taken(g, d, m, v[m], v[m + 1])
        /\ Below(g, d, l, v[l + 1], TRUE)
    BY <1>2, Zenon DEF Cascade
  <1>4. ~("non_inclusive" = "inclusive")
    OBVIOUS
  <1>5. \A k \in 0..(l - 1) : d[k + 1] = g[k + 1]
    BY <1>1, <1>3, <1>4, Zenon DEF Below
  <1>6. (l + 1) - 1 = l /\ l \in 0..l /\ \A m \in 0..(l - 1) : m \in 0..l
    OBVIOUS
  <1>7. \A m \in 0..l : g[m + 1] = c[m + 1]
    BY <1>6, Zenon DEF Reached
  <1>8. l \in l..(levels - 1) /\ line # Invalid
    BY <1>1 DEF Invalid
  <1>9. d[l + 1] = fill_cache(c[l + 1], line).cache /\ v[l + 1] = fill_cache(c[l + 1], line).victim
    BY <1>3, <1>6, <1>7, <1>8, Zenon DEF Taken
  <1>10. CASE l = u
    <2>1. d[u + 1] = e
      BY <1>9, <1>10, Zenon
    <2>2. QED
      BY <1>5, <1>6, <1>7, <2>1, Zenon DEF Reached
  <1>11. CASE l # u /\ l <= u
    <2>1. l = 0 /\ u = 1 /\ 1 \in l..(levels - 1) /\ l + 1 = 1 /\ l + 1 <= u
      BY <1>1, <1>11
    <2>2. g[u + 1] = e
      BY <2>1, Zenon DEF Reached
    <2>3. PICK k, S, n : k = c[1] /\ S = Sets(0) /\ n = WaysOf(0)
      OBVIOUS
    <2>4. /\ S \in Nat \ {0} /\ n \in Nat \ {0} /\ Placed(k, S, n)
          /\ \A w \in 0..(n - 1) : k.data[line % S][w] = Invalid
      <3>1. 0 \in 0..(levels - 1) /\ 0 + 1 = 1
        BY <1>1
      <3>2. Dimensions(0) /\ Placed(c[1], Sets(0), WaysOf(0))
        BY <3>1, Shape, Zenon DEF Hierarchy
      <3>3. QED
        BY <2>1, <2>3, <3>2, Zenon DEF Dimensions, Bare
    <2>5. fill_cache(k, line).victim = Invalid
      <3>1. CASE Has(k, line)
        BY <2>4, <3>1, FillTakes
      <3>2. CASE ~Has(k, line)
        <4>1. /\ Takes(k, fill_cache(k, line).cache, line, S, n)
              /\ fill_cache(k, line).victim = k.data[line % S][Miss(k.replacement[line % S]).way]
          BY <2>4, <3>2, FillTakes
        <4>2. Miss(k.replacement[line % S]).way \in 0..(n - 1)
          BY <4>1, Zenon DEF Takes
        <4>3. QED
          BY <2>4, <4>1, <4>2, Zenon
      <3>3. QED
        BY <3>1, <3>2
    <2>6. v[1] = Invalid
      BY <1>9, <2>1, <2>3, <2>5, Zenon
    <2>7. d[1 + 1] = g[1 + 1]
      BY <1>3, <2>1, <2>6, Zenon DEF Taken
    <2>8. QED
      BY <1>5, <1>6, <1>7, <2>1, <2>2, <2>7, Zenon DEF Reached
  <1>12. CASE ~(l <= u)
    BY <1>5, <1>6, <1>7, <1>12, Zenon DEF Reached
  <1>13. QED
    BY <1>10, <1>11, <1>12

\* Level 0 of a memory, or level 1 under an empty set of level 0, is hit when it has the line
\* and filled with it otherwise, and nothing else happens to it.
LEMMA Touched ==
    ASSUME Built, Plain(memory), NEW c, Hierarchy(c), NEW line \in Nat,
           NEW u \in {0, 1}, u <= levels - 1, u = 1 => Bare(c, line)
    PROVE  LET level == Level(c, line)
               d == do_access(c, line)
           IN  /\ level \in u..levels /\ (level = u <=> Has(c[u + 1], line))
               /\ level = u => d[u + 1] = hit(c[u + 1], line)
               /\ level # u => d[u + 1] = fill_cache(c[u + 1], line).cache
  <1>1. PICK G : AccessRun(G, c, line)
    BY AccessRuns
  <1>2. PICK level : level = Level(c, line)
    OBVIOUS
  <1>3. levels \in Nat \ {0} /\ level \in 0..levels
    BY <1>2, FoundFacts, Shape
  <1>4. /\ G[0] = Found(c, line) /\ do_access(c, line) = G[level]
        /\ \A i \in 0..level : Hierarchy(G[i])
        /\ \A i \in 0..(level - 1) : BackStep(G[i], G[i + 1], line, level - 1 - i)
    BY <1>1, <1>2, Zenon DEF AccessRun
  <1>5. /\ level < levels => Holds(c, level, line)
        /\ \A k \in 0..(level - 1) : ~Holds(c, k, line)
    BY <1>2, FoundFacts
  <1>6. \A k \in 0..(levels - 1) : k # level => G[0][k + 1] = c[k + 1]
    BY <1>2, <1>4, FoundFacts
  <1>7. u \in 0..(levels - 1) /\ u \in Nat
    BY <1>3
  <1>8. Has(c[u + 1], line) <=> Holds(c, u, line)
    <2>1. PICK k, S, n : k = c[u + 1] /\ S = Sets(u) /\ n = WaysOf(u)
      OBVIOUS
    <2>2. S \in Nat \ {0} /\ n \in Nat \ {0} /\ Placed(k, S, n)
      BY <1>7, <2>1, Shape, Zenon DEF Dimensions, Hierarchy
    <2>3. k \in CachesOf(S, n)
      BY <2>2, Zenon DEF Placed
    <2>4. Has(k, line) <=> In(k, S, n, line)
      BY <2>2, <2>3, LookupFacts
    <2>5. QED
      BY <2>1, <2>4, Zenon DEF Holds
  <1>9. level \in u..levels
    <2>1. CASE u = 1
      <3>1. ~Holds(c, 0, line)
        <4>1. line # Invalid /\ 0 + 1 = 1
          BY DEF Invalid
        <4>2. QED
          BY <2>1, <4>1, Zenon DEF Bare, Holds, In
      <3>2. level # 0
        BY <1>3, <1>5, <3>1
      <3>3. QED
        BY <1>3, <2>1, <3>2
    <2>2. QED
      BY <1>3, <2>1
  <1>10. level = u <=> Has(c[u + 1], line)
    <2>1. ASSUME level # u PROVE u \in 0..(level - 1)
      BY <1>3, <1>7, <1>9, <2>1
    <2>2. u < levels
      BY <1>3, <1>7
    <2>3. QED
      BY <1>5, <1>8, <2>1, <2>2, Zenon
  <1> DEFINE E == IF level = u THEN hit(c[u + 1], line) ELSE fill_cache(c[u + 1], line).cache
             T == {i \in 0..level : \A j \in 0..level : j = level - i => Reached(G[i], c, j, u, E)}
  <1>11. level = u => G[0][u + 1] = hit(c[u + 1], line)
    <2>1. ASSUME level = u
          PROVE  level < levels /\ get_inclusiveness(level) # "exclusive"
      <3>1. get_inclusiveness(u) = "non_inclusive"
        BY <1>7, PlainLevels
      <3>2. QED
        BY <1>3, <1>7, <2>1, <3>1
    <2>2. (level < levels /\ (level = 0 \/ get_inclusiveness(level) # "exclusive"))
             => G[0][level + 1] = hit(c[level + 1], line)
      <3>1. LET k == Level(c, line)
                d == Found(c, line)
            IN  /\ k \in 0..levels /\ (k < levels => Holds(c, k, line))
                /\ \A m \in 0..(k - 1) : ~Holds(c, m, line)
                /\ Hierarchy(d)
                /\ \A m \in 0..(levels - 1) : m # k => d[m + 1] = c[m + 1]
                /\ (k < levels /\ (k = 0 \/ get_inclusiveness(k) # "exclusive"))
                      => /\ d[k + 1] = hit(c[k + 1], line)
                         /\ \A y : Holds(d, k, y) <=> Holds(c, k, y)
        BY FoundFacts
      <3>2. QED
        BY <1>2, <1>4, <3>1, Zenon
    <2>3. QED
      BY <2>1, <2>2
  <1> HIDE DEF E
  <1>12. 0 \in T
    <2>1. ASSUME NEW m \in 0..(level - 1) PROVE G[0][m + 1] = c[m + 1]
      <3>1. m \in 0..(levels - 1) /\ m # level
        BY <1>3
      <3>2. QED
        BY <1>6, <3>1
    <2>2. ASSUME level <= u PROVE G[0][u + 1] = E
      <3>1. level = u
        BY <1>3, <1>7, <1>9, <2>2
      <3>2. QED
        BY <1>11, <3>1, Zenon DEF E
    <2>3. Reached(G[0], c, level, u, E)
      BY <2>1, <2>2, Zenon DEF Reached
    <2>4. level - 0 = level /\ 0 \in 0..level
      BY <1>3
    <2>5. QED
      BY <2>3, <2>4
  <1>13. ASSUME NEW i \in 0..(level - 1), i \in T PROVE i + 1 \in T
    <2>1. PICK l : l = level - 1 - i
      OBVIOUS
    <2>2. /\ i \in 0..level /\ i + 1 \in 0..level /\ l \in 0..(level - 1) /\ l + 1 \in 0..level
          /\ l + 1 = level - i /\ l = level - (i + 1) /\ l \in 0..(levels - 1) /\ l # level
      BY <1>3, <2>1
    <2>3. Reached(G[i], c, l + 1, u, E)
      BY <1>13, <2>2
    <2>4. BackStep(G[i], G[i + 1], line, l) /\ Hierarchy(G[i])
      BY <1>4, <2>1, <2>2, Zenon
    <2>5. l = u => E = fill_cache(c[u + 1], line).cache
      BY <2>2, Zenon DEF E
    <2>6. Reached(G[i + 1], c, l, u, E)
      BY <2>2, <2>3, <2>4, <2>5, ReachedStep
    <2>7. QED
      BY <2>2, <2>6
  <1> HIDE DEF T
  <1>14. level \in T
    <2>1. level \in Nat /\ level \in 0..level
      BY <1>3
    <2>2. \A i \in 0..level : i \in T
      BY <1>12, <1>13, <2>1, InductTo
    <2>3. QED
      BY <2>1, <2>2
  <1>15. G[level][u + 1] = E
    <2>1. 0 \in 0..level /\ 0 = level - level /\ 0 <= u
      BY <1>3
    <2>2. Reached(G[level], c, 0, u, E)
      BY <1>14, <2>1 DEF T
    <2>3. QED
      BY <2>1, <2>2, Zenon DEF Reached
  <1>16. QED
    BY <1>2, <1>4, <1>9, <1>10, <1>15, Zenon DEF E

-----------------------------------------------------------------------------
(* One level with one set, under FIFO or LRU.                              *)

\* The memories in which such a policy is explored alone.
OneSet(m) == /\ Len(m.shape) = 1 /\ m.shape[1].index_bits = 0
             /\ m.shape[1].policy.kind \in {"FIFO", "LRU"}

\* No line twice.
Distinct(list) == \A i, j \in 1..Len(list) : list[i] = list[j] => i = j

LEMMA InFrontFacts ==
    ASSUME NEW list \in Seq(Nat), Distinct(list), NEW line \in Nat
    PROVE  \E place \in 1..(Len(list) + 1) :
              /\ InFront(list, line) = Moved(list, line, place)
              /\ IF place = Len(list) + 1 THEN \A i \in 1..Len(list) : list[i] # line
                 ELSE place \in 1..Len(list) /\ list[place] = line
              /\ InFront(list, line) \in Seq(Nat) /\ Distinct(InFront(list, line))
  <1> DEFINE P == IF line \in Range(list) THEN CHOOSE i \in 1..Len(list) : list[i] = line
                  ELSE Len(list) + 1
  <1>1. Len(list) \in Nat /\ DOMAIN list = 1..Len(list)
    OBVIOUS
  <1>2. line \in Range(list) <=> \E i \in 1..Len(list) : list[i] = line
    BY <1>1 DEF Range
  <1>3. PICK place : place = P
    OBVIOUS
  <1>4. /\ place \in 1..(Len(list) + 1)
        /\ IF place = Len(list) + 1 THEN \A i \in 1..Len(list) : list[i] # line
           ELSE place \in 1..Len(list) /\ list[place] = line
    <2>1. CASE line \in Range(list)
      <3>1. P \in 1..Len(list) /\ list[P] = line
        BY <1>2, <2>1
      <3> HIDE DEF P
      <3>2. place \in 1..Len(list) /\ list[place] = line
        BY <1>3, <3>1
      <3>3. place \in 1..(Len(list) + 1) /\ place # Len(list) + 1
        BY <1>1, <3>2
      <3>4. QED
        BY <3>2, <3>3
    <2>2. CASE line \notin Range(list)
      <3>1. place = Len(list) + 1
        BY <1>3, <2>2
      <3>2. QED
        BY <1>1, <1>2, <2>2, <3>1
    <2>3. QED
      BY <2>1, <2>2
  <1>5. InFront(list, line) = Moved(list, line, place)
    <2>1. InFront(list, line)
            = [i \in 1..(IF P > Len(list) THEN P ELSE Len(list)) |->
                  IF i = 1 THEN line ELSE IF i <= P THEN list[i - 1] ELSE list[i]]
      BY Zenon DEF InFront
    <2> HIDE DEF P
    <2>2. QED
      BY <1>3, <2>1, Zenon DEF Moved
  <1> DEFINE m == Moved(list, line, place)
             a == IF place > Len(list) THEN place ELSE Len(list)
  <1>6. /\ m \in Seq(Nat) /\ Len(m) = a
        /\ \A k \in 1..Len(m) :
              m[k] = IF k = 1 THEN line ELSE IF k <= place THEN list[k - 1] ELSE list[k]
    <2>1. IsMoved(Moved(list, line, place), list, line, place)
      BY <1>4, MovedFacts
    <2>2. QED
      BY <2>1, Zenon DEF IsMoved
  <1> HIDE DEF m, a, P
  <1>7. Distinct(m)
    <2>1. PICK L : L = Len(list)
      OBVIOUS
    <2>2. /\ L \in Nat /\ place \in 1..(L + 1) /\ a = IF place > L THEN place ELSE L
      BY <1>1, <1>4, <2>1, Zenon DEF a
    \* Where the element at position k was, 0 for the line.
    <2> DEFINE was(k) == IF k = 1 THEN place ELSE IF k <= place THEN k - 1 ELSE k
    <2>3. ASSUME NEW k \in 1..a
          PROVE  /\ was(k) \in 1..(L + 1) /\ (was(k) = L + 1 => k = 1)
                 /\ (k # 1 => m[k] = list[was(k)] /\ was(k) # place)
                 /\ (k = 1 => m[k] = line /\ was(k) = place)
      <3>1. k \in 1..Len(m)
        BY <1>6
      <3>2. m[k] = IF k = 1 THEN line ELSE IF k <= place THEN list[k - 1] ELSE list[k]
        BY <1>6, <3>1
      <3>3. was(k) \in 1..(L + 1) /\ (was(k) = L + 1 => k = 1) /\ (k # 1 => was(k) # place)
        BY <2>2
      <3>4. QED
        BY <3>2, <3>3
    <2>4. \A j, k \in 1..a : was(j) = was(k) => j = k
      BY <2>2
    <2> HIDE DEF was
    <2>5. ASSUME NEW k \in 1..a, k # 1 PROVE m[k] # line /\ was(k) \in 1..L
      <3>1. was(k) \in 1..L /\ m[k] = list[was(k)] /\ was(k) # place
        BY <2>2, <2>3, <2>5
      <3>2. CASE place = L + 1
        BY <1>4, <2>1, <3>1, <3>2
      <3>3. CASE place # L + 1
        <4>1. place \in 1..L /\ list[place] = line
          BY <1>4, <2>1, <3>3
        <4>2. QED
          BY <2>1, <3>1, <4>1 DEF Distinct
      <3>4. QED
        BY <3>2, <3>3
    <2>6. ASSUME NEW j \in 1..a, NEW k \in 1..a, m[j] = m[k] PROVE j = k
      <3>1. CASE j = 1
        <4>1. m[j] = line
          BY <2>3, <3>1
        <4>2. QED
          BY <2>5, <2>6, <3>1, <4>1
      <3>2. CASE k = 1
        <4>1. m[k] = line
          BY <2>3, <3>2
        <4>2. QED
          BY <2>5, <2>6, <3>2, <4>1
      <3>3. CASE j # 1 /\ k # 1
        <4>1. /\ was(j) \in 1..L /\ was(k) \in 1..L
              /\ m[j] = list[was(j)] /\ m[k] = list[was(k)]
          BY <2>3, <2>5, <3>3
        <4>2. list[was(j)] = list[was(k)]
          BY <2>6, <4>1, Zenon
        <4>3. was(j) = was(k)
          BY <2>1, <4>1, <4>2, Zenon DEF Distinct
        <4>4. QED
          BY <2>4, <4>3
      <3>4. QED
        BY <3>1, <3>2, <3>3
    <2>7. QED
      BY <1>6, <2>6 DEF Distinct
  <1>8. m = InFront(list, line)
    BY <1>5, Zenon DEF m
  <1>9. QED
    BY <1>4, <1>6, <1>7, <1>8, <1>5, Zenon

\* The invariant: the ways of the set hold, in the order of the policy, the lines of recent.
RecentInv ==
    /\ MemoryInv /\ Plain(memory) /\ OneSet(memory)
    /\ recent \in Seq(Nat) /\ Distinct(recent)
    /\ Listed(caches[1], 0, WaysOf(0), recent)
    /\ caches[1].replacement[0].kind = memory.shape[1].policy.kind

\* Such a memory has no adapter and one set.
LEMMA OneSetFacts ==
    ASSUME Built, OneSet(memory), Plain(memory)
    PROVE  /\ levels = 1 /\ Sets(0) = 1 /\ WaysOf(0) \in Nat \ {0} /\ memory.adapter = "none"
           /\ memory.shape[1].policy \in Policies(WaysOf(0))
           /\ memory.shape[1].policy.kind \in {"FIFO", "LRU"}
  <1>1. levels = 1
    BY DEF OneSet, levels
  <1>2. 0 \in 0..(levels - 1) /\ 0 + 1 = 1
    BY <1>1
  <1>3. Sets(0) = 1
    BY <1>2, PowersAssumption, Zenon DEF Sets, OneSet
  <1>4. memory.adapter = "none"
    <2>1. memory.adapter # "none" => Len(memory.shape) >= 2
      BY AdapterAssumption DEF Built
    <2>2. QED
      BY <1>1, <2>1 DEF levels
  <1>5. WaysOf(0) \in Nat \ {0} /\ memory.shape[0 + 1].policy \in Policies(WaysOf(0))
    BY <1>2, Shape, Zenon DEF Dimensions
  <1>6. QED
    BY <1>1, <1>2, <1>3, <1>4, <1>5, Zenon DEF OneSet

LEMMA RecentInit == InitAdapter /\ Usual(memory) /\ Plain(memory) /\ OneSet(memory) => RecentInv
  <1> SUFFICES ASSUME InitAdapter, Usual(memory), Plain(memory), OneSet(memory) PROVE RecentInv
    OBVIOUS
  <1>1. memory \in Memories /\ caches = Cold /\ recent = <<>>
    BY DEF InitAdapter, Init
  <1>2. Built /\ MemoryInv
    BY <1>1, MemoryInit DEF Built
  <1>3. /\ levels = 1 /\ Sets(0) = 1 /\ WaysOf(0) \in Nat \ {0}
        /\ memory.shape[1].policy \in Policies(WaysOf(0))
        /\ memory.shape[1].policy.kind \in {"FIFO", "LRU"}
    BY <1>2, OneSetFacts
  <1>4. caches[1] = NewCache(0)
    <2>1. 1 \in 1..levels /\ 1 - 1 = 0
      BY <1>3
    <2>2. caches[1] = NewCache(1 - 1)
      BY <1>1, <2>1 DEF Cold
    <2>3. QED
      BY <2>1, <2>2, Zenon
  <1>5. PICK n, p, c : n = WaysOf(0) /\ p = memory.shape[1].policy /\ c = caches[1]
    OBVIOUS
  <1>6. c = [data |-> [s \in 0..(1 - 1) |-> [w \in 0..(n - 1) |-> Invalid]],
             replacement |-> [s \in 0..(1 - 1) |-> p]]
    <2>1. 0 + 1 = 1
      OBVIOUS
    <2>2. QED
      BY <1>3, <1>4, <1>5, <2>1, Zenon DEF NewCache
  <1>7. c.data[0] = [w \in 0..(n - 1) |-> Invalid] /\ c.replacement[0] = p
    BY <1>6
  <1>8. p.order \in Orders(n) /\ p.kind \in {"FIFO", "LRU"} /\ n \in Nat \ {0}
    BY <1>3, <1>5, ListPolicies
  <1>9. Stack(c.data[0], p.order, n, recent)
    <2>1. ASSUME NEW k \in 1..n PROVE c.data[0][p.order[k]] = Invalid /\ ~(k <= Len(recent))
      <3>1. p.order[k] \in 0..(n - 1)
        BY <1>8 DEF Orders
      <3>2. Len(recent) = 0
        BY <1>1
      <3>3. QED
        BY <1>7, <1>8, <3>1, <3>2
    <2>2. QED
      BY <2>1, Zenon DEF Stack
  <1>10. recent \in Seq(Nat) /\ Distinct(recent)
    BY <1>1 DEF Distinct
  <1>11. QED
    BY <1>2, <1>5, <1>7, <1>8, <1>9, <1>10, Zenon DEF RecentInv, Listed

LEMMA RecentNext == RecentInv /\ [NextAdapter]_vars => RecentInv'
  <1> SUFFICES ASSUME RecentInv, [NextAdapter]_vars PROVE RecentInv'
    OBVIOUS
  <1>1. /\ MemoryInv /\ Plain(memory) /\ OneSet(memory) /\ recent \in Seq(Nat) /\ Distinct(recent)
        /\ Listed(caches[1], 0, WaysOf(0), recent)
        /\ caches[1].replacement[0].kind = memory.shape[1].policy.kind
    BY DEF RecentInv
  <1>2. MemoryInv' /\ memory' = memory
    BY <1>1, MemoryNext, AdapterKept
  <1>3. Built /\ Hierarchy(caches) /\ Offered \subseteq Nat
        /\ (pc = "retry" => memory.adapter = "bypass")
    BY <1>1 DEF MemoryInv
  <1>4. /\ levels = 1 /\ Sets(0) = 1 /\ WaysOf(0) \in Nat \ {0} /\ memory.adapter = "none"
        /\ memory.shape[1].policy.kind \in {"FIFO", "LRU"}
    BY <1>1, <1>3, OneSetFacts
  <1>5. Plain(memory)' /\ OneSet(memory)' /\ WaysOf(0)' = WaysOf(0)
    BY <1>1, <1>2, ShapeKept, Zenon DEF Plain, OneSet
  <1>6. ASSUME NEW r, NEW list \in Seq(Nat), caches'[1] = r, recent' = list, Distinct(list),
               Listed(r, 0, WaysOf(0), list), r.replacement[0].kind = memory.shape[1].policy.kind
        PROVE  RecentInv'
    <2>1. Listed(caches[1], 0, WaysOf(0), recent)'
      BY <1>5, <1>6, Zenon DEF Listed
    <2>2. (caches[1].replacement[0].kind = memory.shape[1].policy.kind)'
      BY <1>2, <1>6, Zenon
    <2>3. (recent \in Seq(Nat) /\ Distinct(recent))'
      BY <1>6, Zenon DEF Distinct
    <2>4. QED
      BY <1>2, <1>5, <2>1, <2>2, <2>3 DEF RecentInv
  <1>7. ASSUME UNCHANGED <<caches, recent>> PROVE RecentInv'
    BY <1>1, <1>6, <1>7
  <1>8. ASSUME NEW line \in Offered, PlainAccess(line) PROVE RecentInv'
    <2>1. PICK c, n : c = caches[1] /\ n = WaysOf(0)
      OBVIOUS
    <2>2. line \in Nat /\ n \in Nat \ {0}
      BY <1>3, <1>4, <2>1
    <2>3. Placed(c, 1, n)
      <3>1. 0 \in 0..(levels - 1) /\ 0 + 1 = 1
        BY <1>4
      <3>2. QED
        BY <1>3, <1>4, <2>1, <3>1, Zenon DEF Hierarchy
    <2>4. 0 = line % 1 /\ 1 \in Nat \ {0}
      BY <2>2
    <2>5. Listed(c, 0, n, recent) /\ c.replacement[0].kind \in {"FIFO", "LRU"}
      BY <1>1, <2>1, Zenon DEF Listed
    <2>6. PICK level, d : level = Level(caches, line) /\ d = do_access(caches, line)
      OBVIOUS
    <2>7. /\ caches' = d /\ served' = level
          /\ recent' = IF levels > 1 \/ (memory.shape[1].policy.kind = "FIFO" /\ level = 0)
                       THEN recent ELSE InFront(recent, line)
      BY <1>8, <2>6 DEF PlainAccess, Access
    <2>8. /\ level = 0 <=> Has(c, line)
          /\ level = 0 => d[1] = hit(c, line)
          /\ level # 0 => d[1] = fill_cache(c, line).cache
      <3>1. PICK u : u = 0
        OBVIOUS
      <3>2. u \in {0, 1} /\ u <= levels - 1 /\ (u = 1 => Bare(caches, line)) /\ u + 1 = 1
        BY <1>4, <3>1
      <3>3. LET l == Level(caches, line)
                e == do_access(caches, line)
            IN  /\ l \in u..levels /\ (l = u <=> Has(caches[u + 1], line))
                /\ l = u => e[u + 1] = hit(caches[u + 1], line)
                /\ l # u => e[u + 1] = fill_cache(caches[u + 1], line).cache
        BY <1>1, <1>3, <2>2, <3>2, Touched
      <3>4. QED
        BY <2>1, <2>6, <3>1, <3>2, <3>3, Zenon
    <2>9. PICK place \in 1..(Len(recent) + 1) :
              /\ InFront(recent, line) = Moved(recent, line, place)
              /\ IF place = Len(recent) + 1 THEN \A i \in 1..Len(recent) : recent[i] # line
                 ELSE place \in 1..Len(recent) /\ recent[place] = line
              /\ InFront(recent, line) \in Seq(Nat) /\ Distinct(InFront(recent, line))
      BY <1>1, <2>2, InFrontFacts
    <2>10. CASE Has(c, line)
      <3>1. PICK r : r = hit(c, line)
        OBVIOUS
      <3>2. HitListed(c, hit(c, line), line, 0, 1, n, recent)
        BY <1>1, <2>2, <2>3, <2>4, <2>5, <2>10, ListHit
      <3>3. r.replacement[0].kind = c.replacement[0].kind
        BY <3>1, <3>2, Zenon DEF HitListed
      <3>4. PICK i \in 1..n : /\ i <= Len(recent) /\ recent[i] = line
                              /\ c.replacement[0].kind = "FIFO" => Listed(r, 0, n, recent)
                              /\ c.replacement[0].kind = "LRU"
                                    => Listed(r, 0, n, Moved(recent, line, i))
        BY <3>1, <3>2, Zenon DEF HitListed
      <3>5. d[1] = r /\ level = 0
        BY <2>8, <2>10, <3>1
      <3>6. CASE c.replacement[0].kind = "FIFO"
        <4>1. recent' = recent
          BY <1>1, <2>1, <2>7, <3>5, <3>6, Zenon
        <4>2. QED
          BY <1>1, <1>6, <2>1, <2>7, <3>3, <3>4, <3>5, <3>6, <4>1, Zenon
      <3>7. CASE c.replacement[0].kind = "LRU"
        <4>1. place = i
          <5>1. i \in 1..Len(recent) /\ Len(recent) \in Nat
            BY <1>1, <3>4
          <5>2. place # Len(recent) + 1
            BY <2>9, <3>4, <5>1, Zenon
          <5>3. QED
            BY <1>1, <2>9, <3>4, <5>1, <5>2, Zenon DEF Distinct
        <4>2. recent' = Moved(recent, line, i)
          <5>1. ~(levels > 1) /\ ~(memory.shape[1].policy.kind = "FIFO")
            BY <1>1, <1>4, <2>1, <3>7
          <5>2. QED
            BY <2>7, <2>9, <4>1, <5>1, Zenon
        <4>3. Moved(recent, line, i) \in Seq(Nat) /\ Distinct(Moved(recent, line, i))
          BY <2>9, <4>1, Zenon
        <4>4. QED
          BY <1>1, <1>6, <2>1, <2>7, <3>3, <3>4, <3>5, <3>7, <4>2, <4>3, Zenon
      <3>8. QED
        BY <2>5, <3>6, <3>7
    <2>11. CASE ~Has(c, line)
      <3>1. PICK r : r = fill_cache(c, line).cache
        OBVIOUS
      <3>2. MissListed(c, fill_cache(c, line).cache, line, 0, 1, n, recent)
        BY <1>1, <2>2, <2>3, <2>4, <2>5, <2>11, ListMiss
      <3>3. /\ r.replacement[0].kind = c.replacement[0].kind
            /\ \A i \in 1..n : i <= Len(recent) => recent[i] # line
            /\ place = Len(recent) + 1 \/ n <= place => Listed(r, 0, n, Moved(recent, line, place))
        BY <3>1, <3>2, Zenon DEF MissListed
      <3>4. d[1] = r /\ level # 0
        BY <2>8, <2>11, <3>1
      <3>5. place = Len(recent) + 1 \/ n <= place
        <4>1. CASE place # Len(recent) + 1
          <5>1. place \in 1..Len(recent) /\ recent[place] = line /\ Len(recent) \in Nat
            BY <1>1, <2>9, <4>1
          <5>2. ~(place \in 1..n)
            BY <3>3, <5>1
          <5>3. QED
            BY <2>2, <5>1, <5>2
        <4>2. QED
          BY <4>1
      <3>6. recent' = Moved(recent, line, place)
        <4>1. ~(levels > 1)
          BY <1>4
        <4>2. QED
          BY <2>7, <2>9, <3>4, <4>1, Zenon
      <3>7. Moved(recent, line, place) \in Seq(Nat) /\ Distinct(Moved(recent, line, place))
        BY <2>9, Zenon
      <3>8. QED
        BY <1>1, <1>6, <2>1, <2>7, <3>3, <3>4, <3>5, <3>6, <3>7, Zenon
    <2>12. QED
      BY <2>10, <2>11
  <1>9. ASSUME NEW line \in Offered, BypassAccess(line) PROVE FALSE
    BY <1>4, <1>9 DEF BypassAccess
  <1>10. ASSUME NEW line \in Offered, ArmAccess(line) PROVE FALSE
    BY <1>4, <1>10 DEF ArmAccess
  <1>11. ~AccessEvictionSet /\ ~AccessAgain
    BY <1>3, <1>4 DEF AccessEvictionSet, AccessAgain
  <1>12. CASE UNCHANGED vars
    BY <1>7, <1>12 DEF vars, memory_vars
  <1>13. QED
    BY <1>8, <1>9, <1>10, <1>11, <1>12, Zenon DEF NextAdapter

\* The cache holds the first lines of recent, as many as there are ways.
LEMMA RecentContents ==
    ASSUME RecentInv
    PROVE  \A y : y \in Contents(0)
                     <=> \E i \in 1..Len(recent) : i <= WaysOf(0) /\ recent[i] = y
  <1>1. /\ Built /\ Hierarchy(caches) /\ Plain(memory) /\ OneSet(memory) /\ recent \in Seq(Nat)
        /\ Listed(caches[1], 0, WaysOf(0), recent)
    BY DEF RecentInv, MemoryInv
  <1>2. levels = 1 /\ Sets(0) = 1 /\ WaysOf(0) \in Nat \ {0}
    BY <1>1, OneSetFacts
  <1>3. PICK c, n : c = caches[1] /\ n = WaysOf(0)
    OBVIOUS
  <1>4. 0 \in 0..(levels - 1) /\ 0 + 1 = 1 /\ n \in Nat \ {0}
    BY <1>2, <1>3
  <1>5. Contents(0) = ContentsIn(caches, 0)
    BY DEF Contents, ContentsIn
  <1>6. \A y : y \in Contents(0) <=> y \in Nat /\ Holds(caches, 0, y)
    BY <1>1, <1>4, <1>5, ContentsFacts
  <1>7. \A y : Holds(caches, 0, y) <=> In(c, 1, n, y)
    BY <1>2, <1>3, <1>4, Zenon DEF Holds
  <1>8. \A y \in Nat : In(c, 1, n, y) <=> \E w \in 0..(n - 1) : c.data[0][w] = y
    <2>1. ASSUME NEW y \in Nat PROVE y % 1 = 0 /\ y # Invalid
      BY DEF Invalid
    <2>2. QED
      BY <2>1, Zenon DEF In
  <1>9. /\ c.replacement[0].kind \in {"FIFO", "LRU"}
        /\ Stack(c.data[0], c.replacement[0].order, n, recent)
    BY <1>1, <1>3, Zenon DEF Listed
  <1>10. c.replacement[0].order \in Orders(n)
    <2>1. Placed(c, 1, n)
      BY <1>1, <1>2, <1>3, <1>4, Zenon DEF Hierarchy
    <2>2. c \in CachesOf(1, n) /\ 1 \in Nat \ {0}
      BY <2>1 DEF Placed
    <2>3. c.replacement[0] \in Policies(n)
      <3>1. c.replacement \in [0..(1 - 1) -> Policies(n)]
        BY <1>4, <2>2, CacheFields
      <3>2. QED
        BY <3>1
    <2>4. QED
      BY <1>4, <1>9, <2>3, ListPolicies
  <1>11. PICK d, o : d = c.data[0] /\ o = c.replacement[0].order
    OBVIOUS
  <1>12. o \in Orders(n) /\ Stack(d, o, n, recent)
    BY <1>9, <1>10, <1>11
  <1>13. ASSUME NEW y \in Nat
         PROVE  (\E w \in 0..(n - 1) : d[w] = y)
                   <=> \E i \in 1..Len(recent) : i <= n /\ recent[i] = y
    <2>1. y # Invalid
      BY DEF Invalid
    <2>2. ASSUME NEW w \in 0..(n - 1), d[w] = y
          PROVE  \E i \in 1..Len(recent) : i <= n /\ recent[i] = y
      <3>1. PICK i \in 1..n : o[i] = w
        BY <1>4, <1>12, EveryWay
      <3>2. d[o[i]] = IF i <= Len(recent) THEN recent[i] ELSE Invalid
        BY <1>12, Zenon DEF Stack
      <3>3. i <= Len(recent) /\ recent[i] = y
        BY <2>1, <2>2, <3>1, <3>2, Zenon
      <3>4. i \in 1..Len(recent) /\ i <= n
        BY <1>1, <1>4, <3>3
      <3>5. QED
        BY <3>3, <3>4
    <2>3. ASSUME NEW i \in 1..Len(recent), i <= n, recent[i] = y
          PROVE  \E w \in 0..(n - 1) : d[w] = y
      <3>1. i \in 1..n /\ i <= Len(recent)
        BY <1>1, <1>4, <2>3
      <3>2. o[i] \in 0..(n - 1)
        BY <1>12, <3>1 DEF Orders
      <3>3. d[o[i]] = recent[i]
        BY <1>12, <3>1, Zenon DEF Stack
      <3>4. QED
        BY <2>3, <3>2, <3>3
    <2>4. QED
      BY <2>2, <2>3
  <1>14. \A i \in 1..Len(recent) : recent[i] \in Nat
    BY <1>1
  <1> HIDE DEF Contents
  <1>15. ASSUME NEW y
         PROVE  y \in Contents(0) <=> \E i \in 1..Len(recent) : i <= n /\ recent[i] = y
    <2>1. CASE y \in Nat
      BY <1>6, <1>7, <1>8, <1>11, <1>13, <2>1, Zenon
    <2>2. CASE y \notin Nat
      BY <1>6, <1>14, <2>2, Zenon
    <2>3. QED
      BY <2>1, <2>2
  <1>16. QED
    BY <1>3, <1>15, Zenon

LEMMA RecentAlways ==
    Spec /\ Usual(memory) /\ Plain(memory) /\ OneSet(memory) => []RecentInv
  <1>1. InitAdapter /\ Usual(memory) /\ Plain(memory) /\ OneSet(memory) => RecentInv
    BY RecentInit
  <1>2. RecentInv /\ [NextAdapter]_vars => RecentInv'
    BY RecentNext
  <1>3. QED
    BY <1>1, <1>2, PTL DEF Spec

\* Alone in a cache of one set, LRU holds exactly the lines that were used last, FIFO those that
\* were loaded last, as many as there are ways: what RetainsRecent says of the two policies.
THEOREM RecentRetained ==
    Spec /\ Usual(memory) /\ Plain(memory) /\ OneSet(memory) => []RetainsRecent
  <1>1. RecentInv => RetainsRecent
    <2> SUFFICES ASSUME RecentInv PROVE RetainsRecent
      OBVIOUS
    <2>1. policy.kind \in {"FIFO", "LRU"}
      BY DEF RecentInv, Listed, policy
    <2>2. Retained = WaysOf(0)
      BY <2>1 DEF Retained
    <2>3. \A y : y \in Contents(0) <=> \E i \in 1..Len(recent) : i <= WaysOf(0) /\ recent[i] = y
      BY RecentContents
    <2>4. QED
      BY <2>2, <2>3, Zenon DEF RetainsRecent
  <1>2. QED
    BY <1>1, RecentAlways, PTL

\* Such a cache evicts nothing while a way is free: it holds as many lines as were used, up to the
\* number of its ways (FillsBeforeEviction of the two policies).
THEOREM FilledBeforeEviction ==
    Spec /\ Usual(memory) /\ Plain(memory) /\ OneSet(memory) => []FillsBeforeEviction
  <1>1. RecentInv => FillsBeforeEviction
    <2> SUFFICES ASSUME RecentInv PROVE FillsBeforeEviction
      OBVIOUS
    <2>1. /\ Built /\ Plain(memory) /\ OneSet(memory)
          /\ recent \in Seq(Nat) /\ Distinct(recent) /\ policy.kind \in {"FIFO", "LRU"}
      BY DEF RecentInv, MemoryInv, Listed, policy
    <2>2. PICK n, L : n = WaysOf(0) /\ L = Len(recent)
      OBVIOUS
    <2>3. n \in Nat \ {0} /\ L \in Nat
      <3>1. WaysOf(0) \in Nat \ {0}
        BY <2>1, OneSetFacts
      <3>2. QED
        BY <2>1, <2>2, <3>1
    <2>4. \A y : y \in Contents(0) <=> \E i \in 1..L : i <= n /\ recent[i] = y
      BY <2>2, RecentContents
    <2>5. PICK m : m = IF L <= n THEN L ELSE n
      OBVIOUS
    <2>6. m \in Nat /\ \A i : i \in 1..m <=> i \in 1..L /\ i <= n
      BY <2>3, <2>5
    <2> DEFINE t == [k \in 1..m |-> recent[k]]
    <2>7. t \in Seq(Nat) /\ Len(t) = m
      BY <2>1, <2>2, <2>6
    <2>8. Range(t) = Contents(0)
      <3>1. \A y : y \in Range(t) <=> \E i \in 1..m : recent[i] = y
        BY <2>6 DEF Range
      <3>2. QED
        BY <2>4, <2>6, <3>1
    <2>9. \A j, k \in 1..Len(t) : t[j] = t[k] => j = k
      <3>1. ASSUME NEW j \in 1..m, NEW k \in 1..m, recent[j] = recent[k] PROVE j = k
        BY <2>1, <2>2, <2>6, <3>1, Zenon DEF Distinct
      <3>2. QED
        BY <2>7, <3>1
    <2> HIDE DEF t
    <2>10. (\A j, k \in 1..Len(t) : t[j] = t[k] => j = k) <=> Cardinality(Range(t)) = Len(t)
      BY <2>7, DistinctCount
    <2>11. Cardinality(Contents(0)) = m
      BY <2>7, <2>8, <2>9, <2>10, Zenon
    <2>12. Min({L, n}) = m
      BY <2>3, <2>5 DEF Min
    <2>13. policy.kind \notin {"LRU_WRAPPED", "LINEAR_INIT"}
      BY <2>1
    <2>14. QED
      BY <2>2, <2>11, <2>12, <2>13, Zenon DEF FillsBeforeEviction
  <1>2. QED
    BY <1>1, RecentAlways, PTL

-----------------------------------------------------------------------------
(* An LRU level implements LruCache.                                       *)

\* A set under LRU holds the lines of a list, in its order.
OfLru(c, s, n, list) == /\ list \in Seq(Nat) /\ Len(list) <= n
                        /\ c.replacement[s].kind = "LRU" /\ Listed(c, s, n, list)
\* So does every set.
LruLevel(c, S, n) == \A s \in 0..(S - 1) : \E list \in Seq(Nat) : OfLru(c, s, n, list)

\* Recency finds the list, in which no line is twice.
LEMMA RecencyIs ==
    ASSUME NEW S \in Nat \ {0}, NEW n \in Nat \ {0}, NEW c, Placed(c, S, n),
           NEW s \in 0..(S - 1), NEW list, OfLru(c, s, n, list)
    PROVE  Recency(c, s) = list /\ Distinct(list)
  <1> DEFINE p == c.replacement[s]
             o == p.order
             d == c.data[s]
  <1>1. c \in CachesOf(S, n) /\ list \in Seq(Nat) /\ Len(list) <= n
    BY DEF Placed, OfLru
  <1>2. /\ c.data \in [0..(S - 1) -> [0..(n - 1) -> Nat \cup {Invalid}]]
        /\ c.replacement \in [0..(S - 1) -> Policies(n)]
    BY <1>1, CacheFields
  <1>3. d \in [0..(n - 1) -> Nat \cup {Invalid}] /\ p \in Policies(n)
    BY <1>2
  <1>4. p.kind \in {"FIFO", "LRU"} /\ Stack(d, o, n, list)
    BY DEF OfLru, Listed
  <1>5. o \in Orders(n)
    BY <1>3, <1>4, ListPolicies
  <1>6. \A v, w \in 0..(n - 1) : d[v] = d[w] /\ d[v] # Invalid => v = w
    BY DEF Placed
  <1>7. Recency(c, s) = [i \in 1..Cardinality({w \in DOMAIN d : d[w] # Invalid}) |-> d[o[i]]]
    BY Zenon DEF Recency
  <1> HIDE DEF d, o, p
  <1>8. DOMAIN d = 0..(n - 1)
    BY <1>3
  <1>9. Cardinality({w \in 0..(n - 1) : d[w] # Invalid}) = Len(list)
    BY <1>1, <1>4, <1>5, StackCount
  <1>10. Recency(c, s) = [i \in 1..Len(list) |-> d[o[i]]]
    BY <1>7, <1>8, <1>9, Zenon
  <1>11. ASSUME NEW i \in 1..Len(list)
         PROVE  i \in 1..n /\ d[o[i]] = list[i] /\ o[i] \in 0..(n - 1) /\ list[i] # Invalid
    <2>1. i \in 1..n /\ i <= Len(list)
      BY <1>1
    <2>2. d[o[i]] = list[i]
      BY <1>4, <2>1, Zenon DEF Stack
    <2>3. o[i] \in 0..(n - 1)
      BY <1>5, <2>1 DEF Orders
    <2>4. list[i] # Invalid
      <3>1. list[i] \in Nat
        BY <1>1
      <3>2. QED
        BY <3>1 DEF Invalid
    <2>5. QED
      BY <2>1, <2>2, <2>3, <2>4
  <1>12. Recency(c, s) = list
    <2>1. list = [i \in 1..Len(list) |-> list[i]]
      BY <1>1
    <2>2. [i \in 1..Len(list) |-> d[o[i]]] = [i \in 1..Len(list) |-> list[i]]
      BY <1>11
    <2>3. QED
      BY <1>10, <2>1, <2>2, Zenon
  <1>13. Distinct(list)
    <2>1. ASSUME NEW i \in 1..Len(list), NEW j \in 1..Len(list), list[i] = list[j] PROVE i = j
      <3>1. /\ d[o[i]] = d[o[j]] /\ d[o[i]] # Invalid /\ i \in 1..n /\ j \in 1..n
            /\ o[i] \in 0..(n - 1) /\ o[j] \in 0..(n - 1)
        BY <1>11, <2>1
      <3>2. o[i] = o[j]
        BY <1>6, <3>1, Zenon
      <3>3. QED
        BY <1>5, <3>1, <3>2 DEF Orders
    <2>2. QED
      BY <2>1, Zenon DEF Distinct
  <1>14. QED
    BY <1>12, <1>13

\* The place in a list that a used line takes over.
Vacated(list, line, n, place) ==
    \/ place \in 1..Len(list) /\ list[place] = line
    \/ /\ \A i \in 1..Len(list) : list[i] # line
       /\ place = IF Len(list) < n THEN Len(list) + 1 ELSE n

\* A level after a hit or a fill.
After(c, r, line) == /\ Has(c, line) => r = hit(c, line)
                     /\ ~Has(c, line) => r = fill_cache(c, line).cache
\* The line came to the front of the recency of its set.
UsedAt(c, r, line, s, S, n) ==
    /\ LruLevel(r, S, n)
    /\ Recency(c, s) \in Seq(Nat) /\ Distinct(Recency(c, s)) /\ Len(Recency(c, s)) <= n
    /\ Has(c, line) <=> \E i \in 1..Len(Recency(c, s)) : Recency(c, s)[i] = line
    /\ \A t \in 0..(S - 1) : t # s => Recency(r, t) = Recency(c, t)
    /\ \E place \in 1..n : /\ Vacated(Recency(c, s), line, n, place)
                           /\ Recency(r, s) = Moved(Recency(c, s), line, place)

\* A hit or a fill is a use of the line in the recency of its set.
LEMMA LruUse ==
    ASSUME NEW S \in Nat \ {0}, NEW n \in Nat \ {0}, NEW c, Placed(c, S, n), LruLevel(c, S, n),
           NEW line \in Nat, NEW s, s = line % S, NEW r, Placed(r, S, n), After(c, r, line)
    PROVE  UsedAt(c, r, line, s, S, n)
  <1>0. /\ Has(c, line) => r = hit(c, line)
        /\ ~Has(c, line) => r = fill_cache(c, line).cache
    BY DEF After
  <1>1. s \in 0..(S - 1)
    OBVIOUS
  <1>2. PICK list \in Seq(Nat) : OfLru(c, s, n, list)
    BY <1>1 DEF LruLevel
  <1>3. Recency(c, s) = list /\ Distinct(list)
    BY <1>1, <1>2, RecencyIs
  <1>4. Len(list) <= n /\ c.replacement[s].kind = "LRU" /\ Listed(c, s, n, list)
    BY <1>2, Zenon DEF OfLru
  <1>5. PICK L : L = Len(list)
    OBVIOUS
  <1>6. L \in Nat /\ L <= n
    <2>1. Len(list) \in Nat
      OBVIOUS
    <2>2. QED
      BY <1>4, <1>5, <2>1
  <1> DEFINE Used(place) ==
                /\ place \in 1..n /\ place \in 1..(L + 1) /\ Vacated(list, line, n, place)
                /\ Listed(r, s, n, Moved(list, line, place))
             Done == /\ r.replacement[s].kind = "LRU" /\ Elsewhere(c, r, s, S)
                     /\ Has(c, line) <=> \E i \in 1..L : list[i] = line
                     /\ \E place : Used(place)
  <1>7. ASSUME Has(c, line) PROVE Done
    <2>1. HitListed(c, hit(c, line), line, s, S, n, list)
      BY <1>4, <1>7, ListHit
    <2>2. r.replacement[s].kind = "LRU" /\ Elsewhere(c, r, s, S)
      BY <1>0, <1>4, <1>7, <2>1, Zenon DEF HitListed
    <2>3. PICK i \in 1..n : /\ i <= Len(list) /\ list[i] = line
                            /\ Listed(r, s, n, Moved(list, line, i))
      BY <1>0, <1>4, <1>7, <2>1, Zenon DEF HitListed
    <2>4. i \in 1..L /\ i \in 1..(L + 1)
      BY <1>5, <1>6, <2>3
    <2>5. Used(i)
      BY <1>5, <2>3, <2>4, Zenon DEF Vacated
    <2>6. \E j \in 1..L : list[j] = line
      BY <2>3, <2>4
    <2> HIDE DEF Used
    <2>7. QED
      BY <1>7, <2>2, <2>5, <2>6
  <1>8. ASSUME ~Has(c, line) PROVE Done
    <2>1. MissListed(c, fill_cache(c, line).cache, line, s, S, n, list)
      BY <1>4, <1>8, ListMiss
    <2>2. r.replacement[s].kind = "LRU" /\ Elsewhere(c, r, s, S)
      BY <1>0, <1>4, <1>8, <2>1, Zenon DEF MissListed
    <2>3. /\ \A i \in 1..n : i <= L => list[i] # line
          /\ \A q \in 1..(L + 1) : q = L + 1 \/ n <= q => Listed(r, s, n, Moved(list, line, q))
      BY <1>0, <1>5, <1>8, <2>1, Zenon DEF MissListed
    <2>4. PICK place : place = IF L < n THEN L + 1 ELSE n
      OBVIOUS
    <2>5. place \in 1..n /\ place \in 1..(L + 1) /\ (place = L + 1 \/ n <= place)
      BY <1>6, <2>4
    <2>6. \A i \in 1..L : list[i] # line
      <3>1. \A i \in 1..L : i \in 1..n /\ i <= L
        BY <1>6
      <3>2. QED
        BY <2>3, <3>1
    <2>7. Listed(r, s, n, Moved(list, line, place))
      BY <2>3, <2>5, Zenon
    <2>8. Used(place)
      BY <1>5, <2>4, <2>5, <2>6, <2>7, Zenon DEF Vacated
    <2> HIDE DEF Used
    <2>9. QED
      BY <1>8, <2>2, <2>6, <2>8
  <1>9. /\ r.replacement[s].kind = "LRU" /\ Elsewhere(c, r, s, S)
        /\ Has(c, line) <=> \E i \in 1..L : list[i] = line
    BY <1>7, <1>8, Zenon
  <1>10. PICK place : Used(place)
    BY <1>7, <1>8, Zenon
  <1>11. OfLru(r, s, n, Moved(list, line, place)) /\ Moved(list, line, place) \in Seq(Nat)
    <2>1. place \in 1..(Len(list) + 1)
      BY <1>5, <1>10, Zenon
    <2>2. /\ Moved(list, line, place) \in Seq(Nat)
          /\ Len(Moved(list, line, place)) = IF place > Len(list) THEN place ELSE Len(list)
      <3>1. IsMoved(Moved(list, line, place), list, line, place)
        BY <2>1, MovedFacts
      <3>2. QED
        BY <3>1, Zenon DEF IsMoved
    <2>3. Len(Moved(list, line, place)) <= n
      <3>1. PICK M : M = Len(Moved(list, line, place))
        OBVIOUS
      <3>2. M = IF place > L THEN place ELSE L
        BY <1>5, <2>2, <3>1, Zenon
      <3>3. M <= n
        BY <1>6, <1>10, <3>2
      <3>4. QED
        BY <3>1, <3>3, Zenon
    <2>4. QED
      BY <1>9, <1>10, <2>2, <2>3, Zenon DEF OfLru
  <1>12. Recency(r, s) = Moved(list, line, place)
    BY <1>1, <1>11, RecencyIs
  <1>13. ASSUME NEW t \in 0..(S - 1), t # s
         PROVE  r.data[t] = c.data[t] /\ r.replacement[t] = c.replacement[t]
    BY <1>9, <1>13, Zenon DEF Elsewhere
  <1>14. ASSUME NEW t \in 0..(S - 1), t # s PROVE Recency(r, t) = Recency(c, t)
    <2>1. PICK x, y : x = c.data[t] /\ y = c.replacement[t]
      OBVIOUS
    <2>2. r.data[t] = x /\ r.replacement[t] = y
      BY <1>13, <1>14, <2>1
    <2> DEFINE known == [i \in 1..Cardinality({w \in DOMAIN x : x[w] # Invalid}) |-> x[y.order[i]]]
    <2>3. Recency(r, t) = known
      BY <2>2, Zenon DEF Recency
    <2>4. Recency(c, t) = known
      BY <2>1, Zenon DEF Recency
    <2>5. QED
      BY <2>3, <2>4, Zenon
  <1>15. LruLevel(r, S, n)
    <2>1. ASSUME NEW t \in 0..(S - 1), t # s PROVE \E l \in Seq(Nat) : OfLru(r, t, n, l)
      <3>1. PICK l \in Seq(Nat) : OfLru(c, t, n, l)
        BY <2>1 DEF LruLevel
      <3>2. OfLru(r, t, n, l)
        BY <1>13, <2>1, <3>1, Zenon DEF OfLru, Listed
      <3>3. QED
        BY <3>2
    <2>2. QED
      BY <1>11, <2>1, Zenon DEF LruLevel
  <1>16. QED
    BY <1>3, <1>4, <1>5, <1>9, <1>10, <1>12, <1>14, <1>15, Zenon DEF UsedAt

\* Use of LruCache moves the line to the front from the place it vacates.
LEMMA SeenUse ==
    ASSUME NEW list \in Seq(Nat), Distinct(list), NEW line \in Nat, NEW n \in Nat \ {0},
           n = WaysOf(Under), Len(list) <= n, NEW place, Vacated(list, line, n, place)
    PROVE  Seen!Use(list, line) = Moved(list, line, place)
  <1> DEFINE P == CASE line \in Seen!Range(list) -> CHOOSE i \in 1..Len(list) : list[i] = line
                    [] line \notin Seen!Range(list) /\ Len(list) < WaysOf(Under) -> Len(list) + 1
                    [] OTHER -> WaysOf(Under)
  <1>1. line \in Seen!Range(list) <=> \E i \in 1..Len(list) : list[i] = line
    BY DEF Seen!Range
  <1>2. place = P
    <2>1. CASE line \in Seen!Range(list)
      <3>1. P = CHOOSE i \in 1..Len(list) : list[i] = line
        BY <2>1
      <3>2. place \in 1..Len(list) /\ list[place] = line
        BY <1>1, <2>1, Zenon DEF Vacated
      <3> HIDE DEF P
      <3>3. P \in 1..Len(list) /\ list[P] = line
        BY <3>1, <3>2
      <3>4. QED
        BY <3>2, <3>3, Zenon DEF Distinct
    <2>2. CASE line \notin Seen!Range(list)
      <3>1. place = IF Len(list) < n THEN Len(list) + 1 ELSE n
        BY <1>1, <2>2, Zenon DEF Vacated
      <3>2. P = IF Len(list) < n THEN Len(list) + 1 ELSE n
        BY <2>2
      <3>3. QED
        BY <3>1, <3>2, Zenon
    <2>3. QED
      BY <2>1, <2>2
  <1>3. Seen!Use(list, line)
          = [i \in 1..(IF P > Len(list) THEN P ELSE Len(list)) |->
                IF i = 1 THEN line ELSE IF i <= P THEN list[i - 1] ELSE list[i]]
    BY Zenon DEF Seen!Use
  <1> HIDE DEF P
  <1>4. QED
    BY <1>2, <1>3, Zenon DEF Moved

\* What LruCache sees of an access to its level.
LEMMA SeenAccess ==
    ASSUME memory' = memory, IsLru, NEW line \in Nat, accessed' = line,
           NEW S \in Nat \ {0}, NEW n \in Nat \ {0}, S = Sets(Under), n = WaysOf(Under),
           NEW k, k = caches[Under + 1], NEW r, r = caches'[Under + 1],
           Placed(k, S, n), Placed(r, S, n), LruLevel(k, S, n),
           After(k, r, line), answer' = 0 <=> Has(k, line)
    PROVE  Seen!Access /\ LruLevel(r, S, n)
  <1>1. Under' = Under /\ IsLru'
    BY DEF Under, IsLru, levels, get_inclusiveness
  <1>2. Sets(Under)' = S /\ WaysOf(Under)' = n /\ caches'[Under' + 1] = r
    BY <1>1 DEF Sets, WaysOf
  <1>3. PICK s : s = line % S
    OBVIOUS
  <1>4. s \in 0..(S - 1)
    BY <1>3
  <1>5. PICK list : list = Recency(k, s)
    OBVIOUS
  <1>6. /\ LruLevel(r, S, n)
        /\ Recency(k, s) \in Seq(Nat) /\ Distinct(Recency(k, s)) /\ Len(Recency(k, s)) <= n
        /\ Has(k, line) <=> \E i \in 1..Len(Recency(k, s)) : Recency(k, s)[i] = line
        /\ \A t \in 0..(S - 1) : t # s => Recency(r, t) = Recency(k, t)
        /\ \E place \in 1..n : /\ Vacated(Recency(k, s), line, n, place)
                               /\ Recency(r, s) = Moved(Recency(k, s), line, place)
    <2>1. UsedAt(k, r, line, s, S, n)
      BY <1>3, LruUse
    <2>2. QED
      BY <2>1, Zenon DEF UsedAt
  <1>7. PICK place \in 1..n : /\ Vacated(list, line, n, place)
                              /\ Recency(r, s) = Moved(list, line, place)
    BY <1>5, <1>6, Zenon
  <1>8. /\ list \in Seq(Nat) /\ Distinct(list) /\ Len(list) <= n
        /\ Has(k, line) <=> \E i \in 1..Len(list) : list[i] = line
    BY <1>5, <1>6, Zenon
  <1>9. Recency(r, s) = Seen!Use(list, line)
    <2>1. Seen!Use(list, line) = Moved(list, line, place)
      BY <1>7, <1>8, SeenUse
    <2>2. QED
      BY <1>7, <2>1
  <1> DEFINE old == [t \in 0..(Sets(Under) - 1) |->
                        IF IsLru THEN Recency(caches[Under + 1], t) ELSE <<>>]
  <1>10. old = [t \in 0..(S - 1) |-> Recency(k, t)]
    OBVIOUS
  <1>11. old' = [t \in 0..(S - 1) |-> Recency(r, t)]
    BY <1>1, <1>2
  <1>12. PICK a, b : a = old /\ b = old'
    OBVIOUS
  <1> HIDE DEF old
  <1>13. a = [t \in 0..(S - 1) |-> Recency(k, t)] /\ b = [t \in 0..(S - 1) |-> Recency(r, t)]
    BY <1>10, <1>11, <1>12, Zenon
  <1>14. a[s] = list
    BY <1>4, <1>5, <1>13
  <1>15. b = [a EXCEPT ![s] = Seen!Use(@, line)]
    <2>1. PICK v : v = Seen!Use(list, line)
      OBVIOUS
    <2>2. b = [a EXCEPT ![s] = v]
      BY <1>4, <1>6, <1>9, <1>13, <2>1
    <2>3. QED
      BY <1>14, <2>1, <2>2, Zenon
  <1>16. (line \in Range(a[s])) <=> Has(k, line)
    <2>1. line \in Range(list) <=> \E i \in 1..Len(list) : list[i] = line
      BY <1>8 DEF Range
    <2>2. QED
      BY <1>8, <1>14, <2>1, Zenon
  <1>17. (IF IsLru THEN accessed ELSE Invalid)' = line
    BY <1>1
  <1>18. (IsLru /\ answer = 0)' <=> Has(k, line)
    BY <1>1
  <1> DEFINE request == IF IsLru THEN accessed ELSE Invalid
             wasHit == IsLru /\ answer = 0
  <1>19. /\ request' \in Nat
         /\ wasHit' = (request' \in Range(old[request' % Sets(Under)]))
         /\ old' = [old EXCEPT ![request' % Sets(Under)] = Seen!Use(@, request')]
         /\ Sets(Under)' = Sets(Under) /\ WaysOf(Under)' = WaysOf(Under)
    <2>1. request' = line /\ request' % Sets(Under) = s
      BY <1>3, <1>17
    <2>2. wasHit' <=> Has(k, line)
      BY <1>18
    <2> HIDE DEF request, wasHit
    <2>3. old' = [old EXCEPT ![request' % Sets(Under)] = Seen!Use(@, request')]
      BY <1>12, <1>15, <2>1, Zenon
    <2>4. (request' \in Range(old[request' % Sets(Under)])) <=> Has(k, line)
      BY <1>12, <1>16, <2>1, Zenon
    <2>5. wasHit' = (request' \in Range(old[request' % Sets(Under)]))
      <3>1. PICK v, R : v = request' /\ R = Range(old[request' % Sets(Under)])
        OBVIOUS
      <3>2. IsLru' /\ answer' = 0 <=> v \in R
        BY <2>2, <2>4, <3>1, Zenon DEF wasHit
      <3>3. (IsLru' /\ answer' = 0) = (v \in R)
        BY <3>2
      <3>4. QED
        BY <3>1, <3>3, Zenon DEF wasHit
    <2>6. QED
      BY <1>2, <2>1, <2>3, <2>5, Zenon
  <1>20. \A f : Seen!Range(f) = Range(f)
    BY DEF Seen!Range, Range
  <1>21. QED
    BY <1>6, <1>19, <1>20, Zenon DEF Seen!Access, old, request, wasHit

\* The invariant of the refinement: the level that the client sees is ordered, if it is LRU.
LruInv ==
    /\ MemoryInv /\ Plain(memory)
    /\ IsLru => LruLevel(caches[Under + 1], Sets(Under), WaysOf(Under))

\* The level under the client is one of the memory.
LEMMA UnderFacts ==
    ASSUME Built
    PROVE  /\ Under \in 0..(levels - 1) /\ Under \in {0, 1} /\ Dimensions(Under)
           /\ Under = 1 <=> memory.adapter = "armv8"
  <1>1. levels \in Nat \ {0} /\ \A l \in 0..(levels - 1) : Dimensions(l)
    BY Shape
  <1>2. memory.adapter # "none" => levels >= 2
    BY AdapterAssumption DEF Built, levels
  <1>3. Under = (IF memory.adapter = "armv8" THEN 1 ELSE 0)
    BY DEF Under
  <1>4. PICK u : u = Under
    OBVIOUS
  <1>5. u \in 0..(levels - 1) /\ u \in {0, 1} /\ (u = 1 <=> memory.adapter = "armv8")
    BY <1>1, <1>2, <1>3, <1>4
  <1>6. QED
    BY <1>1, <1>4, <1>5, Zenon

\* The sets of a cold LRU level are lists of no line.
LEMMA ColdLru ==
    ASSUME Built, NEW u \in 0..(levels - 1), memory.shape[u + 1].policy.kind = "LRU",
           NEW S, S = Sets(u), NEW n, n = WaysOf(u), NEW c, c = NewCache(u), NEW s \in 0..(S - 1)
    PROVE  OfLru(c, s, n, <<>>)
  <1>1. S \in Nat \ {0} /\ n \in Nat \ {0} /\ memory.shape[u + 1].policy \in Policies(n)
    BY Shape, Zenon DEF Dimensions
  <1>2. PICK p : p = memory.shape[u + 1].policy
    OBVIOUS
  <1>3. c = [data |-> [t \in 0..(S - 1) |-> [w \in 0..(n - 1) |-> Invalid]],
             replacement |-> [t \in 0..(S - 1) |-> p]]
    BY <1>2, Zenon DEF NewCache
  <1>4. p.kind = "LRU" /\ p.kind \in {"FIFO", "LRU"}
    BY <1>2
  <1>5. c.data[s] = [w \in 0..(n - 1) |-> Invalid] /\ c.replacement[s] = p
    BY <1>3
  <1>6. p.order \in Orders(n)
    BY <1>1, <1>2, <1>4, ListPolicies
  <1>7. ASSUME NEW k \in 1..n PROVE c.data[s][p.order[k]] = Invalid /\ ~(k <= Len(<<>>))
    <2>1. p.order[k] \in 0..(n - 1)
      BY <1>6 DEF Orders
    <2>2. QED
      BY <1>1, <1>5, <2>1
  <1>8. Stack(c.data[s], p.order, n, <<>>)
    BY <1>7, Zenon DEF Stack
  <1>9. <<>> \in Seq(Nat) /\ Len(<<>>) <= n
    BY <1>1
  <1>10. QED
    BY <1>4, <1>5, <1>8, <1>9, Zenon DEF OfLru, Listed

LEMMA LruInit == InitAdapter /\ Usual(memory) /\ Plain(memory) => LruInv /\ Seen!Init
  <1> SUFFICES ASSUME InitAdapter, Usual(memory), Plain(memory) PROVE LruInv /\ Seen!Init
    OBVIOUS
  <1>1. /\ memory \in Memories /\ caches = Cold /\ accessed = Invalid /\ answer = levels
        /\ MemoryInv /\ Built
    BY MemoryInit DEF InitAdapter, Init, Built
  <1>2. PICK u, S, n : u = Under /\ S = Sets(u) /\ n = WaysOf(u)
    OBVIOUS
  <1>3. u \in 0..(levels - 1) /\ Dimensions(u) /\ levels \in Nat \ {0}
    BY <1>1, <1>2, UnderFacts, Shape
  <1>4. S \in Nat \ {0} /\ n \in Nat \ {0}
    BY <1>2, <1>3, Zenon DEF Dimensions
  <1>5. PICK c : c = caches[u + 1]
    OBVIOUS
  <1>6. c = NewCache(u)
    <2>1. u + 1 \in 1..levels /\ (u + 1) - 1 = u
      BY <1>3
    <2>2. QED
      BY <1>1, <1>5, <2>1 DEF Cold
  <1>7. Placed(c, S, n)
    <2>1. Hierarchy(caches)
      BY <1>1 DEF MemoryInv
    <2>2. QED
      BY <1>2, <1>3, <1>5, <2>1, Zenon DEF Hierarchy
  <1>8. ASSUME IsLru, NEW s \in 0..(S - 1) PROVE OfLru(c, s, n, <<>>)
    <2>1. memory.shape[u + 1].policy.kind = "LRU"
      BY <1>2, <1>8, Zenon DEF IsLru
    <2>2. QED
      BY <1>1, <1>2, <1>3, <1>6, <1>8, <2>1, ColdLru
  <1>9. IsLru => LruLevel(c, S, n)
    <2>1. <<>> \in Seq(Nat)
      OBVIOUS
    <2>2. QED
      BY <1>8, <2>1, Zenon DEF LruLevel
  <1>10. LruInv
    BY <1>1, <1>2, <1>5, <1>9, Zenon DEF LruInv
  <1> DEFINE recency == [s \in 0..(Sets(Under) - 1) |->
                            IF IsLru THEN Recency(caches[Under + 1], s) ELSE <<>>]
  <1>11. ASSUME NEW s \in 0..(S - 1), IsLru PROVE Recency(c, s) = <<>>
    <2>1. OfLru(c, s, n, <<>>)
      BY <1>8, <1>11
    <2>2. QED
      BY <1>4, <1>7, <2>1, RecencyIs
  <1>12. recency = [s \in 0..(Sets(Under) - 1) |-> <<>>]
    <2>1. recency = [s \in 0..(S - 1) |-> IF IsLru THEN Recency(c, s) ELSE <<>>]
      BY <1>2, <1>5, Zenon
    <2> HIDE DEF recency
    <2>2. recency = [s \in 0..(S - 1) |-> <<>>]
      BY <1>11, <2>1
    <2>3. QED
      BY <1>2, <2>2, Zenon
  <1>13. (IF IsLru THEN accessed ELSE Invalid) = -1
    BY <1>1 DEF Invalid
  <1>14. (IsLru /\ answer = 0) = FALSE
    BY <1>1, <1>3
  <1>15. Sets(Under) \in Nat \ {0} /\ WaysOf(Under) \in Nat \ {0}
    BY <1>2, <1>4, Zenon
  <1>16. QED
    BY <1>10, <1>12, <1>13, <1>14, <1>15, Zenon DEF Seen!Init, recency

\* LruCache sees nothing of a step that changes neither the level nor the answer, nor of a memory
\* whose level under the client is not LRU.
LEMMA SeenStutter ==
    ASSUME memory' = memory, IsLru => UNCHANGED <<caches, accessed, answer>>
    PROVE  UNCHANGED Seen!vars
  <1>1. /\ Under' = Under /\ Sets(Under)' = Sets(Under) /\ WaysOf(Under)' = WaysOf(Under)
        /\ IsLru' = IsLru
    BY DEF Under, Sets, WaysOf, IsLru, levels, get_inclusiveness
  <1>2. CASE IsLru
    <2>1. caches' = caches /\ accessed' = accessed /\ answer' = answer
      BY <1>2
    <2>2. QED
      BY <1>1, <2>1, Zenon DEF Seen!vars
  <1>3. CASE ~IsLru
    BY <1>1, <1>3 DEF Seen!vars
  <1>4. QED
    BY <1>2, <1>3

\* What an access does to the level, where it is: Touched, with the level that the client sees.
LEMMA TouchedUnder ==
    ASSUME Built, Plain(memory), NEW c, Hierarchy(c), NEW line \in Nat,
           Under = 1 => Bare(c, line)
    PROVE  LET level == Level(c, line)
               d == do_access(c, line)
           IN  /\ level \in Under..levels /\ (level = Under <=> Has(c[Under + 1], line))
               /\ After(c[Under + 1], d[Under + 1], line)
  <1>1. PICK u, level, d : u = Under /\ level = Level(c, line) /\ d = do_access(c, line)
    OBVIOUS
  <1>2. Under \in 0..(levels - 1) /\ Under \in {0, 1}
    BY UnderFacts
  <1>3. levels \in Nat
    BY Shape
  <1>4. u \in {0, 1} /\ u <= levels - 1 /\ (u = 1 => Bare(c, line))
    BY <1>1, <1>2, <1>3
  <1>5. LET l == Level(c, line)
            e == do_access(c, line)
        IN  /\ l \in u..levels /\ (l = u <=> Has(c[u + 1], line))
            /\ l = u => e[u + 1] = hit(c[u + 1], line)
            /\ l # u => e[u + 1] = fill_cache(c[u + 1], line).cache
    BY <1>4, Touched
  <1>6. /\ level \in u..levels /\ (level = u <=> Has(c[u + 1], line))
        /\ After(c[u + 1], d[u + 1], line)
    BY <1>1, <1>5, Zenon DEF After
  <1>7. QED
    BY <1>1, <1>6, Zenon

LEMMA LruNext == LruInv /\ [NextAdapter]_vars => LruInv' /\ [Seen!Access]_(Seen!vars)
  <1> SUFFICES ASSUME LruInv, [NextAdapter]_vars PROVE LruInv' /\ [Seen!Access]_(Seen!vars)
    OBVIOUS
  <1>1. /\ MemoryInv /\ Plain(memory)
        /\ IsLru => LruLevel(caches[Under + 1], Sets(Under), WaysOf(Under))
    BY DEF LruInv
  <1>2. MemoryInv' /\ memory' = memory
    BY <1>1, MemoryNext, AdapterKept
  <1>3. /\ Built /\ Hierarchy(caches) /\ Offered \subseteq Nat
        /\ pc = "retry" => memory.adapter = "bypass"
    BY <1>1 DEF MemoryInv
  <1>4. /\ Under' = Under /\ Sets(Under)' = Sets(Under) /\ WaysOf(Under)' = WaysOf(Under)
        /\ IsLru' = IsLru /\ Plain(memory)'
    BY <1>1, <1>2 DEF Under, Sets, WaysOf, IsLru, levels, get_inclusiveness, Plain
  <1>5. /\ Under \in 0..(levels - 1) /\ Under \in {0, 1} /\ Dimensions(Under)
        /\ Under = 1 <=> memory.adapter = "armv8"
    BY <1>3, UnderFacts
  <1>6. PICK u, S, n : u = Under /\ S = Sets(u) /\ n = WaysOf(u)
    OBVIOUS
  <1>7. /\ S \in Nat \ {0} /\ n \in Nat \ {0}
        /\ u \in 0..(levels - 1) /\ levels \in Nat \ {0}
    BY <1>3, <1>5, <1>6, Shape, Zenon DEF Dimensions
  <1>8. PICK k, r : k = caches[u + 1] /\ r = caches'[u + 1]
    OBVIOUS
  <1>9. Placed(k, S, n)
    BY <1>3, <1>6, <1>7, <1>8, Zenon DEF Hierarchy
  <1>10. Placed(r, S, n)
    <2>1. Hierarchy(caches)'
      BY <1>2 DEF MemoryInv
    <2>2. /\ levels' = levels
          /\ \A l : Sets(l)' = Sets(l) /\ WaysOf(l)' = WaysOf(l)
      BY <1>2, ShapeKept
    <2>3. \A l \in 0..(levels - 1) : Placed(caches'[l + 1], Sets(l), WaysOf(l))
      BY <2>1, <2>2, Zenon DEF Hierarchy
    <2>4. QED
      BY <1>6, <1>7, <1>8, <2>3, Zenon
  <1>11. ASSUME IsLru => LruLevel(r, S, n) PROVE LruInv'
    <2>1. (IsLru => LruLevel(caches[Under + 1], Sets(Under), WaysOf(Under)))'
      BY <1>4, <1>6, <1>8, <1>11, Zenon
    <2>2. QED
      BY <1>2, <1>4, <2>1, Zenon DEF LruInv
  <1>12. ASSUME IsLru => UNCHANGED <<caches, accessed, answer>>
         PROVE  LruInv' /\ [Seen!Access]_(Seen!vars)
    <2>1. UNCHANGED Seen!vars
      BY <1>2, <1>12, SeenStutter
    <2>2. IsLru => r = k
      BY <1>8, <1>12
    <2>3. IsLru => LruLevel(r, S, n)
      BY <1>1, <1>6, <1>8, <2>2, Zenon
    <2>4. QED
      BY <1>11, <2>1, <2>3, Zenon
  <1>13. CASE ~IsLru
    BY <1>12, <1>13
  <1>14. ASSUME IsLru, NEW line \in Nat, accessed' = line, After(k, r, line),
                answer' = 0 <=> Has(k, line)
         PROVE  LruInv' /\ [Seen!Access]_(Seen!vars)
    <2>1. LruLevel(k, S, n) /\ S = Sets(Under) /\ n = WaysOf(Under)
      BY <1>1, <1>6, <1>8, <1>14, Zenon
    <2>2. k = caches[Under + 1] /\ r = caches'[Under + 1]
      BY <1>6, <1>8, Zenon
    <2>3. Seen!Access /\ LruLevel(r, S, n)
      BY <1>2, <1>7, <1>9, <1>10, <1>14, <2>1, <2>2, SeenAccess
    <2>4. QED
      BY <1>11, <2>3, Zenon
  <1>15. ASSUME IsLru, NEW line \in Offered, PlainAccess(line)
         PROVE  LruInv' /\ [Seen!Access]_(Seen!vars)
    <2>1. line \in Nat /\ u = 0
      BY <1>3, <1>5, <1>6, <1>15 DEF PlainAccess
    <2>2. PICK level, d : level = Level(caches, line) /\ d = do_access(caches, line)
      OBVIOUS
    <2>3. caches' = d /\ answer' = level /\ accessed' = line
      BY <1>15, <2>2 DEF PlainAccess, Access
    <2>4. /\ level = u <=> Has(k, line)
          /\ After(k, d[u + 1], line)
      <3>1. Under = 1 => Bare(caches, line)
        <4>1. u # 1
          BY <2>1
        <4>2. QED
          BY <1>6, <4>1, Zenon
      <3>2. LET l == Level(caches, line)
                e == do_access(caches, line)
            IN  /\ l \in Under..levels /\ (l = Under <=> Has(caches[Under + 1], line))
                /\ After(caches[Under + 1], e[Under + 1], line)
        BY <1>1, <1>3, <2>1, <3>1, TouchedUnder
      <3>3. QED
        BY <1>6, <1>8, <2>2, <3>2, Zenon
    <2>5. (answer' = 0 <=> Has(k, line)) /\ After(k, r, line)
      BY <1>8, <2>1, <2>3, <2>4, Zenon
    <2>6. QED
      BY <1>14, <1>15, <2>1, <2>3, <2>5
  <1>16. ASSUME IsLru, NEW line \in Offered, ArmAccess(line)
         PROVE  LruInv' /\ [Seen!Access]_(Seen!vars)
    <2>1. line \in Nat /\ u = 1 /\ memory.adapter = "armv8"
      BY <1>3, <1>5, <1>6, <1>16 DEF ArmAccess
    <2>2. PICK s : s = line % Sets(0)
      OBVIOUS
    <2>3. s \in 0..(Sets(0) - 1)
      <3>1. 0 \in 0..(levels - 1)
        BY <1>7
      <3>2. Dimensions(0)
        BY <1>3, <3>1, Shape
      <3>3. QED
        BY <2>1, <2>2, <3>2 DEF Dimensions
    <2>4. PICK c, level, d : /\ c = invalidate_set(caches, s) /\ level = Level(c, line)
                             /\ d = do_access(c, line)
      OBVIOUS
    <2>5. caches' = invalidate_set(d, s) /\ answer' = level - 1 /\ accessed' = line
      BY <1>16, <2>2, <2>4 DEF ArmAccess
    <2>6. u \in 1..(levels - 1)
      BY <1>7, <2>1
    <2>7. /\ Hierarchy(c) /\ c[u + 1] = k
          /\ \A w \in 0..(WaysOf(0) - 1) : c[1].data[s][w] = Invalid
      <3>1. /\ Hierarchy(invalidate_set(caches, s))
            /\ \A w \in 0..(WaysOf(0) - 1) : invalidate_set(caches, s)[1].data[s][w] = Invalid
            /\ \A l \in 1..(levels - 1) : invalidate_set(caches, s)[l + 1] = caches[l + 1]
        BY <1>3, <2>3, SetInvalidated
      <3>2. QED
        BY <1>8, <2>4, <2>6, <3>1, Zenon
    <2>8. Hierarchy(d)
      BY <1>3, <2>1, <2>4, <2>7, AccessKeeps
    <2>9. r = d[u + 1]
      <3>1. \A l \in 1..(levels - 1) : invalidate_set(d, s)[l + 1] = d[l + 1]
        BY <1>3, <2>3, <2>8, SetInvalidated
      <3>2. QED
        BY <1>8, <2>5, <2>6, <3>1, Zenon
    <2>10. /\ level \in u..levels /\ (level = u <=> Has(k, line))
           /\ After(k, d[u + 1], line)
      <3>1. Bare(c, line)
        BY <2>2, <2>7, Zenon DEF Bare
      <3>2. LET l == Level(c, line)
                e == do_access(c, line)
            IN  /\ l \in Under..levels /\ (l = Under <=> Has(c[Under + 1], line))
                /\ After(c[Under + 1], e[Under + 1], line)
        BY <1>1, <1>3, <2>1, <2>7, <3>1, TouchedUnder
      <3>3. QED
        BY <1>6, <2>4, <2>7, <3>2, Zenon
    <2>11. answer' = 0 <=> Has(k, line)
      <3>1. level \in 1..levels /\ (level = 1 <=> Has(k, line))
        BY <2>1, <2>10
      <3>2. level - 1 = 0 <=> level = 1
        BY <1>7, <3>1
      <3>3. QED
        BY <2>5, <3>1, <3>2, Zenon
    <2>12. After(k, r, line)
      BY <2>9, <2>10, Zenon
    <2>13. QED
      BY <1>14, <1>16, <2>1, <2>5, <2>11, <2>12
  <1>17. IsLru => memory.adapter # "bypass"
    BY DEF IsLru
  <1>18. ASSUME IsLru, NEW line \in Offered, BypassAccess(line) PROVE FALSE
    BY <1>17, <1>18 DEF BypassAccess
  <1>19. ASSUME IsLru PROVE ~AccessEvictionSet /\ ~AccessAgain
    BY <1>3, <1>17, <1>19 DEF AccessEvictionSet, AccessAgain
  <1>20. CASE UNCHANGED vars
    <2>1. UNCHANGED <<caches, accessed, answer>>
      BY <1>20 DEF vars, memory_vars, adapter
    <2>2. QED
      BY <1>12, <2>1
  <1>21. QED
    BY <1>13, <1>15, <1>16, <1>18, <1>19, <1>20, Zenon DEF NextAdapter

\* An LRU level that no inclusive level disturbs implements LruCache for whoever accesses the
\* memory, alone, over other levels, or behind armv8_bypass_adapter: it serves a line exactly when
\* the line is among the last ones used in its set, as many as the set has ways.
THEOREM LevelsImplementLru == Spec /\ Usual(memory) /\ Plain(memory) => ImplementsLru
  <1>1. InitAdapter /\ Usual(memory) /\ Plain(memory) => LruInv /\ Seen!Init
    BY LruInit
  <1>2. LruInv /\ [NextAdapter]_vars => LruInv' /\ [Seen!Access]_(Seen!vars)
    BY LruNext
  <1>3. QED
    BY <1>1, <1>2, PTL DEF Spec, ImplementsLru, Seen!Spec

-----------------------------------------------------------------------------
(* bypass_adapter over LRU levels.                                         *)

\* Level 1 under an access that level 0 does not serve: it is hit or filled with the line, and
\* then perhaps filled with what level 0 gave up for it.
LEMMA TouchedNext ==
    ASSUME Built, Plain(memory), levels >= 2, NEW c, Hierarchy(c), NEW line \in Nat,
           Level(c, line) # 0
    PROVE  \E e : /\ Placed(e, Sets(1), WaysOf(1)) /\ After(c[2], e, line)
                  /\ \/ do_access(c, line)[2] = e
                     \/ \E y \in Nat : do_access(c, line)[2] = fill_cache(e, y).cache
  <1>1. PICK G : AccessRun(G, c, line)
    BY AccessRuns
  <1>2. PICK level : level = Level(c, line)
    OBVIOUS
  <1>3. levels \in Nat \ {0, 1} /\ level \in 1..levels
    <2>1. level \in 0..levels
      BY <1>2, FoundFacts
    <2>2. levels \in Nat \ {0}
      BY Shape
    <2>3. QED
      BY <1>2, <2>1, <2>2
  <1>4. /\ G[0] = Found(c, line) /\ do_access(c, line) = G[level]
        /\ \A i \in 0..level : Hierarchy(G[i])
        /\ \A i \in 0..(level - 1) : BackStep(G[i], G[i + 1], line, level - 1 - i)
    BY <1>1, <1>2, Zenon DEF AccessRun
  <1>5. /\ level < levels => Holds(c, level, line)
        /\ \A k \in 0..(level - 1) : ~Holds(c, k, line)
    BY <1>2, FoundFacts
  <1>6. \A k \in 0..(levels - 1) : k # level => G[0][k + 1] = c[k + 1]
    BY <1>2, <1>4, FoundFacts
  <1>7. PICK u : u = 1
    OBVIOUS
  <1>8. u \in 0..(levels - 1) /\ u \in Nat /\ u + 1 = 2 /\ u \in {0, 1} /\ u <= levels - 1
    BY <1>3, <1>7
  <1>9. Has(c[u + 1], line) <=> Holds(c, u, line)
    <2>1. PICK k, S, n : k = c[u + 1] /\ S = Sets(u) /\ n = WaysOf(u)
      OBVIOUS
    <2>2. S \in Nat \ {0} /\ n \in Nat \ {0} /\ Placed(k, S, n)
      BY <1>8, <2>1, Shape, Zenon DEF Dimensions, Hierarchy
    <2>3. k \in CachesOf(S, n)
      BY <2>2, Zenon DEF Placed
    <2>4. Has(k, line) <=> In(k, S, n, line)
      BY <2>2, <2>3, LookupFacts
    <2>5. QED
      BY <2>1, <2>4, Zenon DEF Holds
  <1>10. level = u <=> Has(c[u + 1], line)
    <2>1. ASSUME level # u PROVE u \in 0..(level - 1)
      BY <1>3, <1>7, <2>1
    <2>2. u < levels
      BY <1>3, <1>7
    <2>3. QED
      BY <1>5, <1>9, <2>1, <2>2, Zenon
  <1> DEFINE E == IF level = u THEN hit(c[u + 1], line) ELSE fill_cache(c[u + 1], line).cache
             last == level - 1
             T == {i \in 0..last : \A j \in 0..level : j = level - i => Reached(G[i], c, j, u, E)}
  <1>11. level = u => G[0][u + 1] = hit(c[u + 1], line)
    <2>1. ASSUME level = u
          PROVE  level < levels /\ get_inclusiveness(level) # "exclusive"
      <3>1. get_inclusiveness(u) = "non_inclusive"
        BY <1>8, PlainLevels
      <3>2. QED
        BY <1>3, <1>8, <2>1, <3>1
    <2>2. (level < levels /\ (level = 0 \/ get_inclusiveness(level) # "exclusive"))
             => G[0][level + 1] = hit(c[level + 1], line)
      <3>1. LET k == Level(c, line)
                d == Found(c, line)
            IN  /\ k \in 0..levels /\ (k < levels => Holds(c, k, line))
                /\ \A m \in 0..(k - 1) : ~Holds(c, m, line)
                /\ Hierarchy(d)
                /\ \A m \in 0..(levels - 1) : m # k => d[m + 1] = c[m + 1]
                /\ (k < levels /\ (k = 0 \/ get_inclusiveness(k) # "exclusive"))
                      => /\ d[k + 1] = hit(c[k + 1], line)
                         /\ \A y : Holds(d, k, y) <=> Holds(c, k, y)
        BY FoundFacts
      <3>2. QED
        BY <1>2, <1>4, <3>1, Zenon
    <2>3. QED
      BY <2>1, <2>2
  <1> HIDE DEF E, last
  <1>12. last \in 0..(levels - 1) /\ last \in 0..(level - 1) /\ last + 1 = level /\ last \in 0..last
    BY <1>3 DEF last
  <1>13. 0 \in T
    <2>1. ASSUME NEW m \in 0..(level - 1) PROVE G[0][m + 1] = c[m + 1]
      <3>1. m \in 0..(levels - 1) /\ m # level
        BY <1>3
      <3>2. QED
        BY <1>6, <3>1
    <2>2. ASSUME level <= u PROVE G[0][u + 1] = E
      <3>1. level = u
        BY <1>3, <1>7, <2>2
      <3>2. QED
        BY <1>11, <3>1, Zenon DEF E
    <2>3. Reached(G[0], c, level, u, E)
      BY <2>1, <2>2, Zenon DEF Reached
    <2>4. level - 0 = level /\ 0 \in 0..last
      BY <1>3, <1>12
    <2>5. QED
      BY <2>3, <2>4
  <1>14. ASSUME NEW i \in 0..(last - 1), i \in T PROVE i + 1 \in T
    <2>1. PICK l : l = level - 1 - i
      OBVIOUS
    <2>2. /\ i \in 0..level /\ i + 1 \in 0..last /\ i \in 0..(level - 1) /\ l \in 1..(level - 1)
          /\ l + 1 \in 0..level /\ l + 1 = level - i /\ l = level - (i + 1)
          /\ l \in 0..(levels - 1) /\ l # level /\ l # 0
      BY <1>3, <1>12, <2>1
    <2>3. Reached(G[i], c, l + 1, u, E)
      BY <1>14, <2>2
    <2>4. BackStep(G[i], G[i + 1], line, l) /\ Hierarchy(G[i])
      BY <1>4, <2>1, <2>2, Zenon
    <2>5. l = u => E = fill_cache(c[u + 1], line).cache
      BY <2>2, Zenon DEF E
    <2>6. Reached(G[i + 1], c, l, u, E)
      BY <1>8, <2>2, <2>3, <2>4, <2>5, ReachedStep
    <2>7. QED
      BY <2>2, <2>6
  <1> HIDE DEF T
  <1>15. last \in T
    <2>1. last \in Nat
      BY <1>12
    <2>2. \A i \in 0..last : i \in T
      BY <1>13, <1>14, <2>1, InductTo
    <2>3. QED
      BY <1>12, <2>2
  <1>16. PICK g : g = G[last]
    OBVIOUS
  <1>17. g[2] = E
    <2>1. 1 \in 0..level /\ 1 = level - last /\ 1 <= u
      BY <1>3, <1>7, <1>12
    <2>2. Reached(G[last], c, 1, u, E)
      BY <1>15, <2>1 DEF T
    <2>3. QED
      BY <1>8, <1>16, <2>1, <2>2, Zenon DEF Reached
  <1>18. Placed(E, Sets(1), WaysOf(1))
    <2>1. Hierarchy(g)
      <3>1. last \in 0..level
        BY <1>3, <1>12
      <3>2. QED
        BY <1>4, <1>16, <3>1, Zenon
    <2>2. Placed(g[1 + 1], Sets(1), WaysOf(1))
      BY <1>7, <1>8, <2>1, Zenon DEF Hierarchy
    <2>3. QED
      BY <1>7, <1>8, <1>17, <2>2, Zenon
  <1>19. After(c[2], E, line)
    BY <1>8, <1>10, Zenon DEF After, E
  <1>20. \/ do_access(c, line)[2] = E
         \/ \E y \in Nat : do_access(c, line)[2] = fill_cache(E, y).cache
    <2>1. PICK d : d = G[level]
      OBVIOUS
    <2>2. level - 1 - last = 0
      BY <1>3, <1>12
    <2>3. BackStep(g, d, line, 0)
      BY <1>4, <1>12, <1>16, <2>1, <2>2, Zenon
    <2>4. get_inclusiveness(0) = "non_inclusive"
      <3>1. 0 \in 0..(levels - 1)
        BY <1>3
      <3>2. QED
        BY <3>1, PlainLevels
    <2>5. PICK v : Cascade(g, d, v, line, 0)
      BY <2>3, <2>4 DEF BackStep
    <2>6. 1 \in 0..(levels - 1) /\ 1 \in 0..levels /\ 1 + 1 = 2
      BY <1>3
    <2>7. v[1] \in Nat \cup {Invalid} /\ Taken(g, d, 1, v[1], v[1 + 1])
      BY <2>5, <2>6 DEF Cascade
    <2>8. CASE v[1] = Invalid
      <3>1. d[1 + 1] = g[1 + 1]
        BY <2>7, <2>8, Zenon DEF Taken
      <3>2. QED
        BY <1>4, <1>17, <2>1, <2>6, <3>1, Zenon
    <2>9. CASE v[1] # Invalid
      <3>1. d[1 + 1] = fill_cache(g[1 + 1], v[1]).cache
        BY <2>7, <2>9, Zenon DEF Taken
      <3>2. v[1] \in Nat
        BY <2>7, <2>9
      <3>3. QED
        BY <1>4, <1>17, <2>1, <2>6, <3>1, <3>2, Zenon
    <2>10. QED
      BY <2>8, <2>9
  <1>21. QED
    BY <1>18, <1>19, <1>20, Zenon

\* A line is one of the two that were used last in its set.
Late(c, S, x) == \E i \in {1, 2} : i <= Len(Recency(c, x % S)) /\ Recency(c, x % S)[i] = x

\* So is a line that was accessed, whatever the level then takes from the level below.
LEMMA LateAccess ==
    ASSUME NEW S \in Nat \ {0}, NEW n \in Nat \ {0}, n >= 2, NEW k, Placed(k, S, n),
           LruLevel(k, S, n), NEW line \in Nat, NEW e, Placed(e, S, n), After(k, e, line),
           NEW r, Placed(r, S, n), r = e \/ \E y \in Nat : r = fill_cache(e, y).cache
    PROVE  LruLevel(r, S, n) /\ Late(r, S, line)
  <1>1. PICK s : s = line % S
    OBVIOUS
  <1>2. s \in 0..(S - 1)
    BY <1>1
  <1>3. UsedAt(k, e, line, s, S, n)
    BY <1>1, LruUse
  <1>4. PICK list, m : list = Recency(k, s) /\ m = Recency(e, s)
    OBVIOUS
  <1>5. LruLevel(e, S, n) /\ list \in Seq(Nat)
    BY <1>3, <1>4, Zenon DEF UsedAt
  <1>6. PICK place \in 1..n : Vacated(list, line, n, place) /\ m = Moved(list, line, place)
    BY <1>3, <1>4, Zenon DEF UsedAt
  <1>7. Len(list) \in Nat /\ Len(list) <= n
    <2>1. Len(list) <= n
      BY <1>3, <1>4, Zenon DEF UsedAt
    <2>2. QED
      BY <1>5, <2>1
  <1>8. place \in 1..(Len(list) + 1)
    <2>1. CASE place \in 1..Len(list)
      BY <1>7, <2>1
    <2>2. CASE place \notin 1..Len(list)
      <3>1. place = IF Len(list) < n THEN Len(list) + 1 ELSE n
        BY <1>6, <2>2, Zenon DEF Vacated
      <3>2. PICK L : L = Len(list)
        OBVIOUS
      <3>3. L \in Nat /\ L <= n /\ place = IF L < n THEN L + 1 ELSE n
        BY <1>7, <3>1, <3>2, Zenon
      <3>4. place \in 1..(L + 1)
        BY <3>3
      <3>5. QED
        BY <3>2, <3>4
    <2>3. QED
      BY <2>1, <2>2
  <1>9. m \in Seq(Nat) /\ Len(m) >= 1 /\ m[1] = line
    <2>1. /\ m \in Seq(Nat) /\ Len(m) = (IF place > Len(list) THEN place ELSE Len(list))
          /\ \A i \in 1..Len(m) :
                m[i] = IF i = 1 THEN line ELSE IF i <= place THEN list[i - 1] ELSE list[i]
      <3>1. IsMoved(Moved(list, line, place), list, line, place)
        BY <1>5, <1>8, MovedFacts
      <3>2. QED
        BY <1>6, <3>1, Zenon DEF IsMoved
    <2>2. Len(m) >= 1
      <3>1. PICK L, M : L = Len(list) /\ M = Len(m)
        OBVIOUS
      <3>2. M = IF place > L THEN place ELSE L
        BY <2>1, <3>1, Zenon
      <3>3. M >= 1
        BY <1>6, <1>7, <3>1, <3>2
      <3>4. QED
        BY <3>1, <3>3
    <2>3. QED
      BY <2>1, <2>2
  <1>10. CASE Recency(r, s) = m /\ LruLevel(r, S, n)
    <2>1. 1 <= Len(Recency(r, s)) /\ Recency(r, s)[1] = line
      BY <1>9, <1>10
    <2>2. QED
      BY <1>1, <1>10, <2>1, Zenon DEF Late
  <1>11. CASE r = e
    BY <1>4, <1>5, <1>10, <1>11
  <1>12. ASSUME NEW y \in Nat, r = fill_cache(e, y).cache PROVE LruLevel(r, S, n) /\ Late(r, S, line)
    <2>1. CASE Has(e, y)
      <3>1. fill_cache(e, y) = [cache |-> e, victim |-> Invalid]
        BY <2>1, Zenon DEF fill_cache
      <3>2. r = e
        BY <1>12, <3>1
      <3>3. QED
        BY <1>11, <3>2
    <2>2. CASE ~Has(e, y)
      <3>1. After(e, r, y)
        BY <1>12, <2>2, Zenon DEF After
      <3>2. PICK z : z = y % S
        OBVIOUS
      <3>3. UsedAt(e, r, y, z, S, n)
        BY <1>5, <3>1, <3>2, LruUse
      <3>4. LruLevel(r, S, n)
        BY <3>3, Zenon DEF UsedAt
      <3>5. CASE z # s
        <4>1. Recency(r, s) = m
          BY <1>2, <1>4, <3>3, <3>5, Zenon DEF UsedAt
        <4>2. QED
          BY <1>10, <3>4, <4>1
      <3>6. CASE z = s
        <4>1. PICK p \in 1..n : Vacated(m, y, n, p) /\ Recency(r, s) = Moved(m, y, p)
          BY <1>4, <3>3, <3>6, Zenon DEF UsedAt
        <4>2. ~\E i \in 1..Len(m) : m[i] = y
          BY <1>4, <2>2, <3>3, <3>6, Zenon DEF UsedAt
        <4>3. p = IF Len(m) < n THEN Len(m) + 1 ELSE n
          BY <4>1, <4>2, Zenon DEF Vacated
        <4>4. Len(m) <= n
          BY <1>4, <3>3, <3>6, Zenon DEF UsedAt
        <4>5. PICK L : L = Len(m)
          OBVIOUS
        <4>6. L \in Nat /\ L >= 1 /\ L <= n /\ p = IF L < n THEN L + 1 ELSE n
          BY <1>9, <4>3, <4>4, <4>5
        <4>7. p \in 1..(L + 1) /\ p >= 2
          BY <4>6
        <4>8. PICK q : q = Recency(r, s)
          OBVIOUS
        <4>9. /\ q \in Seq(Nat) /\ Len(q) = (IF p > Len(m) THEN p ELSE Len(m))
              /\ \A i \in 1..Len(q) :
                    q[i] = IF i = 1 THEN y ELSE IF i <= p THEN m[i - 1] ELSE m[i]
          <5>1. p \in 1..(Len(m) + 1)
            BY <4>5, <4>7, Zenon
          <5>2. IsMoved(Moved(m, y, p), m, y, p)
            BY <1>9, <5>1, MovedFacts
          <5>3. q = Moved(m, y, p)
            BY <4>1, <4>8, Zenon
          <5>4. QED
            BY <5>2, <5>3, Zenon DEF IsMoved
        <4>10. Len(q) >= 2
          <5>1. Len(q) = IF p > L THEN p ELSE L
            BY <4>5, <4>9, Zenon
          <5>2. QED
            BY <4>6, <4>7, <5>1
        <4>11. 2 \in 1..Len(q)
          BY <4>9, <4>10
        <4>12. q[2] = line
          <5>1. q[2] = IF 2 = 1 THEN y ELSE IF 2 <= p THEN m[2 - 1] ELSE m[2]
            BY <4>9, <4>11
          <5>2. QED
            BY <1>9, <4>7, <5>1
        <4>13. 2 <= Len(Recency(r, s)) /\ Recency(r, s)[2] = line
          BY <4>8, <4>10, <4>12
        <4>14. QED
          BY <1>1, <3>4, <4>13, Zenon DEF Late
      <3>7. QED
        BY <3>5, <3>6
    <2>3. QED
      BY <2>1, <2>2
  <1>13. QED
    BY <1>11, <1>12

\* The list begins with the first j elements of t, the last one first.
Driven(list, t, j) == j <= Len(list) /\ \A i \in 1..j : list[i] = t[j + 1 - i]

\* The next element of t is used.
LEMMA PassStep ==
    ASSUME NEW list \in Seq(Nat), NEW n \in Nat \ {0}, Len(list) <= n, NEW t \in Seq(Nat),
           Distinct(t), Len(t) = n, NEW j \in 0..(n - 1), Driven(list, t, j),
           NEW h, h = t[j + 1], NEW place \in 1..n, Vacated(list, h, n, place)
    PROVE  Driven(Moved(list, h, place), t, j + 1)
  <1>1. PICK L : L = Len(list)
    OBVIOUS
  <1>2. L \in Nat /\ L <= n /\ j <= L /\ \A i \in 1..j : list[i] = t[j + 1 - i]
    BY <1>1 DEF Driven
  <1>3. h \in Nat /\ j + 1 \in 1..Len(t)
    OBVIOUS
  <1>4. place \in 1..(L + 1) /\ place >= j + 1
    <2>1. CASE place \in 1..L /\ list[place] = h
      <3>1. ASSUME place <= j PROVE FALSE
        <4>1. place \in 1..j /\ j + 1 - place \in 1..Len(t) /\ j + 1 - place # j + 1
          BY <2>1, <3>1
        <4>2. t[j + 1 - place] = t[j + 1]
          BY <1>2, <2>1, <4>1
        <4>3. QED
          BY <1>3, <4>1, <4>2, Zenon DEF Distinct
      <3>2. QED
        BY <1>2, <2>1, <3>1
    <2>2. CASE ~(place \in 1..L /\ list[place] = h)
      <3>1. place = IF L < n THEN L + 1 ELSE n
        BY <1>1, <2>2, Zenon DEF Vacated
      <3>2. QED
        BY <1>2, <3>1
    <2>3. QED
      BY <2>1, <2>2
  <1>5. PICK m : m = Moved(list, h, place)
    OBVIOUS
  <1>6. /\ m \in Seq(Nat) /\ Len(m) = (IF place > Len(list) THEN place ELSE Len(list))
        /\ \A i \in 1..Len(m) :
              m[i] = IF i = 1 THEN h ELSE IF i <= place THEN list[i - 1] ELSE list[i]
    <2>1. place \in 1..(Len(list) + 1)
      BY <1>1, <1>4, Zenon
    <2>2. IsMoved(Moved(list, h, place), list, h, place)
      BY <1>3, <2>1, MovedFacts
    <2>3. QED
      BY <1>5, <2>2, Zenon DEF IsMoved
  <1>7. Len(m) \in Nat /\ j + 1 <= Len(m)
    <2>1. Len(m) = IF place > L THEN place ELSE L
      BY <1>1, <1>6, Zenon
    <2>2. QED
      BY <1>2, <1>4, <2>1
  <1>8. ASSUME NEW i \in 1..(j + 1) PROVE m[i] = t[(j + 1) + 1 - i]
    <2>1. i \in 1..Len(m) /\ i <= place
      BY <1>4, <1>7
    <2>2. m[i] = IF i = 1 THEN h ELSE IF i <= place THEN list[i - 1] ELSE list[i]
      BY <1>6, <2>1
    <2>3. CASE i = 1
      <3>1. (j + 1) + 1 - i = j + 1 /\ m[i] = h
        BY <2>2, <2>3
      <3>2. QED
        BY <3>1
    <2>4. CASE i # 1
      <3>1. m[i] = list[i - 1]
        BY <2>1, <2>2, <2>4
      <3>2. i - 1 \in 1..j /\ j + 1 - (i - 1) = (j + 1) + 1 - i
        BY <2>4
      <3>3. list[i - 1] = t[j + 1 - (i - 1)]
        BY <1>2, <3>2
      <3>4. QED
        BY <3>1, <3>2, <3>3
    <2>5. QED
      BY <2>3, <2>4
  <1>9. QED
    BY <1>5, <1>7, <1>8, Zenon DEF Driven

\* Levels 0 and 1 are LRU, and level 1 has room for a line beside the one that level 0 gave up.
LruPair(m) == /\ Len(m.shape) >= 2
              /\ m.shape[1].policy.kind = "LRU" /\ m.shape[2].policy.kind = "LRU"
              /\ Ways(m.shape[2].policy) >= 2

\* Both levels are ordered.
Ordered(c) == LruLevel(c[1], Sets(0), WaysOf(0)) /\ LruLevel(c[2], Sets(1), WaysOf(1))

\* What an access does to the two levels: the line is used in level 0; if level 0 did not
\* serve it, level 1 saw it too.
PairTouched(c, d, line, level) ==
    /\ UsedAt(c[1], d[1], line, line % Sets(0), Sets(0), WaysOf(0)) /\ Ordered(d)
    /\ level = 0 <=> Has(c[1], line)
    /\ level # 0 => Late(d[2], Sets(1), line)

\* The numbers of the two levels.
LEMMA PairFacts ==
    ASSUME Built, LruPair(memory)
    PROVE  /\ 0 \in 0..(levels - 1) /\ 1 \in 0..(levels - 1) /\ levels \in Nat /\ levels >= 2
           /\ \A l \in {0, 1} : Sets(l) \in Nat \ {0} /\ WaysOf(l) \in Nat \ {0}
           /\ WaysOf(1) >= 2
           /\ \A c : Hierarchy(c) => /\ Placed(c[1], Sets(0), WaysOf(0))
                                     /\ Placed(c[2], Sets(1), WaysOf(1))
  <1>1. 0 \in 0..(levels - 1) /\ 1 \in 0..(levels - 1) /\ levels \in Nat /\ levels >= 2
    <2>1. levels \in Nat \ {0} /\ levels >= 2
      BY Shape DEF LruPair, levels
    <2>2. QED
      BY <2>1
  <1>2. Dimensions(0) /\ Dimensions(1)
    BY <1>1, Shape, Zenon
  <1>3. WaysOf(1) >= 2
    <2>1. PICK u : u = 1
      OBVIOUS
    <2>2. u + 1 = 2
      BY <2>1
    <2>3. WaysOf(u) = Ways(memory.shape[2].policy)
      BY <2>2, Zenon DEF WaysOf
    <2>4. QED
      BY <2>1, <2>3 DEF LruPair
  <1>4. ASSUME NEW c, Hierarchy(c)
        PROVE  Placed(c[1], Sets(0), WaysOf(0)) /\ Placed(c[2], Sets(1), WaysOf(1))
    <2>1. 0 + 1 = 1 /\ 1 + 1 = 2
      OBVIOUS
    <2>2. Placed(c[0 + 1], Sets(0), WaysOf(0)) /\ Placed(c[1 + 1], Sets(1), WaysOf(1))
      BY <1>1, <1>4, Zenon DEF Hierarchy
    <2>3. QED
      BY <2>1, <2>2, Zenon
  <1>5. QED
    BY <1>1, <1>2, <1>3, <1>4, Zenon DEF Dimensions

LEMMA PairAccess ==
    ASSUME Built, Plain(memory), LruPair(memory), NEW c, Hierarchy(c), Ordered(c),
           NEW line \in Nat
    PROVE  PairTouched(c, do_access(c, line), line, Level(c, line))
  <1>1. PICK d, level : d = do_access(c, line) /\ level = Level(c, line)
    OBVIOUS
  <1>2. PICK S, n, T, m : S = Sets(0) /\ n = WaysOf(0) /\ T = Sets(1) /\ m = WaysOf(1)
    OBVIOUS
  <1>3. /\ S \in Nat \ {0} /\ n \in Nat \ {0} /\ T \in Nat \ {0} /\ m \in Nat \ {0} /\ m >= 2
        /\ levels \in Nat /\ levels >= 2
    BY <1>2, PairFacts, Zenon
  <1>4. Hierarchy(d)
    BY <1>1, AccessKeeps
  <1>5. Placed(c[1], S, n) /\ Placed(d[1], S, n) /\ Placed(c[2], T, m) /\ Placed(d[2], T, m)
    BY <1>2, <1>4, PairFacts, Zenon
  <1>6. LruLevel(c[1], S, n) /\ LruLevel(c[2], T, m)
    BY <1>2, Zenon DEF Ordered
  <1>7. (level = 0 <=> Has(c[1], line)) /\ After(c[1], d[1], line)
    <2>1. PICK u : u = 0
      OBVIOUS
    <2>2. u \in {0, 1} /\ u <= levels - 1 /\ (u = 1 => Bare(c, line)) /\ u + 1 = 1
      BY <1>3, <2>1
    <2>3. LET l == Level(c, line)
              e == do_access(c, line)
          IN  /\ l \in u..levels /\ (l = u <=> Has(c[u + 1], line))
              /\ l = u => e[u + 1] = hit(c[u + 1], line)
              /\ l # u => e[u + 1] = fill_cache(c[u + 1], line).cache
      BY <2>2, Touched
    <2>4. /\ level = u <=> Has(c[1], line)
          /\ level = u => d[1] = hit(c[1], line)
          /\ level # u => d[1] = fill_cache(c[1], line).cache
      BY <1>1, <2>2, <2>3, Zenon
    <2>5. QED
      BY <2>1, <2>4, Zenon DEF After
  <1>8. PICK s : s = line % S
    OBVIOUS
  <1>9. UsedAt(c[1], d[1], line, s, S, n)
    BY <1>3, <1>5, <1>6, <1>7, <1>8, LruUse
  <1>10. LruLevel(d[1], S, n)
    BY <1>9, Zenon DEF UsedAt
  <1>11. ASSUME level # 0 PROVE LruLevel(d[2], T, m) /\ Late(d[2], T, line)
    <2>1. PICK e : /\ Placed(e, Sets(1), WaysOf(1)) /\ After(c[2], e, line)
                   /\ \/ do_access(c, line)[2] = e
                      \/ \E y \in Nat : do_access(c, line)[2] = fill_cache(e, y).cache
      BY <1>1, <1>3, <1>11, TouchedNext
    <2>2. PICK k, r : k = c[2] /\ r = d[2]
      OBVIOUS
    <2>3. /\ Placed(k, T, m) /\ Placed(r, T, m) /\ LruLevel(k, T, m) /\ Placed(e, T, m)
          /\ After(k, e, line) /\ (r = e \/ \E y \in Nat : r = fill_cache(e, y).cache)
      BY <1>1, <1>2, <1>5, <1>6, <2>1, <2>2, Zenon
    <2>4. LruLevel(r, T, m) /\ Late(r, T, line)
      BY <1>3, <2>3, LateAccess
    <2>5. QED
      BY <2>2, <2>4, Zenon
  <1>12. ASSUME level = 0 PROVE d[2] = c[2]
    <2>1. PICK G : AccessRun(G, c, line)
      BY AccessRuns
    <2>2. d = Found(c, line)
      BY <1>1, <1>12, <2>1, Zenon DEF AccessRun
    <2>3. \A k \in 0..(levels - 1) : k # Level(c, line) => Found(c, line)[k + 1] = c[k + 1]
      BY FoundFacts
    <2>4. PICK u : u = 1
      OBVIOUS
    <2>5. u \in 0..(levels - 1) /\ u # level /\ u + 1 = 2
      BY <1>3, <1>12, <2>4
    <2>6. d[u + 1] = c[u + 1]
      BY <1>1, <2>2, <2>3, <2>5, Zenon
    <2>7. QED
      BY <2>5, <2>6, Zenon
  <1>13. LruLevel(d[2], T, m)
    BY <1>6, <1>11, <1>12, Zenon
  <1>14. Ordered(d)
    BY <1>2, <1>10, <1>13, Zenon DEF Ordered
  <1>15. QED
    BY <1>1, <1>2, <1>7, <1>8, <1>9, <1>11, <1>14, Zenon DEF PairTouched

\* The adapter is in a pass over the eviction set of the line x: the rest r is left, q passes
\* are over, and the lines that were accessed are in front of level 0, the last one first.
Midway(c, x, r, q, j) ==
    LET s == x % Sets(0)
        t == evsets[s]
    IN  /\ Len(r) = WaysOf(0) - j /\ \A i \in 1..Len(r) : r[i] = t[j + i]
        /\ q = (IF j = WaysOf(0) THEN 1 ELSE 0)
        /\ Driven(Recency(c[1], s), t, j)

\* Between two accesses of the client level 1 knows the last one; within an access the pass
\* over the eviction set is the first.
Reaching(c, p, x, r, q) ==
    /\ Ordered(c) /\ p \in {"idle", "retry"} /\ q \in {0, 1}
    /\ p = "idle" /\ x # Invalid => Late(c[2], Sets(1), x)
    /\ p = "retry" => x \in Offered /\ \E j \in 0..WaysOf(0) : Midway(c, x, r, q, j)

\* The invariant of bypass_adapter over LRU levels.
ReachInv ==
    /\ MemoryInv /\ Plain(memory) /\ LruPair(memory)
    /\ memory.adapter = "bypass" => Reaching(caches, pc, accessed, rest, rounds)

\* The eviction set of a line: as many different lines of its set as level 0 has ways, and
\* not the line.
Evicts(t, x) ==
    /\ x \in Nat /\ x % Sets(0) \in 0..(Sets(0) - 1)
    /\ t \in Seq(Nat) /\ Len(t) = WaysOf(0) /\ Distinct(t)
    /\ \A i \in 1..Len(t) : t[i] % Sets(0) = x % Sets(0) /\ t[i] # x

LEMMA EvsetEvicts ==
    ASSUME MemoryInv, LruPair(memory), EvsetsReserved, memory.adapter = "bypass",
           NEW x \in Offered
    PROVE  Evicts(evsets[x % Sets(0)], x)
  <1>1. PICK S, W : S = Sets(0) /\ W = WaysOf(0)
    OBVIOUS
  <1>2. S \in Nat \ {0} /\ W \in Nat \ {0}
    BY <1>1, PairFacts, Zenon DEF MemoryInv
  <1>3. x \in Nat /\ evsets \in [0..(S - 1) -> Seq(Nat)]
    BY <1>1 DEF MemoryInv
  <1>4. PICK s, t : s = x % S /\ t = evsets[s]
    OBVIOUS
  <1>5. s \in 0..(S - 1) /\ t \in Seq(Nat)
    BY <1>2, <1>3, <1>4
  <1>6. /\ Cardinality(Range(t)) = W /\ Len(t) = W
        /\ \A l \in Range(t) : l % S = s /\ l \notin Offered
    BY <1>1, <1>4, <1>5, Zenon DEF EvsetsReserved
  <1>7. Distinct(t)
    <2>1. (\A j, k \in 1..Len(t) : t[j] = t[k] => j = k) <=> Cardinality(Range(t)) = Len(t)
      BY <1>5, DistinctCount
    <2>2. QED
      BY <1>6, <2>1, Zenon DEF Distinct
  <1>8. ASSUME NEW i \in 1..Len(t) PROVE t[i] % S = s /\ t[i] # x
    <2>1. t[i] \in Range(t)
      BY <1>5 DEF Range
    <2>2. QED
      BY <1>6, <2>1, Zenon
  <1>9. QED
    BY <1>1, <1>3, <1>4, <1>5, <1>6, <1>7, <1>8, Zenon DEF Evicts

\* The access of the client: either level 1 saw it, or the pass begins.
LEMMA PassBegins ==
    ASSUME MemoryInv, Plain(memory), LruPair(memory), EvsetsReserved,
           memory.adapter = "bypass", NEW x \in Offered, NEW c, Hierarchy(c), Ordered(c),
           NEW d, d = do_access(c, x), NEW r
    PROVE  IF Level(c, x) # 0 THEN Reaching(d, "idle", x, r, 0)
           ELSE Reaching(d, "retry", x, evsets[x % Sets(0)], 0)
  <1>1. PICK W, t, s : W = WaysOf(0) /\ s = x % Sets(0) /\ t = evsets[s]
    OBVIOUS
  <1>2. Built /\ x \in Nat
    BY DEF MemoryInv
  <1>3. W \in Nat \ {0}
    BY <1>1, <1>2, PairFacts, Zenon
  <1>4. t \in Seq(Nat) /\ Len(t) = W
    BY <1>1, EvsetEvicts, Zenon DEF Evicts
  <1>5. PairTouched(c, d, x, Level(c, x))
    BY <1>2, PairAccess
  <1>6. Ordered(d) /\ (Level(c, x) # 0 => Late(d[2], Sets(1), x))
    BY <1>5, Zenon DEF PairTouched
  <1>7. ASSUME Level(c, x) # 0 PROVE Reaching(d, "idle", x, r, 0)
    BY <1>6, <1>7 DEF Reaching
  <1>8. ASSUME Level(c, x) = 0 PROVE Reaching(d, "retry", x, t, 0)
    <2>1. PICK n : n = Sets(0)
      OBVIOUS
    <2>2. 0 <= Len(Recency(d[1], s))
      <3>1. Placed(d[1], n, W) /\ s \in 0..(n - 1) /\ LruLevel(d[1], n, W) /\ n \in Nat \ {0}
        <4>1. Hierarchy(d)
          BY <1>2, AccessKeeps
        <4>2. s \in 0..(n - 1)
          BY <1>1, <2>1, EvsetEvicts, Zenon DEF Evicts
        <4>3. QED
          BY <1>1, <1>2, <1>6, <2>1, <4>1, <4>2, PairFacts, Zenon DEF Ordered
      <3>2. PICK list \in Seq(Nat) : OfLru(d[1], s, W, list)
        BY <3>1, Zenon DEF LruLevel
      <3>3. Recency(d[1], s) = list
        BY <1>3, <3>1, <3>2, RecencyIs
      <3>4. QED
        BY <3>3
    <2>3. /\ Len(t) = W - 0 /\ (\A i \in 1..Len(t) : t[i] = t[0 + i])
          /\ 0 = (IF 0 = W THEN 1 ELSE 0) /\ 0 \in 0..W
      BY <1>3, <1>4
    <2>4. Driven(Recency(d[1], s), t, 0)
      BY <2>2 DEF Driven
    <2>5. Midway(d, x, t, 0, 0)
      BY <1>1, <2>3, <2>4, Zenon DEF Midway
    <2>6. "retry" \in {"idle", "retry"} /\ 0 \in {0, 1} /\ ~("retry" = "idle")
      OBVIOUS
    <2>7. QED
      BY <1>1, <1>6, <2>3, <2>5, <2>6, Zenon DEF Reaching
  <1>9. QED
    BY <1>1, <1>7, <1>8, Zenon

\* The next line of the eviction set is accessed.
LEMMA PassGoesOn ==
    ASSUME MemoryInv, Plain(memory), LruPair(memory), EvsetsReserved,
           memory.adapter = "bypass", NEW x \in Offered, NEW c, Hierarchy(c), Ordered(c),
           NEW r \in Seq(Nat), r # <<>>, NEW q, NEW j \in 0..WaysOf(0), Midway(c, x, r, q, j),
           NEW d, d = do_access(c, Head(r))
    PROVE  Reaching(d, "retry", x, Tail(r), IF Len(r) = 1 /\ q < ManyRounds THEN q + 1 ELSE q)
  <1>1. PICK W, S, s, t, h : /\ W = WaysOf(0) /\ S = Sets(0) /\ s = x % S /\ t = evsets[s]
                             /\ h = Head(r)
    OBVIOUS
  <1>2. Built /\ Placed(c[1], S, W)
    BY <1>1, PairFacts, Zenon DEF MemoryInv
  <1>3. W \in Nat \ {0} /\ S \in Nat \ {0} /\ j \in 0..W
    BY <1>1, <1>2, PairFacts, Zenon
  <1>4. /\ t \in Seq(Nat) /\ Len(t) = W /\ Distinct(t) /\ s \in 0..(S - 1)
        /\ \A i \in 1..Len(t) : t[i] % S = s
    BY <1>1, EvsetEvicts, Zenon DEF Evicts
  <1>5. /\ Len(r) = W - j /\ (\A i \in 1..Len(r) : r[i] = t[j + i])
        /\ q = (IF j = W THEN 1 ELSE 0) /\ Driven(Recency(c[1], s), t, j)
    BY <1>1, Zenon DEF Midway
  <1>6. Len(r) \in Nat \ {0} /\ h = r[1] /\ h \in Nat
    BY <1>1
  <1>7. j \in 0..(W - 1) /\ j + 1 \in 1..W
    BY <1>3, <1>5, <1>6
  <1>8. h = t[j + 1] /\ h % S = s
    <2>1. 1 \in 1..Len(r)
      BY <1>6
    <2>2. h = t[j + 1]
      BY <1>5, <1>6, <2>1, Zenon
    <2>3. QED
      BY <1>4, <1>7, <2>2, Zenon
  <1>9. PairTouched(c, d, h, Level(c, h))
    BY <1>1, <1>2, <1>6, PairAccess
  <1>10. Ordered(d) /\ UsedAt(c[1], d[1], h, s, S, W)
    BY <1>1, <1>8, <1>9, Zenon DEF PairTouched
  <1>11. PICK list : list = Recency(c[1], s)
    OBVIOUS
  <1>12. PICK place \in 1..W : Vacated(list, h, W, place) /\ Recency(d[1], s) = Moved(list, h, place)
    BY <1>10, <1>11, Zenon DEF UsedAt
  <1>13. Driven(Recency(d[1], s), t, j + 1)
    <2>1. list \in Seq(Nat) /\ Len(list) <= W /\ Driven(list, t, j)
      BY <1>5, <1>10, <1>11, Zenon DEF UsedAt
    <2>2. Driven(Moved(list, h, place), t, j + 1)
      BY <1>3, <1>4, <1>7, <1>8, <1>12, <2>1, PassStep
    <2>3. QED
      BY <1>12, <2>2, Zenon
  <1>14. PICK m : m = Tail(r)
    OBVIOUS
  <1>15. Len(m) = W - (j + 1) /\ \A i \in 1..Len(m) : m[i] = t[(j + 1) + i]
    <2>1. m \in Seq(Nat) /\ Len(m) = Len(r) - 1 /\ \A i \in 1..Len(m) : m[i] = r[i + 1]
      BY <1>14
    <2>2. PICK L : L = Len(r)
      OBVIOUS
    <2>3. L \in Nat \ {0} /\ Len(m) = L - 1 /\ L = W - j
      BY <1>5, <1>6, <2>1, <2>2, Zenon
    <2>4. ASSUME NEW i \in 1..(L - 1) PROVE i + 1 \in 1..L /\ j + (i + 1) = (j + 1) + i
      BY <1>3, <2>3
    <2>5. Len(m) = W - (j + 1)
      BY <1>3, <2>3
    <2>6. QED
      BY <1>5, <2>1, <2>2, <2>3, <2>4, <2>5, Zenon
  <1>16. PICK p : p = IF Len(r) = 1 /\ q < ManyRounds THEN q + 1 ELSE q
    OBVIOUS
  <1>17. p = (IF j + 1 = W THEN 1 ELSE 0) /\ p \in {0, 1}
    <2>1. q = 0 /\ (Len(r) = 1 <=> j + 1 = W)
      BY <1>3, <1>5, <1>7
    <2>2. QED
      BY <1>16, <2>1 DEF ManyRounds
  <1>18. Midway(d, x, m, p, j + 1)
    BY <1>1, <1>13, <1>15, <1>17, Zenon DEF Midway
  <1>19. j + 1 \in 0..W /\ "retry" \in {"idle", "retry"} /\ ~("retry" = "idle")
    BY <1>3, <1>7
  <1>20. Reaching(d, "retry", x, m, p)
    BY <1>1, <1>10, <1>17, <1>18, <1>19, Zenon DEF Reaching
  <1>21. QED
    BY <1>14, <1>16, <1>20, Zenon

\* After the pass level 0 has the eviction set and nothing else in the set of the line, so the
\* access that follows is seen by level 1.
LEMMA PassEnds ==
    ASSUME MemoryInv, Plain(memory), LruPair(memory), EvsetsReserved,
           memory.adapter = "bypass", NEW x \in Offered, NEW c, Hierarchy(c), Ordered(c),
           NEW q \in {0, 1}, NEW j \in 0..WaysOf(0), Midway(c, x, <<>>, q, j),
           NEW d, d = do_access(c, x)
    PROVE  Level(c, x) # 0 /\ \A r : Reaching(d, "idle", x, r, q)
  <1>1. PICK W, s, t, list : /\ W = WaysOf(0) /\ s = x % Sets(0) /\ t = evsets[s]
                             /\ list = Recency(c[1], s)
    OBVIOUS
  <1>2. Built /\ x \in Nat
    BY DEF MemoryInv
  <1>3. W \in Nat \ {0} /\ j \in 0..W
    BY <1>1, <1>2, PairFacts, Zenon
  <1>4. Len(t) = W /\ \A i \in 1..Len(t) : t[i] # x
    BY <1>1, EvsetEvicts, Zenon DEF Evicts
  <1>5. Len(<<>>) = W - j /\ Driven(list, t, j)
    BY <1>1, Zenon DEF Midway
  <1>6. j = W
    BY <1>3, <1>5
  <1>7. PairTouched(c, d, x, Level(c, x))
    BY <1>2, PairAccess
  <1>8. /\ list \in Seq(Nat) /\ Len(list) <= W
        /\ Has(c[1], x) <=> \E i \in 1..Len(list) : list[i] = x
    BY <1>1, <1>7, Zenon DEF PairTouched, UsedAt
  <1>9. ~Has(c[1], x)
    <2>1. ASSUME NEW i \in 1..Len(list) PROVE list[i] # x
      <3>1. PICK L : L = Len(list)
        OBVIOUS
      <3>2. L \in Nat /\ L <= W /\ i \in 1..L
        BY <1>8, <2>1, <3>1
      <3>3. i \in 1..j /\ j + 1 - i \in 1..W
        BY <1>3, <1>6, <3>2
      <3>4. list[i] = t[j + 1 - i]
        BY <1>5, <3>3, Zenon DEF Driven
      <3>5. QED
        BY <1>4, <3>3, <3>4, Zenon
    <2>2. QED
      BY <1>8, <2>1, Zenon
  <1>10. Level(c, x) # 0 /\ Ordered(d) /\ Late(d[2], Sets(1), x)
    BY <1>7, <1>9, Zenon DEF PairTouched
  <1>11. QED
    BY <1>10 DEF Reaching

LEMMA ReachInit ==
    InitAdapter /\ Usual(memory) /\ Plain(memory) /\ LruPair(memory) => ReachInv
  <1> SUFFICES ASSUME InitAdapter, Usual(memory), Plain(memory), LruPair(memory) PROVE ReachInv
    OBVIOUS
  <1>1. /\ memory \in Memories /\ caches = Cold /\ accessed = Invalid /\ pc = "idle" /\ rounds = 0
        /\ MemoryInv /\ Built
    BY MemoryInit DEF InitAdapter, Init, Built
  <1>2. ASSUME NEW u \in 0..(levels - 1), memory.shape[u + 1].policy.kind = "LRU"
        PROVE  LruLevel(caches[u + 1], Sets(u), WaysOf(u))
    <2>1. PICK c, S, n : c = caches[u + 1] /\ S = Sets(u) /\ n = WaysOf(u)
      OBVIOUS
    <2>2. u + 1 \in 1..levels /\ (u + 1) - 1 = u
      BY <1>1, Shape
    <2>3. c = NewCache(u)
      BY <1>1, <2>1, <2>2 DEF Cold
    <2>4. ASSUME NEW s \in 0..(S - 1) PROVE OfLru(c, s, n, <<>>)
      BY <1>1, <1>2, <2>1, <2>3, ColdLru
    <2>5. <<>> \in Seq(Nat)
      OBVIOUS
    <2>6. QED
      BY <2>1, <2>4, <2>5, Zenon DEF LruLevel
  <1>3. Ordered(caches)
    <2>1. 0 + 1 = 1 /\ 1 + 1 = 2
      OBVIOUS
    <2>2. 0 \in 0..(levels - 1) /\ 1 \in 0..(levels - 1)
      BY <1>1, PairFacts, Zenon
    <2>3. memory.shape[0 + 1].policy.kind = "LRU" /\ memory.shape[1 + 1].policy.kind = "LRU"
      BY <2>1, Zenon DEF LruPair
    <2>4. QED
      BY <1>2, <2>1, <2>2, <2>3, Zenon DEF Ordered
  <1>4. Reaching(caches, pc, accessed, rest, rounds)
    BY <1>1, <1>3 DEF Reaching
  <1>5. QED
    BY <1>1, <1>4, Zenon DEF ReachInv

\* The adapter has something to offer, hence all its eviction sets.
Provided == (memory.adapter = "bypass" => regions # <<>>) => EvsetsReserved

LEMMA ReachNext == ReachInv /\ Provided /\ [NextAdapter]_vars => ReachInv'
  <1> SUFFICES ASSUME ReachInv, Provided, [NextAdapter]_vars PROVE ReachInv'
    OBVIOUS
  <1>1. MemoryInv /\ Plain(memory) /\ LruPair(memory)
    BY DEF ReachInv
  <1>2. memory' = memory /\ evsets' = evsets /\ regions' = regions /\ MemoryInv'
    BY <1>1, AdapterKept, MemoryNext
  <1>3. /\ Plain(memory)' /\ LruPair(memory)' /\ Offered' = Offered
        /\ \A l : Sets(l)' = Sets(l) /\ WaysOf(l)' = WaysOf(l)
    BY <1>1, <1>2, ShapeKept DEF Plain, LruPair, Offered
  <1>4. /\ Built /\ Hierarchy(caches) /\ rest \in Seq(Nat) /\ levels \in Nat
        /\ pc = "retry" => accessed \in Nat
    BY <1>1, Shape DEF MemoryInv
  <1>5. SUFFICES ASSUME memory.adapter = "bypass"
                 PROVE  Reaching(caches', pc', accessed', rest', rounds')
    <2>1. memory.adapter = "bypass" => Reaching(caches', pc', accessed', rest', rounds')
      BY <1>5
    <2>2. ASSUME Reaching(caches', pc', accessed', rest', rounds')
          PROVE  Reaching(caches, pc, accessed, rest, rounds)'
      <3>1. Ordered(caches)'
        BY <1>3, <2>2, Zenon DEF Reaching, Ordered
      <3>2. (pc = "idle" /\ accessed # Invalid => Late(caches[2], Sets(1), accessed))'
        BY <1>3, <2>2, Zenon DEF Reaching
      <3>3. (pc \in {"idle", "retry"} /\ rounds \in {0, 1})'
        BY <2>2, Zenon DEF Reaching
      <3>4. ASSUME pc' = "retry"
            PROVE  (accessed \in Offered /\ \E j \in 0..WaysOf(0) :
                                               Midway(caches, accessed, rest, rounds, j))'
        <4>1. /\ accessed' \in Offered
              /\ \E j \in 0..WaysOf(0) : Midway(caches', accessed', rest', rounds', j)
          BY <2>2, <3>4, Zenon DEF Reaching
        <4>2. PICK j \in 0..WaysOf(0) : Midway(caches', accessed', rest', rounds', j)
          BY <4>1
        <4>3. Midway(caches, accessed, rest, rounds, j)'
          BY <1>2, <1>3, <4>2, Zenon DEF Midway
        <4>4. QED
          BY <1>3, <4>1, <4>3, Zenon
      <3>5. QED
        BY <3>1, <3>2, <3>3, <3>4, Zenon DEF Reaching
    <2>3. (memory.adapter = "bypass" => Reaching(caches, pc, accessed, rest, rounds))'
      BY <1>2, <2>1, <2>2, Zenon
    <2>4. QED
      BY <1>2, <1>3, <2>3, Zenon DEF ReachInv
  <1>6. Reaching(caches, pc, accessed, rest, rounds)
    BY <1>5 DEF ReachInv
  <1>7. /\ Ordered(caches) /\ rounds \in {0, 1}
        /\ pc = "retry" => accessed \in Offered /\ \E j \in 0..WaysOf(0) :
                              Midway(caches, accessed, rest, rounds, j)
    BY <1>6, Zenon DEF Reaching
  <1>8. ASSUME NEW x \in Offered PROVE EvsetsReserved
    <2>1. PICK i \in 1..Len(regions) : x \in LinesOf(regions[i])
      BY <1>8 DEF Offered
    <2>2. regions # <<>>
      BY <2>1
    <2>3. QED
      BY <2>2, Zenon DEF Provided
  <1>9. ASSUME NEW x \in Nat PROVE Level(caches, x) \in 0..levels
    BY <1>4, AccessKeeps
  <1>10. ASSUME NEW x \in Offered, BypassAccess(x)
         PROVE  Reaching(caches', pc', accessed', rest', rounds')
    <2>1. x \in Nat /\ EvsetsReserved
      BY <1>1, <1>8, <1>10 DEF MemoryInv
    <2>2. PICK level, d : level = Level(caches, x) /\ d = do_access(caches, x)
      OBVIOUS
    <2>3. /\ caches' = d /\ served' = level /\ accessed' = x /\ rounds' = 0 /\ pc = "idle"
          /\ IF served' > 0 THEN answer' = served' - 1 /\ pc' = pc /\ rest' = rest
             ELSE pc' = "retry" /\ rest' = evsets[x % Sets(0)] /\ answer' = answer
      BY <1>10, <2>2 DEF BypassAccess, Access
    <2>4. IF level # 0 THEN Reaching(d, "idle", x, rest, 0)
          ELSE Reaching(d, "retry", x, evsets[x % Sets(0)], 0)
      BY <1>1, <1>4, <1>5, <1>7, <2>1, <2>2, PassBegins
    <2>5. level > 0 <=> level # 0
      <3>1. level \in 0..levels
        BY <1>9, <2>1, <2>2
      <3>2. QED
        BY <1>4, <3>1
    <2>6. QED
      BY <2>3, <2>4, <2>5, Zenon
  <1>11. ASSUME AccessEvictionSet PROVE Reaching(caches', pc', accessed', rest', rounds')
    <2>1. /\ pc = "retry" /\ rest # <<>> /\ caches' = do_access(caches, Head(rest))
          /\ rest' = Tail(rest) /\ pc' = "retry" /\ accessed' = accessed
          /\ rounds' = IF Len(rest) = 1 /\ rounds < ManyRounds THEN rounds + 1 ELSE rounds
      BY <1>11 DEF AccessEvictionSet
    <2>2. accessed \in Offered
      BY <1>7, <2>1
    <2>3. PICK j \in 0..WaysOf(0) : Midway(caches, accessed, rest, rounds, j)
      BY <1>7, <2>1
    <2>4. EvsetsReserved
      BY <1>8, <2>2
    <2>5. PICK d : d = do_access(caches, Head(rest))
      OBVIOUS
    <2>6. Reaching(d, "retry", accessed, Tail(rest),
                   IF Len(rest) = 1 /\ rounds < ManyRounds THEN rounds + 1 ELSE rounds)
      BY <1>1, <1>4, <1>5, <1>7, <2>1, <2>2, <2>3, <2>4, <2>5, PassGoesOn
    <2>7. QED
      BY <2>1, <2>5, <2>6, Zenon
  <1>12. ASSUME AccessAgain PROVE Reaching(caches', pc', accessed', rest', rounds')
    <2>1. /\ pc = "retry" /\ rest = <<>> /\ caches' = do_access(caches, accessed)
          /\ served' = Level(caches, accessed) /\ accessed' = accessed /\ rounds' = rounds
          /\ served' > 0 => pc' = "idle" /\ rest' = rest
      BY <1>12 DEF AccessAgain, Access
    <2>2. accessed \in Offered
      BY <1>7, <2>1
    <2>3. PICK j \in 0..WaysOf(0) : Midway(caches, accessed, <<>>, rounds, j)
      BY <1>7, <2>1
    <2>4. EvsetsReserved
      BY <1>8, <2>2
    <2>5. PICK d : d = do_access(caches, accessed)
      OBVIOUS
    <2>6. Level(caches, accessed) # 0 /\ \A r : Reaching(d, "idle", accessed, r, rounds)
      BY <1>1, <1>4, <1>5, <1>7, <2>2, <2>3, <2>4, <2>5, PassEnds
    <2>7. served' > 0
      <3>1. Level(caches, accessed) \in 0..levels
        BY <1>4, <1>9, <2>1
      <3>2. QED
        BY <1>4, <2>1, <2>6, <3>1
    <2>8. QED
      BY <2>1, <2>5, <2>6, <2>7, Zenon
  <1>13. ASSUME NEW x \in Offered PROVE ~PlainAccess(x) /\ ~ArmAccess(x)
    BY <1>5 DEF PlainAccess, ArmAccess
  <1>14. CASE vars' = vars
    <2>1. /\ caches' = caches /\ pc' = pc /\ accessed' = accessed /\ rest' = rest
          /\ rounds' = rounds
      BY <1>14 DEF vars, memory_vars, adapter
    <2>2. QED
      BY <1>6, <2>1, Zenon
  <1>15. QED
    BY <1>10, <1>11, <1>12, <1>13, <1>14, Zenon DEF NextAdapter

LEMMA ReachHolds == ReachInv => ReachesNextLevel
  <1> SUFFICES ASSUME ReachInv, memory.adapter = "bypass"
               PROVE  /\ rounds <= 1
                      /\ accessed # Invalid /\ pc = "idle" =>
                            LET list == Recency(caches[2], accessed % Sets(1))
                            IN  accessed \in {list[i] : i \in 1..Min({Len(list), 2})}
    BY DEF ReachesNextLevel
  <1>1. /\ MemoryInv /\ LruPair(memory) /\ Reaching(caches, pc, accessed, rest, rounds)
        /\ Built /\ Hierarchy(caches) /\ accessed \in Nat \cup {Invalid}
    BY DEF ReachInv, MemoryInv
  <1>2. rounds <= 1
    BY <1>1 DEF Reaching
  <1>3. ASSUME accessed # Invalid, pc = "idle"
        PROVE  LET list == Recency(caches[2], accessed % Sets(1))
               IN  accessed \in {list[i] : i \in 1..Min({Len(list), 2})}
    <2>1. PICK x, S, n, c, s : /\ x = accessed /\ S = Sets(1) /\ n = WaysOf(1) /\ c = caches[2]
                               /\ s = x % S
      OBVIOUS
    <2>2. S \in Nat \ {0} /\ n \in Nat \ {0} /\ Placed(c, S, n)
      BY <1>1, <2>1, PairFacts, Zenon
    <2>3. x \in Nat /\ s \in 0..(S - 1)
      BY <1>1, <1>3, <2>1, <2>2
    <2>4. LruLevel(c, S, n) /\ Late(c, S, x)
      BY <1>1, <1>3, <2>1, Zenon DEF Reaching, Ordered
    <2>5. PICK list \in Seq(Nat) : OfLru(c, s, n, list)
      BY <2>3, <2>4, Zenon DEF LruLevel
    <2>6. Recency(c, s) = list
      BY <2>2, <2>3, <2>5, RecencyIs
    <2>7. PICK i \in {1, 2} : i <= Len(list) /\ list[i] = x
      BY <2>1, <2>4, <2>6, Zenon DEF Late
    <2>8. i \in 1..Min({Len(list), 2})
      <3>1. PICK L : L = Len(list)
        OBVIOUS
      <3>2. L \in Nat /\ i <= L
        BY <2>7, <3>1
      <3>3. Min({L, 2}) = IF L <= 2 THEN L ELSE 2
        BY <3>2 DEF Min
      <3>4. i \in 1..Min({L, 2})
        BY <2>7, <3>2, <3>3
      <3>5. QED
        BY <3>1, <3>4
    <2>9. x \in {list[k] : k \in 1..Min({Len(list), 2})}
      BY <2>7, <2>8
    <2>10. QED
      BY <2>1, <2>6, <2>9, Zenon
  <1>4. QED
    BY <1>2, <1>3

\* An access through bypass_adapter over two LRU levels never ends in level 0: one pass over the
\* eviction set drives the line out, and level 1 then has the line among the two used last.
THEOREM AccessesReachNextLevel ==
    Spec /\ Usual(memory) /\ Plain(memory) /\ LruPair(memory) => []ReachesNextLevel
  <1>1. InitAdapter /\ Usual(memory) /\ Plain(memory) /\ LruPair(memory)
           => ReachInv /\ WaysOf(0) \in Nat \ {0}
    <2>1. InitAdapter /\ Usual(memory) => Built
      BY DEF InitAdapter, Init, Built
    <2>2. QED
      BY <2>1, ReachInit, PairFacts, Zenon
  <1>2. Spec /\ WaysOf(0) \in Nat \ {0} => []Provided
    BY EvictionSetsReserved, Zenon DEF Provided
  <1>3. ReachInv /\ Provided /\ [NextAdapter]_vars => ReachInv'
    BY ReachNext
  <1>4. ReachInv => ReachesNextLevel
    BY ReachHolds
  <1>5. QED
    BY <1>1, <1>2, <1>3, <1>4, PTL DEF Spec
=============================================================================
