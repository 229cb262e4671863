------------------------------- MODULE Lemmas -------------------------------
(***************************************************************************)
(* Lemmas that the proofs of several components need: induction over       *)
(* numbers, facts about sequences and maxima, and what the replacement     *)
(* policies FIFO, LRU and tree-PLRU do on a hit and on a miss.             *)
(***************************************************************************)
EXTENDS ReplacementPolicy, Functions, FiniteSetsExt, FiniteSetTheorems,
        WellFoundedInduction, TLAPS

-----------------------------------------------------------------------------
(* Induction.                                                              *)

\* A set of natural numbers that is not empty has a least member.
LEMMA Least ==
    ASSUME NEW T \in SUBSET Nat, T # {}
    PROVE  \E n \in T : \A m \in T : n <= m
  <1>1. PICK n \in T : \A m \in T : ~(<<m, n>> \in OpToRel(<, Nat))
    BY NatLessThanWellFounded, WFMin, Zenon
  <1>2. ASSUME NEW m \in T PROVE n <= m
    <2>1. ~(<<m, n>> \in {ss \in Nat \X Nat : ss[1] < ss[2]})
      BY <1>1, Zenon DEF OpToRel
    <2>2. QED
      BY <2>1
  <1>3. QED
    BY <1>1, <1>2

\* Induction over numbers, for a set instead of a predicate.
LEMMA Induct ==
    ASSUME NEW T, 0 \in T, \A n \in Nat : n \in T => n + 1 \in T
    PROVE  \A n \in Nat : n \in T
  <1> SUFFICES ASSUME Nat \ T # {} PROVE FALSE
    OBVIOUS
  <1>1. PICK n \in Nat \ T : \A m \in Nat \ T : n <= m
    BY Least
  <1>2. n - 1 \in Nat /\ n - 1 \notin Nat \ T
    BY <1>1
  <1>3. QED
    BY <1>1, <1>2

\* Induction up to a number.
LEMMA InductTo ==
    ASSUME NEW n \in Nat, NEW T, 0 \in T, \A i \in 0..(n - 1) : i \in T => i + 1 \in T
    PROVE  \A i \in 0..n : i \in T
  <1> DEFINE U == {i \in Nat : i \in 0..n => i \in T}
  <1>1. 0 \in U
    OBVIOUS
  <1>2. ASSUME NEW i \in Nat, i \in U PROVE i + 1 \in U
    <2>1. i + 1 \in 0..n => i \in 0..n /\ i \in 0..(n - 1)
      OBVIOUS
    <2>2. QED
      BY <1>2, <2>1
  <1> HIDE DEF U
  <1>3. \A i \in Nat : i \in U
    BY <1>1, <1>2, Induct
  <1>4. ASSUME NEW i \in 0..n PROVE i \in T
    <2>1. i \in Nat
      OBVIOUS
    <2>2. QED
      BY <1>3, <2>1 DEF U
  <1>5. QED
    BY <1>4

\* n ascending numbers below n are 0, 1, ..., n - 1.
LEMMA Ascending ==
    ASSUME NEW n \in Nat, NEW f \in [1..n -> 0..(n - 1)],
           \A i, j \in 1..n : i < j => f[i] < f[j]
    PROVE  \A i \in 1..n : f[i] = i - 1
  <1> DEFINE Up == {m \in Nat : m + 1 \in 1..n => f[m + 1] >= m}
             Down == {m \in Nat : n - m \in 1..n => f[n - m] <= (n - m) - 1}
  <1>1. \A m \in Nat : m \in Up
    <2>1. 0 \in Up
      OBVIOUS
    <2>2. ASSUME NEW m \in Nat, m \in Up PROVE m + 1 \in Up
      <3> SUFFICES ASSUME m + 2 \in 1..n PROVE f[m + 2] >= m + 1
        OBVIOUS
      <3>1. m + 1 \in 1..n /\ m + 1 < m + 2
        OBVIOUS
      <3>2. f[m + 1] >= m /\ f[m + 1] < f[m + 2] /\ f[m + 1] \in Nat /\ f[m + 2] \in Nat
        BY <2>2, <3>1
      <3>3. QED
        BY <3>2
    <2> HIDE DEF Up
    <2>3. QED
      BY <2>1, <2>2, Induct, Zenon
  <1>2. \A m \in Nat : m \in Down
    <2>1. 0 \in Down
      OBVIOUS
    <2>2. ASSUME NEW m \in Nat, m \in Down PROVE m + 1 \in Down
      <3> SUFFICES ASSUME n - (m + 1) \in 1..n PROVE f[n - (m + 1)] <= (n - (m + 1)) - 1
        OBVIOUS
      <3>1. n - m \in 1..n /\ n - (m + 1) < n - m
        OBVIOUS
      <3>2. /\ f[n - m] <= (n - m) - 1 /\ f[n - (m + 1)] < f[n - m]
            /\ f[n - m] \in Nat /\ f[n - (m + 1)] \in Nat
        BY <2>2, <3>1
      <3>3. QED
        BY <3>2
    <2> HIDE DEF Down
    <2>3. QED
      BY <2>1, <2>2, Induct, Zenon
  <1>3. ASSUME NEW i \in 1..n PROVE f[i] = i - 1
    <2>1. i - 1 \in Nat /\ (i - 1) + 1 = i /\ n - i \in Nat /\ n - (n - i) = i
      OBVIOUS
    <2>2. f[i] >= i - 1
      BY <1>1, <2>1
    <2>3. f[i] <= i - 1
      BY <1>2, <2>1
    <2>4. f[i] \in Int
      OBVIOUS
    <2>5. QED
      BY <2>2, <2>3, <2>4
  <1>4. QED
    BY <1>3

\* There is one choice from a set of one.
LEMMA OneOf == ASSUME NEW x PROVE (CHOOSE r \in {x} : TRUE) = x
  OBVIOUS

-----------------------------------------------------------------------------
(* Sequences.                                                              *)

\* The elements of a concatenation.
LEMMA ConcatRange ==
    ASSUME NEW S, NEW s \in Seq(S), NEW t \in Seq(S)
    PROVE  \A a : a \in Range(s \o t) <=> a \in Range(s) \/ a \in Range(t)
  <1>1. /\ DOMAIN s = 1..Len(s) /\ DOMAIN t = 1..Len(t)
        /\ DOMAIN (s \o t) = 1..(Len(s) + Len(t))
        /\ Len(s) \in Nat /\ Len(t) \in Nat
    OBVIOUS
  <1>2. \A k \in 1..Len(s) : k \in 1..(Len(s) + Len(t)) /\ (s \o t)[k] = s[k]
    OBVIOUS
  <1>3. \A k \in 1..Len(t) :
          Len(s) + k \in 1..(Len(s) + Len(t)) /\ (s \o t)[Len(s) + k] = t[k]
    OBVIOUS
  <1>4. \A k \in 1..(Len(s) + Len(t)) :
          \/ k \in 1..Len(s)
          \/ (k - Len(s)) \in 1..Len(t) /\ (s \o t)[k] = t[k - Len(s)]
    OBVIOUS
  <1>5. ASSUME NEW a, a \in Range(s \o t) PROVE a \in Range(s) \/ a \in Range(t)
    <2>1. PICK k \in 1..(Len(s) + Len(t)) : a = (s \o t)[k]
      BY <1>1, <1>5 DEF Range
    <2>2. QED
      BY <1>1, <1>2, <1>4, <2>1 DEF Range
  <1>6. ASSUME NEW a, a \in Range(s) PROVE a \in Range(s \o t)
    BY <1>1, <1>2, <1>6 DEF Range
  <1>7. ASSUME NEW a, a \in Range(t) PROVE a \in Range(s \o t)
    <2>1. PICK k \in 1..Len(t) : a = t[k]
      BY <1>1, <1>7 DEF Range
    <2>2. QED
      BY <1>1, <1>3, <2>1, Zenon DEF Range
  <1>8. QED
    BY <1>5, <1>6, <1>7

\* An element more.
LEMMA AppendFacts ==
    ASSUME NEW S, NEW s \in Seq(S), NEW a \in S
    PROVE  /\ Append(s, a) \in Seq(S) /\ Len(Append(s, a)) = Len(s) + 1
           /\ Range(Append(s, a)) = Range(s) \cup {a}
           /\ Len(s) > 0 => Head(Append(s, a)) = Head(s) /\ Head(s) \in Range(s)
           /\ (a \notin Range(s) /\ \A j, k \in 1..Len(s) : s[j] = s[k] => j = k) =>
                 \A j, k \in 1..Len(Append(s, a)) : Append(s, a)[j] = Append(s, a)[k] => j = k
  <1> DEFINE t == Append(s, a)
             n == Len(s)
  <1>1. /\ n \in Nat /\ DOMAIN s = 1..n
        /\ t \in Seq(S) /\ Len(t) = n + 1 /\ DOMAIN t = 1..(n + 1)
        /\ t[n + 1] = a /\ \A k \in 1..n : t[k] = s[k]
    OBVIOUS
  <1>2. n > 0 => Head(t) = Head(s) /\ Head(s) = s[1] /\ 1 \in 1..n
    OBVIOUS
  <1> HIDE DEF t, n
  <1>3. 1..(n + 1) = (1..n) \cup {n + 1}
    BY <1>1
  <1>4. Range(t) = Range(s) \cup {a}
    <2>1. ASSUME NEW k \in 1..(n + 1) PROVE t[k] \in Range(s) \cup {a}
      BY <1>1, <1>3 DEF Range
    <2>2. ASSUME NEW k \in 1..n PROVE s[k] \in Range(t)
      BY <1>1, <1>3 DEF Range
    <2>3. a \in Range(t)
      BY <1>1, <1>3 DEF Range
    <2>4. QED
      BY <1>1, <2>1, <2>2, <2>3 DEF Range
  <1>5. ASSUME a \notin Range(s), \A j, k \in 1..n : s[j] = s[k] => j = k,
               NEW j \in 1..(n + 1), NEW k \in 1..(n + 1), t[j] = t[k]
        PROVE  j = k
    <2>1. \A i \in 1..n : t[i] # a
      BY <1>1, <1>5 DEF Range
    <2>2. QED
      BY <1>1, <1>3, <1>5, <2>1
  <1>6. QED
    BY <1>1, <1>2, <1>4, <1>5 DEF t, n, Range

\* A sequence of distinct elements has as many as it is long, and conversely.
LEMMA DistinctCount ==
    ASSUME NEW S, NEW s \in Seq(S)
    PROVE  /\ IsFiniteSet(Range(s)) /\ Cardinality(Range(s)) \in Nat
           /\ Cardinality(Range(s)) <= Len(s)
           /\ (\A j, k \in 1..Len(s) : s[j] = s[k] => j = k) <=> Cardinality(Range(s)) = Len(s)
  <1>1. Len(s) \in Nat /\ s \in [1..Len(s) -> S] /\ DOMAIN s = 1..Len(s)
    OBVIOUS
  <1>2. IsFiniteSet(1..Len(s)) /\ Cardinality(1..Len(s)) = Len(s)
    BY <1>1, FS_Interval
  <1>3. s \in Surjection(1..Len(s), Range(s))
    BY <1>1 DEF Surjection, Range
  <1>4. /\ IsFiniteSet(Range(s))
        /\ Cardinality(Range(s)) <= Len(s)
        /\ Cardinality(Range(s)) = Len(s) <=> s \in Injection(1..Len(s), Range(s))
    BY <1>2, <1>3, FS_Surjection
  <1>5. s \in Injection(1..Len(s), Range(s))
          <=> \A j, k \in 1..Len(s) : s[j] = s[k] => j = k
    BY <1>1, <1>3 DEF Injection, IsInjective, Surjection
  <1>6. QED
    BY <1>4, <1>5, FS_CardinalityType

-----------------------------------------------------------------------------
(* Maxima.                                                                 *)

\* A set of natural numbers that is not empty and has a bound has a greatest member.
LEMMA Greatest ==
    ASSUME NEW T \in SUBSET Nat, T # {}, NEW bound \in Nat, \A m \in T : m <= bound
    PROVE  /\ \E n \in T : \A m \in T : n >= m
           /\ Max(T) \in T /\ \A m \in T : Max(T) >= m
  <1> DEFINE D == {d \in Nat : bound - d \in T}
  <1>1. D # {}
    <2>1. PICK m \in T : TRUE
      OBVIOUS
    <2>2. bound - m \in Nat /\ bound - (bound - m) = m
      BY <2>1
    <2>3. QED
      BY <2>1, <2>2
  <1>2. PICK d \in D : \A e \in D : d <= e
    BY <1>1, Least
  <1>3. ASSUME NEW m \in T PROVE bound - d >= m
    <2>1. bound - m \in Nat /\ bound - (bound - m) = m
      OBVIOUS
    <2>2. bound - m \in D
      BY <2>1
    <2>3. QED
      BY <1>2, <2>2
  <1>4. \E n \in T : \A m \in T : n >= m
    BY <1>2, <1>3
  <1>5. QED
    BY <1>4, Zenon DEF Max

-----------------------------------------------------------------------------
(* The policies that are lists.                                            *)

\* The orders in which n ways can be.
Orders(n) == {o \in [1..n -> 0..(n - 1)] : \A i, j \in 1..n : o[i] = o[j] => i = j}

\* The objects of the policies FIFO and LRU.
OrderPolicies(n) == [kind : {"FIFO", "LRU"}, order : Orders(n)]

\* Where the element at position k was before the one at position i came to the front.
Before(i, k) == IF k = 1 THEN i ELSE IF k <= i THEN k - 1 ELSE k

\* Every position is filled from one position.
LEMMA BeforeFacts ==
    ASSUME NEW n \in Nat \ {0}, NEW i \in 1..n
    PROVE  /\ \A k \in 1..n : Before(i, k) \in 1..n
           /\ \A k, l \in 1..n : Before(i, k) = Before(i, l) => k = l
           /\ Before(i, 1) = i /\ \A k \in 1..n : k # 1 => Before(i, k) # i
  BY DEF Before

\* std::rotate brings one element to the front and leaves the order of the others.
LEMMA ToFrontFacts ==
    ASSUME NEW n \in Nat \ {0}, NEW o \in Orders(n), NEW i \in 1..n
    PROVE  /\ Len(o) = n /\ ToFront(o, i) \in Orders(n)
           /\ \A k \in 1..n : ToFront(o, i)[k] = o[Before(i, k)]
  <1> DEFINE S == 0..(n - 1)
             front == SubSeq(o, 1, i - 1)
             back == SubSeq(o, i + 1, n)
             t == (<<o[i]>> \o front) \o back
  <1>1. o \in [1..n -> S] /\ o \in Seq(S) /\ Len(o) = n
    BY DEF Orders
  <1>2. ToFront(o, i) = t
    BY <1>1, Zenon DEF ToFront
  <1>3. /\ front \in Seq(S) /\ Len(front) = i - 1 /\ \A k \in 1..(i - 1) : front[k] = o[k]
    BY <1>1
  <1>4. /\ back \in Seq(S) /\ Len(back) = n - i /\ \A k \in 1..(n - i) : back[k] = o[i + k]
    BY <1>1
  <1>5. <<o[i]>> \in Seq(S) /\ Len(<<o[i]>>) = 1 /\ <<o[i]>>[1] = o[i]
    BY <1>1
  <1> HIDE DEF front, back, S
  <1> DEFINE u == <<o[i]>> \o front
  <1>6. /\ u \in Seq(S) /\ Len(u) = i /\ u[1] = o[i]
        /\ \A k \in 1..i : k # 1 => u[k] = o[k - 1]
    <2>1. u \in Seq(S) /\ Len(u) = 1 + (i - 1)
      BY <1>3, <1>5
    <2>2. u[1] = o[i]
      BY <1>3, <1>5
    <2>3. \A k \in 1..i : k # 1 => u[k] = front[k - 1] /\ k - 1 \in 1..(i - 1)
      BY <1>3, <1>5
    <2>4. QED
      BY <1>3, <2>1, <2>2, <2>3
  <1>7. t = u \o back
    OBVIOUS
  <1> HIDE DEF u, t
  <1>8. /\ t \in Seq(S) /\ Len(t) = n
        /\ \A k \in 1..i : t[k] = u[k]
        /\ \A k \in (i + 1)..n : t[k] = back[k - i] /\ k - i \in 1..(n - i)
    <2>1. t \in Seq(S) /\ Len(t) = n
      <3>1. u \in Seq(S) /\ back \in Seq(S) /\ Len(u) = i /\ Len(back) = n - i
        BY <1>4, <1>6
      <3>2. (u \o back) \in Seq(S) /\ Len(u \o back) = Len(u) + Len(back)
        BY <3>1
      <3>3. i + (n - i) = n
        OBVIOUS
      <3>4. QED
        BY <1>7, <3>1, <3>2, <3>3, Zenon
    <2>2. \A k \in 1..i : t[k] = u[k]
      BY <1>4, <1>6, <1>7
    <2>3. \A k \in (i + 1)..n : t[k] = back[k - i] /\ k - i \in 1..(n - i)
      BY <1>4, <1>6, <1>7
    <2>4. QED
      BY <2>1, <2>2, <2>3
  <1>9. \A k \in 1..n : t[k] = o[Before(i, k)]
    <2> SUFFICES ASSUME NEW k \in 1..n PROVE t[k] = o[Before(i, k)]
      OBVIOUS
    <2>1. CASE k <= i
      BY <1>6, <1>8, <2>1 DEF Before
    <2>2. CASE k > i
      <3>1. k \in (i + 1)..n /\ i + (k - i) = k /\ Before(i, k) = k
        BY <2>2 DEF Before
      <3>2. t[k] = o[i + (k - i)]
        BY <1>4, <1>8, <3>1
      <3>3. QED
        BY <3>1, <3>2
    <2>3. QED
      BY <2>1, <2>2
  <1>10. t \in Orders(n)
    <2>1. t \in [1..n -> 0..(n - 1)]
      BY <1>8 DEF S
    <2>2. ASSUME NEW j \in 1..n, NEW k \in 1..n, t[j] = t[k] PROVE j = k
      <3>1. Before(i, j) \in 1..n /\ Before(i, k) \in 1..n
        BY BeforeFacts
      <3>2. o[Before(i, j)] = o[Before(i, k)]
        BY <1>9, <2>2
      <3>3. Before(i, j) = Before(i, k)
        BY <3>1, <3>2 DEF Orders
      <3>4. QED
        BY <3>3, BeforeFacts
    <2>3. QED
      BY <2>1, <2>2 DEF Orders
  <1>11. QED
    BY <1>1, <1>2, <1>9, <1>10

\* hit and miss: FIFO ignores hits, LRU brings the way to the front; both give up the
\* last way, which comes to the front.
LEMMA OrderSteps ==
    ASSUME NEW n \in Nat \ {0}, NEW p \in OrderPolicies(n)
    PROVE  /\ Ways(p) = n /\ n \in 1..n
           /\ Miss(p).way = p.order[n]
           /\ Miss(p).policy \in OrderPolicies(n) /\ Miss(p).policy.kind = p.kind
           /\ \A k \in 1..n : Miss(p).policy.order[k] = p.order[Before(n, k)]
           /\ \A i \in 1..n :
                 /\ Hit(p, p.order[i]) \in OrderPolicies(n) /\ Hit(p, p.order[i]).kind = p.kind
                 /\ p.kind = "FIFO" => Hit(p, p.order[i]) = p
                 /\ p.kind = "LRU" => \A k \in 1..n :
                       Hit(p, p.order[i]).order[k] = p.order[Before(i, k)]
  <1>1. /\ p = [kind |-> p.kind, order |-> p.order]
        /\ p.kind \in {"FIFO", "LRU"} /\ p.order \in Orders(n)
    BY DEF OrderPolicies
  <1>2. n \in 1..n /\ Len(p.order) = n
    BY <1>1, ToFrontFacts
  <1>3. Ways(p) = n
    BY <1>1, <1>2 DEF Ways, FlatWays
  <1>4. Miss(p) = OrderMiss(p)
    BY <1>1 DEF Miss, FlatMiss
  <1>5. /\ Miss(p).way = p.order[n]
        /\ Miss(p).policy = [kind |-> p.kind, order |-> ToFront(p.order, n)]
    BY <1>1, <1>2, <1>4 DEF OrderMiss
  <1>6. /\ Miss(p).policy \in OrderPolicies(n) /\ Miss(p).policy.kind = p.kind
        /\ \A k \in 1..n : Miss(p).policy.order[k] = p.order[Before(n, k)]
    <2>1. /\ ToFront(p.order, n) \in Orders(n)
          /\ \A k \in 1..n : ToFront(p.order, n)[k] = p.order[Before(n, k)]
      BY <1>1, <1>2, ToFrontFacts
    <2>2. QED
      BY <1>1, <1>5, <2>1 DEF OrderPolicies
  <1>7. ASSUME NEW i \in 1..n
        PROVE  /\ Hit(p, p.order[i]) \in OrderPolicies(n) /\ Hit(p, p.order[i]).kind = p.kind
               /\ p.kind = "FIFO" => Hit(p, p.order[i]) = p
               /\ p.kind = "LRU" => \A k \in 1..n :
                     Hit(p, p.order[i]).order[k] = p.order[Before(i, k)]
    <2>1. CASE p.kind = "FIFO"
      <3>1. Hit(p, p.order[i]) = p
        BY <2>1 DEF Hit, FlatHit
      <3>2. QED
        BY <2>1, <3>1
    <2>2. CASE p.kind = "LRU"
      <3>1. Hit(p, p.order[i]) = LruHit(p, p.order[i])
        BY <2>2 DEF Hit, FlatHit
      <3>2. (CHOOSE j \in 1..Len(p.order) : p.order[j] = p.order[i]) = i
        BY <1>1, <1>2 DEF Orders
      <3>3. LruHit(p, p.order[i]) = [kind |-> p.kind, order |-> ToFront(p.order, i)]
        <4>1. LruHit(p, p.order[i]) = [p EXCEPT !.order = ToFront(p.order, i)]
          BY <3>2, Zenon DEF LruHit
        <4>2. QED
          BY <1>1, <4>1
      <3>4. /\ ToFront(p.order, i) \in Orders(n)
            /\ \A k \in 1..n : ToFront(p.order, i)[k] = p.order[Before(i, k)]
        BY <1>1, ToFrontFacts
      <3>5. QED
        BY <1>1, <2>2, <3>1, <3>3, <3>4 DEF OrderPolicies
    <2>3. QED
      BY <1>1, <2>1, <2>2
  <1>8. QED
    BY <1>2, <1>3, <1>5, <1>6, <1>7

\* An order lists every way.
LEMMA EveryWay ==
    ASSUME NEW n \in Nat \ {0}, NEW o \in Orders(n), NEW w \in 0..(n - 1)
    PROVE  \E i \in 1..n : o[i] = w
  <1>1. o \in Injection(1..n, 0..(n - 1))
    BY DEF Orders, Injection, IsInjective
  <1>2. /\ IsFiniteSet(0..(n - 1)) /\ Cardinality(0..(n - 1)) = n
        /\ IsFiniteSet(1..n) /\ Cardinality(1..n) = n
    <2>1. ~(0 > n - 1) /\ (n - 1) - 0 + 1 = n /\ ~(1 > n) /\ n - 1 + 1 = n
            /\ 0 \in Int /\ 1 \in Int /\ n \in Int /\ n - 1 \in Int
      OBVIOUS
    <2>2. QED
      BY <2>1, FS_Interval
  <1>3. o \in Surjection(1..n, 0..(n - 1))
    BY <1>1, <1>2, FS_Injection
  <1>4. QED
    BY <1>3 DEF Surjection

-----------------------------------------------------------------------------
(* The tree of pseudo-LRU.                                                 *)

\* What the provers do not know about powers of two.
Doubling(n) == 2^0 = 1 /\ \A k \in 0..n : 2^(k + 1) = 2 * 2^k

LEMMA Powers ==
    ASSUME NEW n \in Nat, Doubling(n)
    PROVE  /\ \A k \in 0..(n + 1) : 2^k \in Nat \ {0}
           /\ \A k, l \in 0..(n + 1) : k < l => k + 1 \in 0..(n + 1) /\ 2^(k + 1) <= 2^l
  <1> DEFINE T == {k \in Nat : k \in 0..(n + 1) => 2^k \in Nat \ {0}}
             U == {l \in Nat : l \in 0..(n + 1) => \A k \in 0..(n + 1) : k < l => 2^(k + 1) <= 2^l}
  <1>1. \A k \in Nat : k \in T
    <2>1. 0 \in T
      BY DEF Doubling
    <2>2. ASSUME NEW k \in Nat, k \in T PROVE k + 1 \in T
      <3> SUFFICES ASSUME k + 1 \in 0..(n + 1) PROVE 2^(k + 1) \in Nat \ {0}
        OBVIOUS
      <3>1. k \in 0..n /\ k \in 0..(n + 1)
        OBVIOUS
      <3>2. 2^k \in Nat \ {0}
        BY <2>2, <3>1
      <3>3. 2^(k + 1) = 2 * 2^k
        BY <3>1 DEF Doubling
      <3>4. QED
        BY <3>2, <3>3
    <2> HIDE DEF T
    <2>3. QED
      BY <2>1, <2>2, Induct, Zenon
  <1>2. \A k \in 0..(n + 1) : 2^k \in Nat \ {0}
    BY <1>1
  <1>3. \A l \in Nat : l \in U
    <2>1. 0 \in U
      OBVIOUS
    <2>2. ASSUME NEW l \in Nat, l \in U PROVE l + 1 \in U
      <3> SUFFICES ASSUME l + 1 \in 0..(n + 1), NEW k \in 0..(n + 1), k < l + 1
                   PROVE  2^(k + 1) <= 2^(l + 1)
        OBVIOUS
      <3>1. l \in 0..n /\ l \in 0..(n + 1) /\ k + 1 \in 0..(n + 1)
        OBVIOUS
      <3>2. /\ 2^l \in Nat \ {0} /\ 2^(l + 1) \in Nat \ {0} /\ 2^(k + 1) \in Nat \ {0}
            /\ 2^(l + 1) = 2 * 2^l
        BY <1>2, <3>1 DEF Doubling
      <3>3. CASE k = l
        BY <3>2, <3>3
      <3>4. CASE k < l
        <4>1. 2^(k + 1) <= 2^l
          BY <2>2, <3>1, <3>4
        <4>2. QED
          BY <3>2, <4>1
      <3>5. QED
        BY <3>3, <3>4
    <2> HIDE DEF U
    <2>3. QED
      BY <2>1, <2>2, Induct, Zenon
  <1>4. QED
    BY <1>2, <1>3

\* Quotients.
LEMMA Quotient ==
    ASSUME NEW m \in Nat \ {0}, NEW q \in Nat, NEW r \in 0..(m - 1)
    PROVE  (m * q + r) \div m = q
  OBVIOUS

LEMMA Halves ==
    ASSUME NEW w \in Nat, NEW m \in Nat \ {0}
    PROVE  /\ w \div m \in Nat /\ w \div (2 * m) \in Nat /\ (w \div m) % 2 \in {0, 1}
           /\ w \div m = 2 * (w \div (2 * m)) + ((w \div m) % 2)
  <1>1. PICK x \in Nat, r \in 0..(m - 1) : w = m * x + r /\ w \div m = x
    <2>1. w \div m \in Nat /\ w % m \in 0..(m - 1) /\ w = m * (w \div m) + (w % m)
      OBVIOUS
    <2>2. QED
      BY <2>1
  <1>2. PICK y \in Nat, s \in {0, 1} : x = 2 * y + s /\ x % 2 = s
    OBVIOUS
  <1>3. 2 * m \in Nat \ {0}
    OBVIOUS
  <1>4. w \div (2 * m) = y
    <2>1. CASE s = 0
      <3>1. r \in 0..((2 * m) - 1)
        OBVIOUS
      <3>2. m * (2 * y) = (2 * m) * y
        OBVIOUS
      <3>3. w = (2 * m) * y + r
        BY <1>1, <1>2, <2>1, <3>2
      <3>4. QED
        BY <1>3, <3>1, <3>3, Quotient
    <2>2. CASE s = 1
      <3>1. m + r \in 0..((2 * m) - 1)
        OBVIOUS
      <3>2. m * (2 * y + 1) = (2 * m) * y + m
        OBVIOUS
      <3>3. w = (2 * m) * y + (m + r)
        <4>1. w = m * (2 * y + 1) + r
          BY <1>1, <1>2, <2>2
        <4>2. m * y \in Nat
          OBVIOUS
        <4>3. QED
          BY <3>2, <4>1, <4>2
      <3>4. QED
        BY <1>3, <3>1, <3>3, Quotient
    <2>3. QED
      BY <2>1, <2>2
  <1>5. w \div m = 2 * (w \div (2 * m)) + ((w \div m) % 2)
    BY <1>1, <1>2, <1>4
  <1>6. QED
    BY <1>1, <1>2, <1>4, <1>5

\* The first l turns on the way from the root to a way, as a number, the l-th turn, and
\* the node at level l.
Prefix(h, w, l) == w \div 2^(h - l)
Side(h, w, l) == (w \div 2^(h - l)) % 2
Node(h, w, l) == (Prefix(h, w, l) + 2^l) - 1

\* A way is its turns.
LEMMA Digits ==
    ASSUME NEW h \in Nat, NEW w \in 0..(2^h - 1), Doubling(h)
    PROVE  /\ Prefix(h, w, 0) = 0 /\ Prefix(h, w, h) = w
           /\ \A l \in 0..h : Prefix(h, w, l) \in 0..(2^l - 1)
           /\ \A l \in 1..h : /\ Side(h, w, l) \in {0, 1}
                              /\ Prefix(h, w, l) = 2 * Prefix(h, w, l - 1) + Side(h, w, l)
  <1>1. \A k \in 0..(h + 1) : 2^k \in Nat \ {0}
    BY Powers
  <1>2. 2^h \in Nat \ {0} /\ w \in Nat /\ w < 2^h
    BY <1>1
  <1>3. Prefix(h, w, 0) = 0
    <2>1. h - 0 = h
      OBVIOUS
    <2>2. w \div 2^h = 0
      <3>1. PICK m \in Nat \ {0} : m = 2^h
        BY <1>2
      <3>2. w \in 0..(m - 1) /\ m * 0 + w = w
        BY <3>1
      <3>3. (m * 0 + w) \div m = 0
        BY <3>2, Quotient
      <3>4. QED
        BY <3>1, <3>2, <3>3
    <2>3. QED
      BY <2>1, <2>2 DEF Prefix
  <1>4. Prefix(h, w, h) = w
    <2>1. h - h = 0 /\ 2^0 = 1
      BY DEF Doubling
    <2>2. w \div 1 = w
      BY <1>2
    <2>3. QED
      BY <2>1, <2>2 DEF Prefix
  <1>5. ASSUME NEW l \in 1..h
        PROVE  /\ Side(h, w, l) \in {0, 1} /\ Prefix(h, w, l) \in Nat
               /\ Prefix(h, w, l) = 2 * Prefix(h, w, l - 1) + Side(h, w, l)
    <2>1. h - l \in 0..h /\ h - (l - 1) = (h - l) + 1 /\ h - l \in 0..(h + 1)
      OBVIOUS
    <2>2. 2^(h - l) \in Nat \ {0} /\ 2^(h - (l - 1)) = 2 * 2^(h - l)
      BY <1>1, <2>1 DEF Doubling
    <2>3. PICK m \in Nat \ {0} : m = 2^(h - l)
      BY <2>2
    <2>4. /\ Prefix(h, w, l) = w \div m /\ Side(h, w, l) = (w \div m) % 2
          /\ Prefix(h, w, l - 1) = w \div (2 * m)
      BY <2>2, <2>3 DEF Prefix, Side
    <2>5. w \in Nat
      BY <1>2
    <2>6. /\ w \div m \in Nat /\ (w \div m) % 2 \in {0, 1}
          /\ w \div m = 2 * (w \div (2 * m)) + ((w \div m) % 2)
      BY <2>5, Halves
    <2>7. QED
      BY <2>4, <2>6, Zenon
  <1> DEFINE T == {l \in Nat : l \in 0..h => Prefix(h, w, l) \in 0..(2^l - 1)}
  <1>6. \A l \in Nat : l \in T
    <2>1. 0 \in T
      BY <1>3 DEF Doubling
    <2>2. ASSUME NEW l \in Nat, l \in T PROVE l + 1 \in T
      <3> SUFFICES ASSUME l + 1 \in 0..h PROVE Prefix(h, w, l + 1) \in 0..(2^(l + 1) - 1)
        OBVIOUS
      <3>1. l \in 0..h /\ l + 1 \in 1..h /\ (l + 1) - 1 = l /\ l \in 0..(h + 1)
        OBVIOUS
      <3>2. 2^l \in Nat \ {0} /\ 2^(l + 1) = 2 * 2^l
        BY <1>1, <3>1 DEF Doubling
      <3>3. PICK a, b, s, m : /\ a = Prefix(h, w, l) /\ b = Prefix(h, w, l + 1)
                              /\ s = Side(h, w, l + 1) /\ m = 2^l
        OBVIOUS
      <3>4. s \in {0, 1} /\ b = 2 * a + s /\ b \in Nat
        BY <1>5, <3>1, <3>3
      <3>5. a \in 0..(m - 1) /\ m \in Nat \ {0}
        BY <2>2, <3>1, <3>2, <3>3
      <3>6. b \in 0..(2 * m - 1)
        BY <3>4, <3>5
      <3>7. QED
        BY <3>2, <3>3, <3>6
    <2> HIDE DEF T
    <2>3. QED
      BY <2>1, <2>2, Induct, Zenon
  <1>7. ASSUME NEW l \in 0..h PROVE Prefix(h, w, l) \in 0..(2^l - 1)
    BY <1>6
  <1> HIDE DEF T
  <1>8. QED
    BY <1>3, <1>4, <1>5, <1>7, Zenon

\* Numbers that grow by one turn after the other.
Grows(h, g, r) ==
    g[0] = 0 /\ \A l \in 1..h : r[l] \in {0, 1} /\ g[l] = 2 * g[l - 1] + r[l]

\* They are the prefixes of the last.
LEMMA Descend ==
    ASSUME NEW h \in Nat, NEW g, NEW r, Doubling(h), Grows(h, g, r)
    PROVE  /\ \A l \in 0..h : g[l] \in 0..(2^l - 1)
           /\ \A l \in 0..h : Prefix(h, g[h], l) = g[l]
           /\ \A l \in 1..h : Side(h, g[h], l) = r[l]
  <1>1. \A k \in 0..(h + 1) : 2^k \in Nat \ {0}
    BY Powers
  <1>0. /\ g[0] = 0
        /\ \A l \in 1..h : r[l] \in {0, 1} /\ g[l] = 2 * g[l - 1] + r[l]
    BY DEF Grows
  <1> DEFINE T == {l \in Nat : l \in 0..h => g[l] \in 0..(2^l - 1)}
  <1>2. \A l \in Nat : l \in T
    <2>1. 0 \in T
      BY <1>0 DEF Doubling
    <2>2. ASSUME NEW l \in Nat, l \in T PROVE l + 1 \in T
      <3> SUFFICES ASSUME l + 1 \in 0..h PROVE g[l + 1] \in 0..(2^(l + 1) - 1)
        OBVIOUS
      <3>1. l \in 0..h /\ l + 1 \in 1..h /\ (l + 1) - 1 = l /\ l \in 0..(h + 1)
        OBVIOUS
      <3>2. 2^l \in Nat \ {0} /\ 2^(l + 1) = 2 * 2^l
        BY <1>1, <3>1 DEF Doubling
      <3>3. PICK a, b, s, m : a = g[l] /\ b = g[l + 1] /\ s = r[l + 1] /\ m = 2^l
        OBVIOUS
      <3>4. s \in {0, 1} /\ b = 2 * a + s
        BY <1>0, <3>1, <3>3
      <3>5. a \in 0..(m - 1) /\ m \in Nat \ {0}
        BY <2>2, <3>1, <3>2, <3>3
      <3>6. b \in 0..(2 * m - 1)
        BY <3>4, <3>5
      <3>7. QED
        BY <3>2, <3>3, <3>6
    <2> HIDE DEF T
    <2>3. QED
      BY <2>1, <2>2, Induct, Zenon
  <1>3. ASSUME NEW l \in 0..h PROVE g[l] \in 0..(2^l - 1)
    BY <1>2
  <1> HIDE DEF T
  <1> DEFINE v == g[h]
  <1>4. v \in 0..(2^h - 1) /\ h \in 0..h
    BY <1>3
  <1> HIDE DEF v
  <1>5. /\ Prefix(h, v, h) = v
        /\ \A l \in 0..h : Prefix(h, v, l) \in 0..(2^l - 1)
        /\ \A l \in 1..h : /\ Side(h, v, l) \in {0, 1}
                           /\ Prefix(h, v, l) = 2 * Prefix(h, v, l - 1) + Side(h, v, l)
    BY <1>4, Digits
  <1>6. ASSUME NEW l \in 1..h, Prefix(h, v, l) = g[l]
        PROVE  Prefix(h, v, l - 1) = g[l - 1] /\ Side(h, v, l) = r[l]
    <2>1. l - 1 \in 0..h /\ l - 1 \in 0..(h + 1)
      OBVIOUS
    <2>2. PICK a, b, s, t : /\ a = g[l - 1] /\ b = Prefix(h, v, l - 1)
                            /\ s = r[l] /\ t = Side(h, v, l)
      OBVIOUS
    <2>3. a \in Nat /\ b \in Nat
      <3>1. 2^(l - 1) \in Nat
        BY <1>1, <2>1
      <3>2. QED
        BY <1>3, <1>5, <2>1, <2>2, <3>1
    <2>4. s \in {0, 1} /\ t \in {0, 1} /\ 2 * a + s = 2 * b + t
      BY <1>0, <1>5, <1>6, <2>2, Zenon
    <2>5. a = b /\ s = t
      BY <2>3, <2>4
    <2>6. QED
      BY <2>2, <2>5
  <1> DEFINE U == {k \in Nat : h - k \in 0..h => Prefix(h, v, h - k) = g[h - k]}
  <1>7. \A k \in Nat : k \in U
    <2>1. 0 \in U
      <3>1. h - 0 = h
        OBVIOUS
      <3>2. QED
        BY <1>5, <3>1 DEF v
    <2>2. ASSUME NEW k \in Nat, k \in U PROVE k + 1 \in U
      <3> SUFFICES ASSUME h - (k + 1) \in 0..h
                   PROVE  Prefix(h, v, h - (k + 1)) = g[h - (k + 1)]
        OBVIOUS
      <3>1. h - k \in 1..h /\ h - k \in 0..h /\ h - (k + 1) = (h - k) - 1
        OBVIOUS
      <3>2. Prefix(h, v, h - k) = g[h - k]
        BY <2>2, <3>1
      <3>3. QED
        BY <1>6, <3>1, <3>2, Zenon
    <2> HIDE DEF U
    <2>3. QED
      BY <2>1, <2>2, Induct, Zenon
  <1>8. ASSUME NEW l \in 0..h PROVE Prefix(h, v, l) = g[l]
    <2>1. h - l \in Nat /\ h - (h - l) = l
      OBVIOUS
    <2>2. QED
      BY <1>7, <2>1
  <1>9. ASSUME NEW l \in 1..h PROVE Side(h, v, l) = r[l]
    <2>1. l \in 0..h
      OBVIOUS
    <2>2. QED
      BY <1>6, <1>8, <2>1
  <1> HIDE DEF U
  <1>10. QED
    BY <1>3, <1>8, <1>9, Zenon DEF v

\* A turn leads from a node to one of the two below it.
LEMMA TurnDown ==
    ASSUME NEW m \in Nat \ {0}, NEW a \in 0..(m - 1), NEW x \in {0, 1},
           NEW b, b = 2 * a + x, NEW t, t = (a + m) - 1, NEW u, u = 2 * t + 1 + x
    PROVE  b \in 0..(2 * m - 1) /\ u = (b + 2 * m) - 1
  OBVIOUS

\* The nodes on the way to a way: one on each level, at the place that the turns say.
NodesLie(h, w, v, n) ==
    /\ Node(h, w, 0) = 0
    /\ \A l \in 1..h : Node(h, w, l) = 2 * Node(h, w, l - 1) + 1 + Side(h, w, l)
    /\ \A l \in 0..(h - 1) :
          /\ Node(h, w, l) \in 0..(n - 2)
          /\ Node(h, w, l) = Node(h, v, l) <=> Prefix(h, w, l) = Prefix(h, v, l)
    /\ \A j, l \in 0..(h - 1) : Node(h, w, j) = Node(h, v, l) => j = l

LEMMA Nodes ==
    ASSUME NEW n \in Nat \ {0}, NEW h \in Nat, 2^h = n,
           NEW w \in 0..(n - 1), NEW v \in 0..(n - 1), Doubling(h)
    PROVE  NodesLie(h, w, v, n)
  <1>1. /\ \A k \in 0..(h + 1) : 2^k \in Nat \ {0}
        /\ \A k, l \in 0..(h + 1) : k < l => 2^(k + 1) <= 2^l
    BY Powers
  <1>2. \A x \in {w, v} :
           /\ Prefix(h, x, 0) = 0
           /\ \A l \in 0..h : Prefix(h, x, l) \in 0..(2^l - 1)
           /\ \A l \in 1..h : /\ Side(h, x, l) \in {0, 1}
                              /\ Prefix(h, x, l) = 2 * Prefix(h, x, l - 1) + Side(h, x, l)
    BY Digits
  <1>3. Node(h, w, 0) = 0
    BY <1>2 DEF Node, Doubling
  <1>4. ASSUME NEW l \in 1..h
        PROVE  Node(h, w, l) = 2 * Node(h, w, l - 1) + 1 + Side(h, w, l)
    <2>1. l - 1 \in 0..h /\ (l - 1) + 1 = l /\ l - 1 \in 0..(h + 1)
      OBVIOUS
    <2>2. 2^(l - 1) \in Nat /\ 2^l = 2 * 2^(l - 1)
      BY <1>1, <2>1 DEF Doubling
    <2>3. PICK a, b, s, m : /\ a = Prefix(h, w, l) /\ b = Prefix(h, w, l - 1)
                            /\ s = Side(h, w, l) /\ m = 2^(l - 1)
      OBVIOUS
    <2>4. b \in Nat /\ s \in {0, 1} /\ m \in Nat /\ a = 2 * b + s
      BY <1>2, <2>1, <2>2, <2>3
    <2>5. Node(h, w, l) = (a + 2 * m) - 1 /\ Node(h, w, l - 1) = (b + m) - 1
      BY <2>2, <2>3 DEF Node
    <2>6. QED
      BY <2>3, <2>4, <2>5
  <1>5. ASSUME NEW x \in {w, v}, NEW l \in 0..(h - 1)
        PROVE  /\ Prefix(h, x, l) \in Nat /\ Node(h, x, l) = (Prefix(h, x, l) + 2^l) - 1
               /\ 2^l - 1 <= Node(h, x, l) /\ Node(h, x, l) <= 2^(l + 1) - 2
    <2>1. l \in 0..h /\ l \in 0..(h + 1)
      OBVIOUS
    <2>2. 2^l \in Nat \ {0} /\ 2^(l + 1) = 2 * 2^l
      BY <1>1, <2>1 DEF Doubling
    <2>3. PICK a, m : a = Prefix(h, x, l) /\ m = 2^l
      OBVIOUS
    <2>4. a \in 0..(m - 1) /\ m \in Nat \ {0}
      BY <1>2, <2>1, <2>2, <2>3
    <2>5. Node(h, x, l) = (a + m) - 1
      BY <2>3 DEF Node
    <2>6. m - 1 <= (a + m) - 1 /\ (a + m) - 1 <= 2 * m - 2 /\ a \in Nat
      BY <2>4
    <2>7. QED
      BY <2>2, <2>3, <2>5, <2>6
  <1>6. ASSUME NEW l \in 0..(h - 1)
        PROVE  /\ Node(h, w, l) \in 0..(n - 2)
               /\ Node(h, w, l) = Node(h, v, l) <=> Prefix(h, w, l) = Prefix(h, v, l)
    <2>1. l \in 0..(h + 1) /\ l + 1 \in 0..(h + 1) /\ h \in 0..(h + 1) /\ l < h
      OBVIOUS
    <2>2. 2^(l + 1) <= 2^h /\ 2^l \in Nat \ {0} /\ 2^h \in Nat \ {0} /\ 2^(l + 1) \in Nat
      BY <1>1, <2>1
    <2>3. PICK a, b, c, d, m, k :
            /\ a = Prefix(h, w, l) /\ b = Prefix(h, v, l) /\ c = Node(h, w, l)
            /\ d = Node(h, v, l) /\ m = 2^l /\ k = 2^(l + 1)
      OBVIOUS
    <2>4. /\ a \in Nat /\ b \in Nat /\ c = (a + m) - 1 /\ d = (b + m) - 1
          /\ c <= k - 2 /\ m \in Nat \ {0} /\ n \in Nat /\ k \in Nat /\ k <= n
      BY <1>5, <2>2, <2>3
    <2>5. c \in 0..(n - 2) /\ (c = d <=> a = b)
      BY <2>4
    <2>6. QED
      BY <2>3, <2>5
  <1>7. ASSUME NEW j \in 0..(h - 1), NEW l \in 0..(h - 1), Node(h, w, j) = Node(h, v, l)
        PROVE  j = l
    <2>1. /\ j \in 0..(h + 1) /\ l \in 0..(h + 1) /\ j + 1 \in 0..(h + 1)
          /\ l + 1 \in 0..(h + 1)
      OBVIOUS
    <2>2. PICK c, a, b, d, e :
            c = Node(h, w, j) /\ a = 2^j /\ b = 2^(j + 1) /\ d = 2^l /\ e = 2^(l + 1)
      OBVIOUS
    <2>3. /\ a \in Nat /\ b \in Nat /\ d \in Nat /\ e \in Nat /\ c \in Int
          /\ a - 1 <= c /\ c <= b - 2 /\ d - 1 <= c /\ c <= e - 2
      <3>1. a \in Nat /\ b \in Nat /\ d \in Nat /\ e \in Nat
        BY <1>1, <2>1, <2>2
      <3>2. a - 1 <= c /\ c <= b - 2 /\ d - 1 <= c /\ c <= e - 2
        BY <1>5, <1>7, <2>2
      <3>3. c \in Int
        BY <1>6, <2>2
      <3>4. QED
        BY <3>1, <3>2, <3>3
    <2>4. ~(j < l)
      <3> SUFFICES ASSUME j < l PROVE FALSE
        OBVIOUS
      <3>1. b <= d
        BY <1>1, <2>1, <2>2
      <3>2. QED
        BY <2>3, <3>1
    <2>5. ~(l < j)
      <3> SUFFICES ASSUME l < j PROVE FALSE
        OBVIOUS
      <3>1. e <= a
        BY <1>1, <2>1, <2>2
      <3>2. QED
        BY <2>3, <3>1
    <2>6. QED
      BY <2>4, <2>5
  <1>8. QED
    BY <1>3, <1>4, <1>6, <1>7, Zenon DEF NodesLie

-----------------------------------------------------------------------------
(* Walks down a tree.                                                      *)

\* One step down the tree: the bit remembers the side.
Turn(x, rhs) == [tree_index |-> 2 * x.tree_index + 1 + rhs,
                 bits |-> [x.bits EXCEPT ![x.tree_index] = rhs]]

\* A step of hit, and of miss when it follows the bits given by side or their opposites.
TurnTo(loop, x, level) == Turn(x, (loop.way \div 2^(loop.height - level)) % 2)
TurnBy(loop, x, level) ==
    LET i   == x.tree_index
        rhs == IF loop.side[level] THEN loop.bits[i] ELSE 1 - loop.bits[i]
    IN  [tree_index |-> 2 * i + 1 + rhs, bits |-> [x.bits EXCEPT ![i] = rhs],
         way |-> 2 * x.way + rhs]

\* The bodies of the walks: hit, and miss.
Body(loop, x, e) ==
    CASE loop.name = "hit" -> TurnTo(loop, x, e)
      [] OTHER             -> TurnBy(loop, x, e)

\* The accumulators of the first n steps of a loop.
Runs(g, loop, base, s, n) ==
    g = [i \in 0..n |-> IF i = 0 THEN base ELSE Body(loop, g[i - 1], s[i])]

\* Every walk comes to its end.
LEMMA RunExists ==
    ASSUME NEW loop, NEW base, NEW s
    PROVE  \A n \in Nat : \E g : Runs(g, loop, base, s, n)
  <1> DEFINE T == {n \in Nat : \E g : Runs(g, loop, base, s, n)}
  <1>1. 0 \in T
    <2> DEFINE h == [i \in 0..0 |-> base]
               e(i) == IF i = 0 THEN base ELSE Body(loop, h[i - 1], s[i])
    <2>1. \A i \in 0..0 : e(i) = base
      <3>1. \A i \in 0..0 : i = 0
        OBVIOUS
      <3>2. QED
        BY <3>1, Zenon
    <2>2. h = [i \in 0..0 |-> e(i)]
      <3> HIDE DEF e
      <3>1. QED
        BY <2>1
    <2>3. Runs(h, loop, base, s, 0)
      <3> HIDE DEF h
      <3>1. QED
        BY <2>2, Zenon DEF Runs
    <2>4. QED
      BY <2>3
  <1>2. ASSUME NEW n \in Nat, n \in T PROVE n + 1 \in T
    <2>1. PICK g : Runs(g, loop, base, s, n)
      BY <1>2
    <2> DEFINE d(i) == IF i = 0 THEN base ELSE Body(loop, g[i - 1], s[i])
               h == [i \in 0..(n + 1) |-> d(i)]
               e(i) == IF i = 0 THEN base ELSE Body(loop, h[i - 1], s[i])
    <2>2. ASSUME NEW i \in 0..n PROVE h[i] = g[i]
      <3>1. g[i] = d(i)
        <4>1. g = [j \in 0..n |-> d(j)]
          BY <2>1, Zenon DEF Runs
        <4> HIDE DEF d
        <4>2. QED
          BY <4>1
      <3>2. h[i] = d(i)
        <4>1. i \in 0..(n + 1)
          OBVIOUS
        <4> HIDE DEF d
        <4>2. QED
          BY <4>1
      <3>3. QED
        BY <3>1, <3>2
    <2>3. \A i \in 0..(n + 1) : d(i) = e(i)
      <3> SUFFICES ASSUME NEW i \in 0..(n + 1), i # 0 PROVE h[i - 1] = g[i - 1]
        BY Zenon
      <3>1. i - 1 \in 0..n
        OBVIOUS
      <3>2. QED
        BY <2>2, <3>1
    <2>4. h = [i \in 0..(n + 1) |-> e(i)]
      <3> HIDE DEF d, e
      <3>1. QED
        BY <2>3
    <2>5. Runs(h, loop, base, s, n + 1)
      <3> HIDE DEF h
      <3>1. QED
        BY <2>4, Zenon DEF Runs
    <2>6. QED
      BY <2>5
  <1> HIDE DEF T
  <1>3. \A n \in Nat : n \in T
    BY <1>1, <1>2, Induct
  <1>4. QED
    BY <1>3 DEF T

-----------------------------------------------------------------------------
(* hit and miss of pseudo-LRU.                                             *)

\* The objects of tree-PLRU.
Trees(n) == {p \in [kind : {"PLRU"}, height : Nat, bits : [0..(n - 2) -> {0, 1}]] :
                2^p.height = n /\ Doubling(p.height)}

\* The bit at the node of a level says the side on which a way is.
Toward(p, w, l) == p.bits[Node(p.height, w, l)] = Side(p.height, w, l + 1)

\* q is p with the bits on the way to w turned to w.
Turned(p, q, w) ==
    /\ q = [kind |-> "PLRU", height |-> p.height, bits |-> q.bits]
    /\ DOMAIN q.bits = DOMAIN p.bits
    /\ \A l \in 0..(p.height - 1) : Toward(q, w, l)
    /\ \A i \in DOMAIN p.bits :
          (\A l \in 0..(p.height - 1) : i # Node(p.height, w, l)) => q.bits[i] = p.bits[i]

\* The fields of a tree.
LEMMA TreeFields ==
    ASSUME NEW n \in Nat \ {0}, NEW p \in Trees(n)
    PROVE  /\ p = [kind |-> "PLRU", height |-> p.height, bits |-> p.bits]
           /\ p.kind = "PLRU" /\ p.height \in Nat /\ 2^p.height = n /\ Doubling(p.height)
           /\ p.bits \in [0..(n - 2) -> {0, 1}] /\ DOMAIN p.bits = 0..(n - 2)
  BY DEF Trees

\* Turning all bits on the way to a way one after the other.
LEMMA WalkTurns ==
    ASSUME NEW n \in Nat \ {0}, NEW p \in Trees(n), NEW w \in 0..(n - 1), NEW F,
           F[0] = [tree_index |-> 0, bits |-> p.bits],
           \A l \in 1..p.height : F[l] = Turn(F[l - 1], Side(p.height, w, l)),
           NEW q, q = [p EXCEPT !.bits = F[p.height].bits]
    PROVE  q \in Trees(n) /\ Turned(p, q, w)
  <1> DEFINE h == p.height
             D == 0..(n - 2)
  <1>1. /\ p = [kind |-> "PLRU", height |-> h, bits |-> p.bits]
        /\ h \in Nat /\ 2^h = n /\ Doubling(h) /\ p.bits \in [D -> {0, 1}]
    BY TreeFields
  <1>2. \A l \in 1..h : F[l] = Turn(F[l - 1], Side(h, w, l))
    OBVIOUS
  <1>3. q = [kind |-> "PLRU", height |-> h, bits |-> F[h].bits]
    BY <1>1
  <1> HIDE DEF h
  <1>4. /\ Node(h, w, 0) = 0
        /\ \A l \in 1..h : Node(h, w, l) = 2 * Node(h, w, l - 1) + 1 + Side(h, w, l)
        /\ \A l \in 0..(h - 1) : Node(h, w, l) \in D
        /\ \A j, l \in 0..(h - 1) : Node(h, w, j) = Node(h, w, l) => j = l
    <2>1. NodesLie(h, w, w, n)
      BY <1>1, Nodes
    <2>2. QED
      BY <2>1, Zenon DEF NodesLie, D
  <1>5. \A l \in 1..h : Side(h, w, l) \in {0, 1}
    <2>1. w \in 0..(2^h - 1)
      BY <1>1
    <2>2. QED
      BY <1>1, <2>1, Digits
  <1> DEFINE Good(l) == /\ F[l].tree_index = Node(h, w, l)
                        /\ F[l].bits \in [D -> {0, 1}]
                        /\ \A j \in 0..(l - 1) : F[l].bits[Node(h, w, j)] = Side(h, w, j + 1)
                        /\ \A i \in D : (\A j \in 0..(l - 1) : i # Node(h, w, j))
                                            => F[l].bits[i] = p.bits[i]
             T == {l \in Nat : l \in 0..h => Good(l)}
  <1>6. 0 \in T
    <2>1. F[0].tree_index = 0 /\ F[0].bits = p.bits
      OBVIOUS
    <2>2. Good(0)
      BY <1>1, <1>4, <2>1
    <2> HIDE DEF Good
    <2>3. QED
      BY <2>2
  <1>7. ASSUME NEW l \in Nat, l \in T PROVE l + 1 \in T
    <2> SUFFICES ASSUME l + 1 \in 0..h PROVE Good(l + 1)
      OBVIOUS
    <2>1. /\ l \in 0..h /\ l + 1 \in 1..h /\ (l + 1) - 1 = l /\ l \in 0..(h - 1)
          /\ 0..((l + 1) - 1) = (0..(l - 1)) \cup {l} /\ 0..(l - 1) \subseteq 0..(h - 1)
          /\ l \notin 0..(l - 1)
      BY <1>1
    <2>2. Good(l)
      BY <1>7, <2>1
    <2>3. PICK x, y, s, i, k : /\ x = F[l] /\ y = F[l + 1] /\ s = Side(h, w, l + 1)
                               /\ i = Node(h, w, l) /\ k = Node(h, w, l + 1)
      OBVIOUS
    <2>4. y = Turn(x, s)
      BY <1>2, <2>1, <2>3, Zenon
    <2>5. x.tree_index = i /\ x.bits \in [D -> {0, 1}] /\ s \in {0, 1} /\ i \in D
      BY <1>4, <1>5, <2>1, <2>2, <2>3, Zenon
    <2>6. y.tree_index = 2 * i + 1 + s /\ y.bits = [x.bits EXCEPT ![i] = s]
      BY <2>4, <2>5 DEF Turn
    <2>7. k = 2 * i + 1 + s
      BY <1>4, <2>1, <2>3, Zenon
    <2> HIDE DEF D
    <2>8. /\ y.bits \in [D -> {0, 1}] /\ y.bits[i] = s
          /\ \A d \in D : d # i => y.bits[d] = x.bits[d]
      BY <2>5, <2>6
    <2>9. ASSUME NEW j \in 0..((l + 1) - 1) PROVE y.bits[Node(h, w, j)] = Side(h, w, j + 1)
      <3>1. CASE j = l
        BY <2>3, <2>8, <3>1, Zenon
      <3>2. CASE j \in 0..(l - 1)
        <4>1. j \in 0..(h - 1) /\ j # l
          BY <2>1, <3>2, Zenon
        <4>2. Node(h, w, j) # i /\ Node(h, w, j) \in D
          BY <1>4, <2>1, <2>3, <4>1, Zenon
        <4>3. x.bits[Node(h, w, j)] = Side(h, w, j + 1)
          BY <2>2, <2>3, <3>2, Zenon
        <4>4. QED
          BY <2>8, <4>2, <4>3, Zenon
      <3>3. QED
        BY <2>1, <3>1, <3>2, Zenon
    <2>10. ASSUME NEW d \in D, \A j \in 0..((l + 1) - 1) : d # Node(h, w, j)
           PROVE  y.bits[d] = p.bits[d]
      <3>1. d # i /\ \A j \in 0..(l - 1) : d # Node(h, w, j)
        BY <2>1, <2>3, <2>10, Zenon
      <3>2. x.bits[d] = p.bits[d]
        BY <2>2, <2>3, <3>1, Zenon
      <3>3. QED
        BY <2>8, <3>1, <3>2, Zenon
    <2>11. F[l + 1].tree_index = Node(h, w, l + 1)
      BY <2>3, <2>6, <2>7, Zenon
    <2>12. QED
      BY <2>3, <2>8, <2>9, <2>10, <2>11, Zenon
  <1> HIDE DEF T
  <1>8. \A l \in Nat : l \in T
    BY <1>6, <1>7, Induct, Zenon
  <1>9. Good(h)
    <2>1. h \in 0..h
      BY <1>1
    <2> HIDE DEF Good
    <2>2. QED
      BY <1>1, <1>8, <2>1 DEF T
  <1>10. q.bits = F[h].bits /\ q.height = h /\ q.kind = "PLRU"
    BY <1>3
  <1>11. q \in Trees(n)
    <2>1. q.bits \in [D -> {0, 1}]
      BY <1>9, <1>10, Zenon
    <2>2. q = [kind |-> "PLRU", height |-> h, bits |-> q.bits]
      BY <1>3, <1>10, Zenon
    <2>3. QED
      BY <1>1, <1>10, <2>1, <2>2 DEF Trees
  <1>12. DOMAIN p.bits = D /\ DOMAIN q.bits = D
    BY <1>1, <1>9, <1>10
  <1>13. \A l \in 0..(h - 1) : Toward(q, w, l)
    BY <1>9, <1>10, Zenon DEF Toward
  <1>14. ASSUME NEW i \in D, \A l \in 0..(h - 1) : i # Node(h, w, l)
         PROVE  q.bits[i] = p.bits[i]
    BY <1>9, <1>10, <1>14, Zenon
  <1>15. QED
    <2>1. q = [kind |-> "PLRU", height |-> h, bits |-> q.bits]
      BY <1>3, <1>10, Zenon
    <2> HIDE DEF Good, D
    <2>2. Turned(p, q, w)
      BY <1>12, <1>13, <1>14, <2>1, Zenon DEF Turned, h
    <2>3. QED
      BY <1>11, <2>2

\* The steps of a walk that follows the bits, or their opposites.
Follows(F, loop, h) ==
    /\ F[0] = [tree_index |-> 0, bits |-> loop.bits, way |-> 0]
    /\ \A l \in 1..h : F[l] = TurnBy(loop, F[l - 1], l)

\* Where it leads.
Leads(p, loop, n, v, q) ==
    /\ v \in 0..(n - 1)
    /\ \A l \in 0..(p.height - 1) : Toward(p, v, l) <=> loop.side[l + 1]
    /\ q \in Trees(n) /\ Turned(p, q, v)

\* Following the bits, or their opposites, down to a way and turning them.
LEMMA WalkFinds ==
    ASSUME NEW n \in Nat \ {0}, NEW p \in Trees(n), NEW loop, loop.bits = p.bits,
           loop.side \in [1..p.height -> BOOLEAN], NEW F, Follows(F, loop, p.height)
    PROVE  Leads(p, loop, n, F[p.height].way, [p EXCEPT !.bits = F[p.height].bits])
  <1> DEFINE h == p.height
             side == loop.side
             D == 0..(n - 2)
             v == F[h].way
             q == [p EXCEPT !.bits = F[p.height].bits]
             r == [l \in 1..h |-> IF side[l] THEN p.bits[F[l - 1].tree_index]
                                  ELSE 1 - p.bits[F[l - 1].tree_index]]
             g == [l \in 0..h |-> F[l].way]
             G == [l \in 0..h |-> [tree_index |-> F[l].tree_index, bits |-> F[l].bits]]
  <1>1. h \in Nat /\ 2^h = n /\ Doubling(h) /\ p.bits \in [D -> {0, 1}]
    BY TreeFields
  <1>2. /\ \A k \in 0..(h + 1) : 2^k \in Nat \ {0}
        /\ \A k, l \in 0..(h + 1) : k < l => 2^(k + 1) <= 2^l
    <2> HIDE DEF h
    <2>1. QED
      BY <1>1, Powers
  <1>0. /\ F[0] = [tree_index |-> 0, bits |-> p.bits, way |-> 0]
        /\ \A l \in 1..h : F[l] = TurnBy(loop, F[l - 1], l)
    BY DEF Follows
  <1>3. ASSUME NEW l \in 1..h
        PROVE  /\ F[l].tree_index = 2 * F[l - 1].tree_index + 1 + r[l]
               /\ F[l].bits = [F[l - 1].bits EXCEPT ![F[l - 1].tree_index] = r[l]]
               /\ F[l].way = 2 * F[l - 1].way + r[l]
    <2>1. F[l] = TurnBy(loop, F[l - 1], l)
      BY <1>0
    <2>2. r[l] = IF loop.side[l] THEN loop.bits[F[l - 1].tree_index]
                 ELSE 1 - loop.bits[F[l - 1].tree_index]
      OBVIOUS
    <2> HIDE DEF r, h
    <2>3. F[l] = [tree_index |-> 2 * F[l - 1].tree_index + 1 + r[l],
                  bits |-> [F[l - 1].bits EXCEPT ![F[l - 1].tree_index] = r[l]],
                  way |-> 2 * F[l - 1].way + r[l]]
      BY <2>1, <2>2, Zenon DEF TurnBy
    <2>4. QED
      BY <2>3
  <1>4. ASSUME NEW l \in 1..h
        PROVE  r[l] = IF side[l] THEN p.bits[F[l - 1].tree_index]
                      ELSE 1 - p.bits[F[l - 1].tree_index]
    OBVIOUS
  <1>5. F[0].tree_index = 0 /\ F[0].way = 0 /\ F[0].bits = p.bits
    BY <1>0
  <1> DEFINE Ok(l) == F[l].way \in 0..(2^l - 1) /\ F[l].tree_index = (F[l].way + 2^l) - 1
  <1> HIDE DEF h, r, G, g, v, q, D, side
  <1>6. ASSUME NEW l \in 0..(h - 1), Ok(l)
        PROVE  F[l].tree_index \in D /\ r[l + 1] \in {0, 1}
    <2>1. /\ l \in 0..(h + 1) /\ h \in 0..(h + 1) /\ l < h /\ l \in 0..h /\ l + 1 \in 1..h
          /\ (l + 1) - 1 = l
      BY <1>1
    <2>2. 2^l \in Nat \ {0} /\ 2^(l + 1) = 2 * 2^l /\ 2^(l + 1) <= 2^h
      BY <1>1, <1>2, <2>1 DEF Doubling
    <2>3. PICK a, m, t : a = F[l].way /\ m = 2^l /\ t = F[l].tree_index
      OBVIOUS
    <2>4. a \in 0..(m - 1) /\ t = (a + m) - 1 /\ m \in Nat \ {0} /\ 2 * m <= n
      BY <1>1, <1>6, <2>2, <2>3
    <2>5. t \in D
      BY <2>4 DEF D
    <2>6. p.bits[t] \in {0, 1}
      BY <1>1, <2>5
    <2>7. r[l + 1] = IF side[l + 1] THEN p.bits[t] ELSE 1 - p.bits[t]
      BY <1>4, <2>1, <2>3, Zenon
    <2>8. QED
      BY <2>3, <2>5, <2>6, <2>7
  <1> DEFINE T == {l \in Nat : l \in 0..h => Ok(l)}
  <1>7. 0 \in T
    BY <1>1, <1>5 DEF Doubling
  <1>8. ASSUME NEW l \in Nat, l \in T PROVE l + 1 \in T
    <2> SUFFICES ASSUME l + 1 \in 0..h PROVE Ok(l + 1)
      OBVIOUS
    <2>1. /\ l \in 0..h /\ l + 1 \in 1..h /\ (l + 1) - 1 = l /\ l \in 0..(h - 1)
          /\ l \in 0..(h + 1)
      BY <1>1
    <2>2. Ok(l)
      BY <1>8, <2>1
    <2>3. F[l].tree_index \in D /\ r[l + 1] \in {0, 1}
      BY <1>6, <2>1, <2>2
    <2>4. 2^l \in Nat \ {0} /\ 2^(l + 1) = 2 * 2^l
      BY <1>1, <1>2, <2>1 DEF Doubling
    <2>5. PICK a, b, m, t, u, x : /\ a = F[l].way /\ b = F[l + 1].way /\ m = 2^l /\ x = r[l + 1]
                                  /\ t = F[l].tree_index /\ u = F[l + 1].tree_index
      OBVIOUS
    <2>6. u = 2 * t + 1 + x /\ b = 2 * a + x
      BY <1>3, <2>1, <2>5, Zenon
    <2>7. a \in 0..(m - 1) /\ t = (a + m) - 1 /\ m \in Nat \ {0} /\ x \in {0, 1}
      BY <2>2, <2>3, <2>4, <2>5
    <2>8. b \in 0..(2 * m - 1) /\ u = (b + 2 * m) - 1
      BY <2>6, <2>7, TurnDown
    <2>9. QED
      BY <2>4, <2>5, <2>8
  <1> HIDE DEF T
  <1>9. \A l \in Nat : l \in T
    BY <1>7, <1>8, Induct, Zenon
  <1>10. ASSUME NEW l \in 0..h PROVE Ok(l)
    <2>1. l \in Nat
      OBVIOUS
    <2> HIDE DEF Ok
    <2>2. QED
      BY <1>9, <2>1 DEF T
  <1>11. ASSUME NEW l \in 1..h PROVE r[l] \in {0, 1} /\ F[l - 1].tree_index \in D
    <2>1. l - 1 \in 0..(h - 1) /\ l - 1 \in 0..h /\ (l - 1) + 1 = l
      BY <1>1
    <2> HIDE DEF Ok
    <2>2. QED
      BY <1>6, <1>10, <2>1
  <1>12. Grows(h, g, r)
    <2>1. \A l \in 0..h : g[l] = F[l].way
      BY DEF g
    <2>2. 0 \in 0..h /\ \A l \in 1..h : l \in 0..h /\ l - 1 \in 0..h
      BY <1>1
    <2>3. QED
      BY <1>3, <1>5, <1>11, <2>1, <2>2, Zenon DEF Grows
  <1>13. h \in 0..h /\ g[h] = v
    BY <1>1 DEF g, v
  <1>14. /\ v \in 0..(n - 1)
         /\ \A l \in 0..h : Prefix(h, v, l) = g[l]
         /\ \A l \in 1..h : Side(h, v, l) = r[l]
    <2>1. /\ \A l \in 0..h : g[l] \in 0..(2^l - 1)
          /\ \A l \in 0..h : Prefix(h, g[h], l) = g[l]
          /\ \A l \in 1..h : Side(h, g[h], l) = r[l]
      BY <1>1, <1>12, Descend
    <2>2. QED
      BY <1>1, <1>13, <2>1
  <1>15. ASSUME NEW l \in 0..h PROVE Node(h, v, l) = F[l].tree_index
    <2>1. Prefix(h, v, l) = F[l].way
      BY <1>14 DEF g
    <2>2. Ok(l)
      BY <1>10
    <2>3. QED
      BY <2>1, <2>2, Zenon DEF Node
  <1>16. ASSUME NEW l \in 0..(h - 1) PROVE Toward(p, v, l) <=> side[l + 1]
    <2>1. l \in 0..h /\ l + 1 \in 1..h /\ (l + 1) - 1 = l
      BY <1>1
    <2>2. PICK t : t = F[l].tree_index
      OBVIOUS
    <2>3. t \in D /\ r[l + 1] = IF side[l + 1] THEN p.bits[t] ELSE 1 - p.bits[t]
      BY <1>4, <1>11, <2>1, <2>2, Zenon
    <2>4. p.bits[t] \in {0, 1}
      BY <1>1, <2>3
    <2>5. side[l + 1] \in BOOLEAN
      BY <2>1 DEF h, side
    <2>6. Node(h, v, l) = t /\ Side(h, v, l + 1) = r[l + 1]
      BY <1>14, <1>15, <2>1, <2>2, Zenon
    <2>7. Toward(p, v, l) <=> p.bits[t] = r[l + 1]
      BY <2>6, Zenon DEF Toward, h
    <2>8. p.bits[t] = r[l + 1] <=> side[l + 1]
      BY <2>3, <2>4, <2>5
    <2>9. QED
      BY <2>7, <2>8
  <1>17. q \in Trees(n) /\ Turned(p, q, v)
    <2>1. \A l \in 0..h : G[l] = [tree_index |-> F[l].tree_index, bits |-> F[l].bits]
      BY DEF G
    <2>2. G[0] = [tree_index |-> 0, bits |-> p.bits]
      <3>1. 0 \in 0..h
        BY <1>1
      <3>2. QED
        BY <1>5, <2>1, <3>1, Zenon
    <2>3. ASSUME NEW l \in 1..h PROVE G[l] = Turn(G[l - 1], Side(h, v, l))
      <3>1. l \in 0..h /\ l - 1 \in 0..h
        BY <1>1
      <3>2. Side(h, v, l) = r[l]
        BY <1>14
      <3>3. PICK x : x = G[l - 1]
        OBVIOUS
      <3>4. x.tree_index = F[l - 1].tree_index /\ x.bits = F[l - 1].bits
        <4>1. PICK a, b : a = F[l - 1].tree_index /\ b = F[l - 1].bits
          OBVIOUS
        <4>2. x = [tree_index |-> a, bits |-> b]
          BY <2>1, <3>1, <3>3, <4>1, Zenon
        <4>3. x.tree_index = a /\ x.bits = b
          BY <4>2
        <4>4. QED
          BY <4>1, <4>3
      <3>5. Turn(x, r[l]) = [tree_index |-> F[l].tree_index, bits |-> F[l].bits]
        BY <1>3, <3>4, Zenon DEF Turn
      <3>6. QED
        BY <2>1, <3>1, <3>2, <3>3, <3>5, Zenon
    <2>4. q = [p EXCEPT !.bits = G[h].bits]
      <3>1. G[h].bits = F[h].bits
        <4>1. PICK a, b : a = F[h].tree_index /\ b = F[h].bits
          OBVIOUS
        <4>2. G[h] = [tree_index |-> a, bits |-> b]
          BY <1>13, <2>1, <4>1, Zenon
        <4>3. G[h].bits = b
          BY <4>2
        <4>4. QED
          BY <4>1, <4>3
      <3>2. QED
        BY <3>1, Zenon DEF q, h
    <2>5. QED
      BY <1>14, <2>2, <2>3, <2>4, WalkTurns DEF h
  <1>18. QED
    BY <1>14, <1>16, <1>17, Zenon DEF h, v, q, side, Leads

\* hit turns the bits to the way.
LEMMA TreeHit ==
    ASSUME NEW n \in Nat \ {0}, NEW p \in Trees(n), NEW w \in 0..(n - 1)
    PROVE  Hit(p, w) \in Trees(n) /\ Turned(p, Hit(p, w), w)
  <1> DEFINE h == p.height
             loop == [name |-> "hit", way |-> w, height |-> h]
             base == [tree_index |-> 0, bits |-> p.bits]
             s == [l \in 1..h |-> l]
             Step(x, l) == LET rhs == (w \div 2^(h - l)) % 2
                               i   == x.tree_index
                           IN  [tree_index |-> 2 * i + 1 + rhs,
                                bits       |-> [x.bits EXCEPT ![i] = rhs]]
             P(f) == f = [l \in 0..h |-> IF l = 0 THEN base ELSE Step(f[l - 1], l)]
             F == CHOOSE f : P(f)
  <1>1. p.kind = "PLRU" /\ h \in Nat
    BY TreeFields
  <1>2. Hit(p, w) = PlruHit(p, w)
    BY <1>1 DEF Hit, FlatHit
  <1>3. PlruHit(p, w) = [p EXCEPT !.bits = F[h].bits]
    BY Zenon DEF PlruHit
  <1>4. \A x, l : Step(x, l) = Turn(x, Side(h, w, l)) /\ Body(loop, x, l) = Step(x, l)
    BY DEF Turn, Side, Body, TurnTo
  <1>5. \A l \in 1..h : s[l] = l
    OBVIOUS
  <1>6. \A l \in 0..h : l = 0 \/ l \in 1..h
    BY <1>1
  <1> HIDE DEF Step, base, s, loop
  <1>7. PICK g : Runs(g, loop, base, s, h)
    BY <1>1, RunExists DEF h
  <1> HIDE DEF h
  <1>8. P(g)
    <2> DEFINE d(l) == IF l = 0 THEN base ELSE Body(loop, g[l - 1], s[l])
               e(l) == IF l = 0 THEN base ELSE Step(g[l - 1], l)
    <2>1. g = [l \in 0..h |-> d(l)]
      BY <1>7, Zenon DEF Runs
    <2>2. \A l \in 0..h : d(l) = e(l)
      BY <1>4, <1>5, <1>6, Zenon
    <2> HIDE DEF d, e
    <2>3. g = [l \in 0..h |-> e(l)]
      BY <2>1, <2>2
    <2>4. QED
      BY <2>3, Zenon DEF e
  <1>9. P(F)
    <2> HIDE DEF P
    <2>1. QED
      BY <1>8, Zenon
  <1> HIDE DEF F
  <1>10. F[0] = base /\ \A l \in 1..h : F[l] = Turn(F[l - 1], Side(h, w, l))
    <2> DEFINE e(l) == IF l = 0 THEN base ELSE Step(F[l - 1], l)
    <2>1. F = [l \in 0..h |-> e(l)]
      BY <1>9, Zenon
    <2>2. \A l \in 0..h : F[l] = e(l)
      <3> HIDE DEF e
      <3>1. QED
        BY <2>1
    <2>3. 0 \in 0..h /\ \A l \in 1..h : l \in 0..h /\ l # 0
      BY <1>1
    <2>4. QED
      BY <1>4, <2>2, <2>3, Zenon
  <1>11. QED
    BY <1>2, <1>3, <1>10, WalkTurns DEF h, base

\* A walk as its function.
Walk(loop, h) ==
    CHOOSE f : f = [l \in 0..h |->
        IF l = 0 THEN [tree_index |-> 0, bits |-> loop.bits, way |-> 0]
        ELSE TurnBy(loop, f[l - 1], l)]

\* Every walk comes to its end.
LEMMA WalkRuns ==
    ASSUME NEW h \in Nat, NEW loop, loop.name = "miss"
    PROVE  Follows(Walk(loop, h), loop, h)
  <1> DEFINE s == [l \in 1..h |-> l]
             base == [tree_index |-> 0, bits |-> loop.bits, way |-> 0]
             P(f) == f = [l \in 0..h |-> IF l = 0 THEN base ELSE TurnBy(loop, f[l - 1], l)]
             F == Walk(loop, h)
  <1>1. \A x, l : Body(loop, x, l) = TurnBy(loop, x, l)
    BY DEF Body
  <1>2. \A l \in 1..h : s[l] = l
    OBVIOUS
  <1>3. \A l \in 0..h : l = 0 \/ l \in 1..h
    OBVIOUS
  <1>4. F = CHOOSE f : P(f)
    BY Zenon DEF Walk
  <1> HIDE DEF s, base, F
  <1>5. PICK g : Runs(g, loop, base, s, h)
    BY RunExists
  <1>6. P(g)
    <2> DEFINE d(l) == IF l = 0 THEN base ELSE Body(loop, g[l - 1], s[l])
               e(l) == IF l = 0 THEN base ELSE TurnBy(loop, g[l - 1], l)
    <2>1. g = [l \in 0..h |-> d(l)]
      BY <1>5, Zenon DEF Runs
    <2>2. \A l \in 0..h : d(l) = e(l)
      BY <1>1, <1>2, <1>3, Zenon
    <2> HIDE DEF d, e
    <2>3. g = [l \in 0..h |-> e(l)]
      BY <2>1, <2>2
    <2>4. QED
      BY <2>3, Zenon DEF e
  <1>7. P(F)
    <2> HIDE DEF P
    <2>1. QED
      BY <1>4, <1>6, Zenon
  <1>8. F[0] = base /\ \A l \in 1..h : F[l] = TurnBy(loop, F[l - 1], l)
    <2> DEFINE e(l) == IF l = 0 THEN base ELSE TurnBy(loop, F[l - 1], l)
    <2>1. F = [l \in 0..h |-> e(l)]
      BY <1>7, Zenon
    <2>2. \A l \in 0..h : F[l] = e(l)
      <3> HIDE DEF e
      <3>1. QED
        BY <2>1
    <2>3. 0 \in 0..h /\ \A l \in 1..h : l \in 0..h /\ l # 0
      OBVIOUS
    <2>4. QED
      BY <2>2, <2>3, Zenon
  <1>9. QED
    BY <1>8, Zenon DEF F, base, Follows

\* miss takes the way that no bit is turned to, and turns them to it.
LEMMA TreeMiss ==
    ASSUME NEW n \in Nat \ {0}, NEW p \in Trees(n)
    PROVE  /\ Miss(p).way \in 0..(n - 1)
           /\ \A l \in 0..(p.height - 1) : ~Toward(p, Miss(p).way, l)
           /\ Miss(p).policy \in Trees(n) /\ Turned(p, Miss(p).policy, Miss(p).way)
  <1> DEFINE h == p.height
             loop == [name |-> "miss", side |-> [l \in 1..h |-> FALSE], bits |-> p.bits]
             base == [tree_index |-> 0, bits |-> p.bits, way |-> 0]
             Step(x) == LET i   == x.tree_index
                            rhs == 1 - p.bits[i]
                        IN  [tree_index |-> 2 * i + 1 + rhs, bits |-> [x.bits EXCEPT ![i] = rhs],
                             way |-> 2 * x.way + rhs]
             P(f) == f = [l \in 0..h |-> IF l = 0 THEN base ELSE Step(f[l - 1])]
             Q(f) == f = [l \in 0..h |-> IF l = 0 THEN base ELSE TurnBy(loop, f[l - 1], l)]
             F == CHOOSE f : P(f)
             G == Walk(loop, h)
  <1>1. p.kind = "PLRU" /\ h \in Nat
    BY TreeFields
  <1>2. Miss(p) = PlruMiss(p)
    BY <1>1 DEF Miss, FlatMiss
  <1>3. PlruMiss(p) = [policy |-> [p EXCEPT !.bits = F[h].bits], way |-> F[h].way]
    BY Zenon DEF PlruMiss
  <1>4. /\ loop.name = "miss" /\ loop.bits = p.bits
        /\ loop.side = [l \in 1..h |-> FALSE] /\ loop.side \in [1..h -> BOOLEAN]
    OBVIOUS
  <1>5. \A x : \A l \in 1..h : TurnBy(loop, x, l) = Step(x)
    <2>1. \A l \in 1..h : loop.side[l] = FALSE
      OBVIOUS
    <2> HIDE DEF loop
    <2>2. QED
      BY <1>4, <2>1, Zenon DEF TurnBy
  <1>6. \A l \in 0..h : l = 0 \/ l \in 1..h
    BY <1>1
  <1> HIDE DEF Step, loop, h
  <1>7. Follows(G, loop, h)
    BY <1>1, <1>4, WalkRuns
  <1>8. G = CHOOSE f : Q(f)
    BY <1>4, Zenon DEF Walk
  <1> HIDE DEF base, G
  <1>9. F = G
    <2>1. ASSUME NEW f PROVE P(f) <=> Q(f)
      <3> DEFINE d(l) == IF l = 0 THEN base ELSE Step(f[l - 1])
                 e(l) == IF l = 0 THEN base ELSE TurnBy(loop, f[l - 1], l)
      <3>1. \A l \in 0..h : d(l) = e(l)
        BY <1>5, <1>6, Zenon
      <3> HIDE DEF d, e
      <3>2. [l \in 0..h |-> d(l)] = [l \in 0..h |-> e(l)]
        BY <3>1
      <3>3. QED
        BY <3>2, Zenon DEF d, e
    <2> HIDE DEF P, Q
    <2>2. QED
      BY <1>8, <2>1, Zenon
  <1> HIDE DEF F
  <1>10. Leads(p, loop, n, G[h].way, [p EXCEPT !.bits = G[h].bits])
    BY <1>4, <1>7, WalkFinds DEF h
  <1>11. \A l \in 0..(h - 1) : ~loop.side[l + 1]
    <2>1. \A l \in 0..(h - 1) : l + 1 \in 1..h
      BY <1>1
    <2>2. QED
      BY <1>4, <2>1
  <1>12. /\ Miss(p).way = G[h].way
         /\ Miss(p).policy = [p EXCEPT !.bits = G[h].bits]
    BY <1>2, <1>3, <1>9
  <1>13. QED
    BY <1>10, <1>11, <1>12, Zenon DEF h, Leads

\* For every choice of sides there is a way.
LEMMA TreeFind ==
    ASSUME NEW n \in Nat \ {0}, NEW p \in Trees(n), NEW side \in [1..p.height -> BOOLEAN]
    PROVE  \E v \in 0..(n - 1) : \A l \in 0..(p.height - 1) : Toward(p, v, l) <=> side[l + 1]
  <1> DEFINE loop == [name |-> "miss", side |-> side, bits |-> p.bits]
             F == Walk(loop, p.height)
  <1>1. p.height \in Nat
    BY TreeFields
  <1>2. loop.name = "miss" /\ loop.bits = p.bits /\ loop.side = side
    OBVIOUS
  <1> HIDE DEF loop
  <1>3. Follows(F, loop, p.height)
    BY <1>1, <1>2, WalkRuns
  <1>4. Leads(p, loop, n, F[p.height].way, [p EXCEPT !.bits = F[p.height].bits])
    BY <1>2, <1>3, WalkFinds
  <1>5. QED
    BY <1>2, <1>4, Zenon DEF Leads

\* How far two ways go together is how far they are on the same side of the bits.
Together(p, h, x, y, l) ==
    Prefix(h, x, l) = Prefix(h, y, l)
       <=> \A j \in 0..(l - 1) : Toward(p, x, j) <=> Toward(p, y, j)

\* Ways that have come to the same node part there or go on to the same node.
Parting(h, x, y, l) ==
    Prefix(h, x, l) = Prefix(h, y, l) =>
      (/\ Node(h, x, l) = Node(h, y, l)
       /\ Prefix(h, x, l + 1) = Prefix(h, y, l + 1)
            <=> Side(h, x, l + 1) = Side(h, y, l + 1))

LEMMA Shared ==
    ASSUME NEW n \in Nat \ {0}, NEW h, NEW p \in Trees(n), p.height = h,
           NEW x \in 0..(n - 1), NEW y \in 0..(n - 1)
    PROVE  /\ \A l \in 0..h : Together(p, h, x, y, l)
           /\ Together(p, h, x, y, h) => (Prefix(h, x, h) = Prefix(h, y, h) <=> x = y)
           /\ \A l \in 0..(h - 1) : Parting(h, x, y, l)
  <1>1. h \in Nat /\ 2^h = n /\ Doubling(h) /\ p.bits \in [0..(n - 2) -> {0, 1}]
    BY TreeFields
  <1>2. x \in 0..(2^h - 1) /\ y \in 0..(2^h - 1)
    BY <1>1
  <1>3. \A z \in {x, y} :
           /\ Prefix(h, z, 0) = 0 /\ Prefix(h, z, h) = z
           /\ \A l \in 0..h : Prefix(h, z, l) \in 0..(2^l - 1)
           /\ \A l \in 1..h : /\ Side(h, z, l) \in {0, 1}
                              /\ Prefix(h, z, l) = 2 * Prefix(h, z, l - 1) + Side(h, z, l)
    BY <1>1, <1>2, Digits
  <1>4. \A k \in 0..(h + 1) : 2^k \in Nat \ {0}
    BY <1>1, Powers
  <1>5. ASSUME NEW l \in 0..(h - 1)
        PROVE  /\ Prefix(h, x, l + 1) = Prefix(h, y, l + 1)
                    <=> Prefix(h, x, l) = Prefix(h, y, l) /\ Side(h, x, l + 1) = Side(h, y, l + 1)
               /\ Side(h, x, l + 1) \in {0, 1} /\ Side(h, y, l + 1) \in {0, 1}
    <2>1. l \in 0..h /\ l + 1 \in 1..h /\ (l + 1) - 1 = l /\ l \in 0..(h + 1)
      BY <1>1
    <2>2. PICK a, b, c, d, s, t : /\ a = Prefix(h, x, l) /\ b = Prefix(h, y, l)
                                  /\ c = Prefix(h, x, l + 1) /\ d = Prefix(h, y, l + 1)
                                  /\ s = Side(h, x, l + 1) /\ t = Side(h, y, l + 1)
      OBVIOUS
    <2>3. /\ c = 2 * a + s /\ d = 2 * b + t /\ s \in {0, 1} /\ t \in {0, 1}
      BY <1>3, <2>1, <2>2, Zenon
    <2>4. a \in Nat /\ b \in Nat
      <3>1. 2^l \in Nat
        BY <1>4, <2>1
      <3>2. a \in 0..(2^l - 1) /\ b \in 0..(2^l - 1)
        BY <1>3, <2>1, <2>2, Zenon
      <3>3. QED
        BY <3>1, <3>2
    <2>5. c = d <=> a = b /\ s = t
      BY <2>3, <2>4
    <2>6. QED
      BY <2>2, <2>3, <2>5
  <1>6. ASSUME NEW l \in 0..(h - 1)
        PROVE  /\ Prefix(h, x, l) = Prefix(h, y, l) => Node(h, x, l) = Node(h, y, l)
               /\ Node(h, x, l) \in 0..(n - 2)
    <2>1. NodesLie(h, x, y, n)
      BY <1>1, Nodes
    <2>2. QED
      BY <2>1, Zenon DEF NodesLie
  <1> DEFINE T == {l \in Nat : l \in 0..h => Together(p, h, x, y, l)}
  <1>7. 0 \in T
    <2>1. Prefix(h, x, 0) = Prefix(h, y, 0)
      BY <1>3
    <2>2. 0..(0 - 1) = {}
      OBVIOUS
    <2>3. Together(p, h, x, y, 0)
      BY <2>1, <2>2, Zenon DEF Together
    <2>4. QED
      BY <2>3
  <1>8. ASSUME NEW l \in Nat, l \in T PROVE l + 1 \in T
    <2> SUFFICES ASSUME l + 1 \in 0..h PROVE Together(p, h, x, y, l + 1)
      OBVIOUS
    <2>1. l \in 0..h /\ l \in 0..(h - 1) /\ 0..((l + 1) - 1) = (0..(l - 1)) \cup {l}
      BY <1>1
    <2>2. Together(p, h, x, y, l)
      BY <1>8, <2>1
    <2>3. ASSUME Prefix(h, x, l) = Prefix(h, y, l)
          PROVE  (Toward(p, x, l) <=> Toward(p, y, l))
                   <=> Side(h, x, l + 1) = Side(h, y, l + 1)
      <3>1. PICK i : i = Node(h, x, l)
        OBVIOUS
      <3>2. i = Node(h, y, l) /\ i \in 0..(n - 2)
        BY <1>6, <2>1, <2>3, <3>1
      <3>3. p.bits[i] \in {0, 1}
        BY <1>1, <3>2
      <3>4. PICK s, t : s = Side(h, x, l + 1) /\ t = Side(h, y, l + 1)
        OBVIOUS
      <3>5. s \in {0, 1} /\ t \in {0, 1}
        BY <1>5, <2>1, <3>4
      <3>6. /\ Toward(p, x, l) <=> p.bits[i] = s
            /\ Toward(p, y, l) <=> p.bits[i] = t
        BY <3>1, <3>2, <3>4, Zenon DEF Toward
      <3>7. (p.bits[i] = s <=> p.bits[i] = t) <=> s = t
        BY <3>3, <3>5
      <3>8. QED
        BY <3>4, <3>6, <3>7, Zenon
    <2>4. QED
      BY <1>5, <2>1, <2>2, <2>3, Zenon DEF Together
  <1> HIDE DEF T
  <1>9. \A l \in Nat : l \in T
    BY <1>7, <1>8, Induct, Zenon
  <1>10. ASSUME NEW l \in 0..h PROVE Together(p, h, x, y, l)
    <2>1. l \in Nat
      OBVIOUS
    <2>2. QED
      BY <1>9, <2>1 DEF T
  <1>11. Prefix(h, x, h) = Prefix(h, y, h) <=> x = y
    BY <1>3
  <1>12. ASSUME NEW l \in 0..(h - 1)
         PROVE  Parting(h, x, y, l)
    BY <1>5, <1>6, Zenon DEF Parting
  <1>13. QED
    BY <1>10, <1>11, <1>12, Zenon

-----------------------------------------------------------------------------
(* The policies together.                                                  *)

\* The objects of the policies FIFO, LRU and PLRU.
Policies(n) == OrderPolicies(n) \cup Trees(n)

\* hit and miss stay among the objects and take ways that there are.
LEMMA PolicySteps ==
    ASSUME NEW n \in Nat \ {0}, NEW p \in Policies(n)
    PROVE  /\ Ways(p) = n
           /\ Miss(p).way \in 0..(n - 1) /\ Miss(p).policy \in Policies(n)
           /\ \A w \in 0..(n - 1) : Hit(p, w) \in Policies(n)
  <1>1. CASE p \in OrderPolicies(n)
    <2>1. /\ Ways(p) = n /\ n \in 1..n /\ Miss(p).way = p.order[n]
          /\ Miss(p).policy \in OrderPolicies(n) /\ p.order \in Orders(n)
      BY <1>1, OrderSteps DEF OrderPolicies
    <2>2. p.order[n] \in 0..(n - 1)
      BY <2>1 DEF Orders
    <2>3. ASSUME NEW w \in 0..(n - 1) PROVE Hit(p, w) \in OrderPolicies(n)
      <3>1. PICK i \in 1..n : p.order[i] = w
        BY <2>1, EveryWay
      <3>2. QED
        BY <1>1, <3>1, OrderSteps
    <2>4. QED
      BY <2>1, <2>2, <2>3 DEF Policies
  <1>2. CASE p \in Trees(n)
    <2>1. Ways(p) = n
      <3>1. p.kind = "PLRU" /\ 2^p.height = n
        BY <1>2, TreeFields
      <3>2. QED
        BY <3>1 DEF Ways, FlatWays
    <2>2. Miss(p).way \in 0..(n - 1) /\ Miss(p).policy \in Trees(n)
      BY <1>2, TreeMiss
    <2>3. \A w \in 0..(n - 1) : Hit(p, w) \in Trees(n)
      BY <1>2, TreeHit
    <2>4. QED
      BY <2>1, <2>2, <2>3 DEF Policies
  <1>3. QED
    BY <1>1, <1>2 DEF Policies

\* The names of the policies that the theorems are about, for n ways.
Known(n) == {"FIFO", "LRU"} \cup IF IsPowerOfTwo(n) THEN {"PLRU", "PLRUl"} ELSE {}

\* Their objects.
LEMMA MadeWays ==
    ASSUME NEW n \in Nat \ {0}, NEW name \in Known(n)
    PROVE  Ways(make_replacement_policy(name, n)) = n
  <1>1. DOMAIN PlruWays = {"LRU_PLRU2", "LRU_PLRU4", "LRU_PLRU8",
                           "LRU_PLRU16", "LRU_PLRU32", "LRU_PLRU64"}
    BY DEF PlruWays
  <1>2. CASE name \in {"FIFO", "LRU"}
    <2>1. make_replacement_policy("FIFO", n) = Fifo(n) /\ make_replacement_policy("LRU", n) = Lru(n)
      BY <1>1 DEF make_replacement_policy
    <2>2. make_replacement_policy(name, n) = [kind |-> name, order |-> Iota(n)]
      BY <1>2, <2>1 DEF Fifo, Lru
    <2>3. Len(Iota(n)) = n
      BY DEF Iota
    <2>4. QED
      BY <1>2, <2>2, <2>3 DEF Ways, FlatWays
  <1>3. CASE name \in {"PLRU", "PLRUl"} /\ IsPowerOfTwo(n)
    <2>1. make_replacement_policy(name, n) = Plru(n)
      BY <1>1, <1>3 DEF make_replacement_policy
    <2>2. 2^Log2(n) = n
      BY <1>3, Zenon DEF IsPowerOfTwo, Log2
    <2>3. Plru(n).kind = "PLRU" /\ Plru(n).height = Log2(n)
      BY DEF Plru
    <2>4. QED
      BY <2>1, <2>2, <2>3 DEF Ways, FlatWays
  <1>4. QED
    BY <1>2, <1>3 DEF Known

\* They are among the objects above.
LEMMA Made ==
    ASSUME NEW n \in Nat \ {0}, Doubling(n), NEW name \in Known(n)
    PROVE  make_replacement_policy(name, n) \in Policies(n)
  <1>1. DOMAIN PlruWays = {"LRU_PLRU2", "LRU_PLRU4", "LRU_PLRU8",
                           "LRU_PLRU16", "LRU_PLRU32", "LRU_PLRU64"}
    BY DEF PlruWays
  <1>2. CASE name \in {"FIFO", "LRU"}
    <2>1. Iota(n) \in Orders(n)
      BY DEF Iota, Orders
    <2>2. make_replacement_policy("FIFO", n) = Fifo(n)
      BY <1>1 DEF make_replacement_policy
    <2>3. make_replacement_policy("LRU", n) = Lru(n)
      BY <1>1 DEF make_replacement_policy
    <2>4. make_replacement_policy(name, n) = [kind |-> name, order |-> Iota(n)]
      BY <1>2, <2>2, <2>3 DEF Fifo, Lru
    <2>5. QED
      BY <1>2, <2>1, <2>4 DEF Policies, OrderPolicies
  <1>3. CASE name \in {"PLRU", "PLRUl"} /\ IsPowerOfTwo(n)
    <2>1. make_replacement_policy(name, n) = Plru(n)
      BY <1>1, <1>3 DEF make_replacement_policy
    <2>2. Log2(n) \in 0..n /\ 2^Log2(n) = n
      BY <1>3, Zenon DEF IsPowerOfTwo, Log2
    <2>3. PICK h \in 0..n : h = Log2(n) /\ 2^h = n
      BY <2>2
    <2>4. h \in Nat /\ \A k \in 0..h : k \in 0..n
      OBVIOUS
    <2>5. Doubling(h)
      BY <2>4 DEF Doubling
    <2> DEFINE bits == [i \in 0..(n - 2) |-> 0]
    <2>6. Plru(n) = [kind |-> "PLRU", height |-> h, bits |-> bits]
      BY <2>3 DEF Plru
    <2>7. bits \in [0..(n - 2) -> {0, 1}]
      OBVIOUS
    <2> HIDE DEF bits
    <2>8. Plru(n) \in Trees(n)
      BY <2>3, <2>4, <2>5, <2>6, <2>7 DEF Trees
    <2>9. QED
      BY <2>1, <2>8 DEF Policies
  <1>4. QED
    BY <1>2, <1>3 DEF Known

-----------------------------------------------------------------------------
(* How long ago the policies gave up a way.                                *)

\* Every choice of turns is a number.
LEMMA BitsOfNumber ==
    ASSUME NEW h \in Nat, Doubling(h), NEW r \in [1..h -> {0, 1}]
    PROVE  \E v \in 0..(2^h - 1) : \A l \in 1..h : Side(h, v, l) = r[l]
  <1> DEFINE bits == [i \in 0..(2^h - 2) |-> 0]
             z == [kind |-> "PLRU", height |-> h, bits |-> bits]
             side == [l \in 1..h |-> r[l] = 0]
  <1>1. PICK n \in Nat \ {0} : n = 2^h
    <2>1. h \in 0..(h + 1)
      OBVIOUS
    <2>2. QED
      BY <2>1, Powers
  <1>2. z \in Trees(n) /\ z.height = h /\ z.bits = bits
    BY <1>1 DEF Trees
  <1>3. \A i \in 0..(n - 2) : bits[i] = 0
    BY <1>1
  <1>4. side \in [1..h -> BOOLEAN] /\ \A l \in 1..h : side[l] <=> r[l] = 0
    OBVIOUS
  <1> HIDE DEF side, z, bits
  <1>5. PICK v \in 0..(n - 1) : \A l \in 0..(h - 1) : Toward(z, v, l) <=> side[l + 1]
    BY <1>2, <1>4, TreeFind
  <1>6. NodesLie(h, v, v, n)
    BY <1>1, Nodes
  <1>7. \A l \in 1..h : Side(h, v, l) \in {0, 1}
    <2>1. v \in 0..(2^h - 1)
      BY <1>1
    <2>2. QED
      BY <2>1, Digits
  <1>8. ASSUME NEW l \in 1..h PROVE Side(h, v, l) = r[l]
    <2>1. PICK k : k = l - 1
      OBVIOUS
    <2>2. k \in 0..(h - 1) /\ k + 1 = l
      BY <2>1
    <2>3. Node(h, v, k) \in 0..(n - 2)
      BY <1>6, <2>2, Zenon DEF NodesLie
    <2>4. Toward(z, v, k) <=> 0 = Side(h, v, l)
      BY <1>2, <1>3, <2>2, <2>3, Zenon DEF Toward
    <2>5. 0 = Side(h, v, l) <=> r[l] = 0
      BY <1>4, <1>5, <2>2, <2>4, Zenon
    <2>6. r[l] \in {0, 1}
      OBVIOUS
    <2>7. QED
      BY <1>7, <2>5, <2>6
  <1>9. QED
    BY <1>1, <1>8

\* Binary addition of one: the last turn to the left and those behind it change.
LEMMA Successor ==
    ASSUME NEW h \in Nat, Doubling(h), NEW a \in 0..(2^h - 1), NEW b \in 0..(2^h - 1),
           NEW c \in 1..h, Side(h, a, c) = 0, Side(h, b, c) = 1,
           \A k \in 1..(c - 1) : Side(h, a, k) = Side(h, b, k),
           \A k \in (c + 1)..h : Side(h, a, k) = 1 /\ Side(h, b, k) = 0
    PROVE  b = a + 1
  <1>1. /\ Prefix(h, a, 0) = 0 /\ Prefix(h, a, h) = a
        /\ Prefix(h, b, 0) = 0 /\ Prefix(h, b, h) = b
        /\ \A l \in 1..h : /\ Prefix(h, a, l) = 2 * Prefix(h, a, l - 1) + Side(h, a, l)
                           /\ Prefix(h, b, l) = 2 * Prefix(h, b, l - 1) + Side(h, b, l)
    BY Digits
  <1>2. \A l \in 0..h : Prefix(h, a, l) \in Int /\ Prefix(h, b, l) \in Int
    <2>1. \A l \in 0..h : Prefix(h, a, l) \in 0..(2^l - 1) /\ Prefix(h, b, l) \in 0..(2^l - 1)
      BY Digits
    <2>2. QED
      BY <2>1
  <1> DEFINE T == {k \in 0..(c - 1) : Prefix(h, a, k) = Prefix(h, b, k)}
             U == {j \in 0..(h - c) : Prefix(h, b, c + j) = Prefix(h, a, c + j) + 1}
  <1>3. \A k \in 0..(c - 1) : k \in T
    <2>1. 0 \in T /\ c - 1 \in Nat
      BY <1>1
    <2>2. ASSUME NEW k \in 0..((c - 1) - 1), k \in T PROVE k + 1 \in T
      <3>1. k + 1 \in 1..(c - 1) /\ k + 1 \in 1..h /\ (k + 1) - 1 = k /\ k + 1 \in 0..(c - 1)
        OBVIOUS
      <3>2. /\ Prefix(h, a, k + 1) = 2 * Prefix(h, a, k) + Side(h, a, k + 1)
            /\ Prefix(h, b, k + 1) = 2 * Prefix(h, b, k) + Side(h, b, k + 1)
        BY <1>1, <3>1, Zenon
      <3>3. Prefix(h, a, k + 1) = Prefix(h, b, k + 1)
        BY <2>2, <3>1, <3>2, Zenon
      <3>4. QED
        BY <3>1, <3>3
    <2> HIDE DEF T
    <2>3. QED
      BY <2>1, <2>2, InductTo
  <1>4. \A j \in 0..(h - c) : j \in U
    <2>1. 0 \in U /\ h - c \in Nat
      <3>1. c - 1 \in 0..(c - 1) /\ c - 1 \in 0..h /\ c \in 0..h /\ c + 0 = c /\ 0 \in 0..(h - c)
        OBVIOUS
      <3>2. Prefix(h, a, c - 1) = Prefix(h, b, c - 1)
        BY <1>3, <3>1
      <3>3. PICK x, y, z : x = Prefix(h, a, c - 1) /\ y = Prefix(h, a, c) /\ z = Prefix(h, b, c)
        OBVIOUS
      <3>4. y = 2 * x + 0 /\ z = 2 * x + 1
        BY <1>1, <3>2, <3>3, Zenon
      <3>5. x \in Int
        BY <1>2, <3>1, <3>3
      <3>6. z = y + 1
        BY <3>4, <3>5
      <3>7. Prefix(h, b, c + 0) = Prefix(h, a, c + 0) + 1
        BY <3>1, <3>3, <3>6, Zenon
      <3>8. QED
        BY <3>1, <3>7
    <2>2. ASSUME NEW j \in 0..((h - c) - 1), j \in U PROVE j + 1 \in U
      <3>1. PICK k : k = c + j
        OBVIOUS
      <3>2. /\ k + 1 \in (c + 1)..h /\ k + 1 \in 1..h /\ (k + 1) - 1 = k /\ k \in 0..h
            /\ c + (j + 1) = k + 1 /\ j + 1 \in 0..(h - c)
        BY <3>1
      <3>3. PICK x, y, u, v : /\ x = Prefix(h, a, k) /\ y = Prefix(h, b, k)
                              /\ u = Prefix(h, a, k + 1) /\ v = Prefix(h, b, k + 1)
        OBVIOUS
      <3>4. y = x + 1
        BY <2>2, <3>1, <3>3
      <3>5. u = 2 * x + 1 /\ v = 2 * y + 0
        <4>1. Side(h, a, k + 1) = 1 /\ Side(h, b, k + 1) = 0
          BY <3>2
        <4>2. QED
          BY <1>1, <3>2, <3>3, <4>1, Zenon
      <3>6. x \in Int
        BY <1>2, <3>2, <3>3
      <3>7. v = u + 1
        BY <3>4, <3>5, <3>6
      <3>8. QED
        BY <3>2, <3>3, <3>7
    <2> HIDE DEF U
    <2>3. QED
      BY <2>1, <2>2, InductTo
  <1>5. h - c \in 0..(h - c) /\ c + (h - c) = h
    OBVIOUS
  <1>6. Prefix(h, b, h) = Prefix(h, a, h) + 1
    BY <1>4, <1>5
  <1>7. QED
    BY <1>1, <1>6

\* The number of right turns only, and the number of left turns only.
LEMMA Extremes ==
    ASSUME NEW h \in Nat, Doubling(h), NEW a \in 0..(2^h - 1)
    PROVE  /\ (\A k \in 1..h : Side(h, a, k) = 1) => a = 2^h - 1
           /\ (\A k \in 1..h : Side(h, a, k) = 0) => a = 0
  <1>1. /\ Prefix(h, a, 0) = 0 /\ Prefix(h, a, h) = a
        /\ \A l \in 1..h : Prefix(h, a, l) = 2 * Prefix(h, a, l - 1) + Side(h, a, l)
    BY Digits
  <1>2. \A k \in 0..(h + 1) : 2^k \in Nat \ {0}
    BY Powers
  <1>3. h \in 0..h
    OBVIOUS
  <1>4. ASSUME \A k \in 1..h : Side(h, a, k) = 1 PROVE a = 2^h - 1
    <2> DEFINE T == {k \in 0..h : Prefix(h, a, k) = 2^k - 1}
    <2>1. 0 \in T
      BY <1>1 DEF Doubling
    <2>2. ASSUME NEW k \in 0..(h - 1), k \in T PROVE k + 1 \in T
      <3>1. k + 1 \in 1..h /\ (k + 1) - 1 = k /\ k + 1 \in 0..h /\ k \in 0..h /\ k \in 0..(h + 1)
        OBVIOUS
      <3>2. PICK x, y, m : x = Prefix(h, a, k) /\ y = Prefix(h, a, k + 1) /\ m = 2^k
        OBVIOUS
      <3>3. m \in Nat /\ x = m - 1 /\ 2^(k + 1) = 2 * m
        BY <1>2, <2>2, <3>1, <3>2 DEF Doubling
      <3>4. y = 2 * x + 1
        BY <1>1, <1>4, <3>1, <3>2, Zenon
      <3>5. y = 2 * m - 1
        BY <3>3, <3>4
      <3>6. QED
        BY <3>1, <3>2, <3>3, <3>5
    <2> HIDE DEF T
    <2>3. h \in T
      BY <1>3, <2>1, <2>2, InductTo
    <2>4. QED
      BY <1>1, <2>3 DEF T
  <1>5. ASSUME \A k \in 1..h : Side(h, a, k) = 0 PROVE a = 0
    <2> DEFINE T == {k \in 0..h : Prefix(h, a, k) = 0}
    <2>1. 0 \in T
      BY <1>1
    <2>2. ASSUME NEW k \in 0..(h - 1), k \in T PROVE k + 1 \in T
      <3>1. k + 1 \in 1..h /\ (k + 1) - 1 = k /\ k + 1 \in 0..h
        OBVIOUS
      <3>2. Prefix(h, a, k + 1) = 2 * 0 + 0
        BY <1>1, <1>5, <2>2, <3>1
      <3>3. QED
        BY <3>1, <3>2
    <2> HIDE DEF T
    <2>3. h \in T
      BY <1>3, <2>1, <2>2, InductTo
    <2>4. QED
      BY <1>1, <2>3 DEF T
  <1>6. QED
    BY <1>4, <1>5
\* The age of a way in a tree: the turns that lead past it, the root's last.
TreeAge(p, w) ==
    CHOOSE v \in 0..(2^p.height - 1) :
        \A l \in 0..(p.height - 1) :
            Side(p.height, v, p.height - l) = IF Toward(p, w, l) THEN 0 ELSE 1

LEMMA TreeAgeFacts ==
    ASSUME NEW n \in Nat \ {0}, NEW p \in Trees(n), NEW w
    PROVE  /\ TreeAge(p, w) \in 0..(n - 1)
           /\ \A l \in 0..(p.height - 1) :
                 Side(p.height, TreeAge(p, w), p.height - l) = IF Toward(p, w, l) THEN 0 ELSE 1
  <1>1. PICK h : h = p.height
    OBVIOUS
  <1>2. h \in Nat /\ 2^h = n /\ Doubling(h)
    BY <1>1, TreeFields
  <1> DEFINE r == [k \in 1..h |-> IF Toward(p, w, h - k) THEN 0 ELSE 1]
  <1>3. r \in [1..h -> {0, 1}]
    OBVIOUS
  <1>4. \A l \in 0..(h - 1) : h - l \in 1..h /\ r[h - l] = IF Toward(p, w, l) THEN 0 ELSE 1
    <2> SUFFICES ASSUME NEW l \in 0..(h - 1)
                 PROVE  h - l \in 1..h /\ r[h - l] = IF Toward(p, w, l) THEN 0 ELSE 1
      OBVIOUS
    <2>1. h - l \in 1..h /\ h - (h - l) = l
      BY <1>2
    <2>2. QED
      BY <2>1
  <1> HIDE DEF r
  <1>5. \E v \in 0..(2^h - 1) : \A k \in 1..h : Side(h, v, k) = r[k]
    BY <1>2, <1>3, BitsOfNumber
  <1>6. \E v \in 0..(2^p.height - 1) :
           \A l \in 0..(p.height - 1) :
               Side(p.height, v, p.height - l) = IF Toward(p, w, l) THEN 0 ELSE 1
    BY <1>1, <1>4, <1>5, Zenon
  <1>7. QED
    BY <1>1, <1>2, <1>6, Zenon DEF TreeAge

\* What turning the tree to one way does to the turns to another: nothing below where the two
\* ways part, and there it leads away from the other.
LEMMA TurnedPast ==
    ASSUME NEW n \in Nat \ {0}, NEW p \in Trees(n), NEW h, h = p.height, NEW q \in Trees(n),
           NEW v \in 0..(n - 1), NEW w \in 0..(n - 1), Turned(p, q, v), v # w
    PROVE  \E d \in 0..(h - 1) :
              /\ \A l \in 0..(d - 1) : (Toward(p, w, l) <=> Toward(p, v, l)) /\ Toward(q, w, l)
              /\ (Toward(p, w, d) <=> ~Toward(p, v, d)) /\ ~Toward(q, w, d)
              /\ \A l \in (d + 1)..(h - 1) : Toward(q, w, l) <=> Toward(p, w, l)
  <1>1. /\ h \in Nat /\ 2^h = n /\ Doubling(h) /\ p.bits \in [0..(n - 2) -> {0, 1}]
        /\ q.bits \in [0..(n - 2) -> {0, 1}]
    BY TreeFields
  <1>2. /\ q.height = h
        /\ \A l \in 0..(h - 1) : Toward(q, v, l)
        /\ \A i \in 0..(n - 2) :
              (\A l \in 0..(h - 1) : i # Node(h, v, l)) => q.bits[i] = p.bits[i]
    <2>1. DOMAIN p.bits = 0..(n - 2)
      BY TreeFields
    <2>2. q = [kind |-> "PLRU", height |-> p.height, bits |-> q.bits]
      BY DEF Turned
    <2>3. q.height = h
      BY <2>2
    <2>4. QED
      BY <2>1, <2>3, Zenon DEF Turned
  <1>3. /\ \A l \in 0..h : Together(p, h, w, v, l)
        /\ Together(p, h, w, v, h) => (Prefix(h, w, h) = Prefix(h, v, h) <=> w = v)
        /\ \A l \in 0..(h - 1) : Parting(h, w, v, l)
    BY Shared
  <1>4. NodesLie(h, w, v, n)
    BY <1>1, Nodes
  <1> DEFINE D == {l \in 0..(h - 1) : ~(Toward(p, w, l) <=> Toward(p, v, l))}
  <1>5. D # {} /\ D \in SUBSET Nat
    <2>1. h \in 0..h
      BY <1>1
    <2>2. Prefix(h, w, h) # Prefix(h, v, h)
      BY <1>3, <2>1, Zenon
    <2>3. ~\A l \in 0..(h - 1) : Toward(p, w, l) <=> Toward(p, v, l)
      BY <1>3, <2>1, <2>2, Zenon DEF Together
    <2>4. QED
      BY <2>3
  <1>6. PICK d \in D : \A e \in D : d <= e
    BY <1>5, Least
  <1>7. /\ d \in 0..(h - 1) /\ ~(Toward(p, w, d) <=> Toward(p, v, d))
        /\ \A l \in 0..(d - 1) : Toward(p, w, l) <=> Toward(p, v, l)
    <2>1. d \in 0..(h - 1) /\ ~(Toward(p, w, d) <=> Toward(p, v, d))
      OBVIOUS
    <2>2. ASSUME NEW l \in 0..(d - 1) PROVE Toward(p, w, l) <=> Toward(p, v, l)
      <3>1. l \in 0..(h - 1) /\ ~(d <= l)
        BY <1>1, <2>1
      <3>2. QED
        BY <1>6, <3>1
    <2>3. QED
      BY <2>1, <2>2
  <1> HIDE DEF D
  <1>8. \A l \in 0..d : l \in 0..h /\ l \in 0..(h - 1) /\ \A j \in 0..(l - 1) : j \in 0..(d - 1)
    BY <1>1, <1>7
  <1>9. ASSUME NEW l \in 0..d
        PROVE  /\ Prefix(h, w, l) = Prefix(h, v, l) /\ Node(h, w, l) = Node(h, v, l)
               /\ Prefix(h, w, l + 1) = Prefix(h, v, l + 1)
                    <=> Side(h, w, l + 1) = Side(h, v, l + 1)
    BY <1>3, <1>7, <1>8, Zenon DEF Together, Parting
  <1>10. ASSUME NEW l \in 0..(d - 1) PROVE Toward(q, w, l)
    <2>1. l \in 0..d /\ l + 1 \in 0..d /\ l \in 0..(h - 1)
      BY <1>1, <1>7
    <2>2. Node(h, w, l) = Node(h, v, l) /\ Side(h, w, l + 1) = Side(h, v, l + 1)
      BY <1>9, <2>1, Zenon
    <2>3. QED
      BY <1>2, <2>1, <2>2, Zenon DEF Toward
  <1>11. ASSUME NEW l \in (d + 1)..(h - 1) PROVE Prefix(h, w, l) # Prefix(h, v, l)
    <2>1. l \in 0..h /\ d \in 0..(l - 1)
      BY <1>1, <1>7
    <2>2. QED
      BY <1>3, <1>7, <2>1, Zenon DEF Together
  <1>12. ~Toward(q, w, d)
    <2>1. d \in 0..d /\ d + 1 \in 0..h /\ d \in 0..((d + 1) - 1)
      BY <1>1, <1>7
    <2>2. Prefix(h, w, d + 1) # Prefix(h, v, d + 1)
      BY <1>3, <1>7, <2>1, Zenon DEF Together
    <2>3. Node(h, w, d) = Node(h, v, d) /\ Side(h, w, d + 1) # Side(h, v, d + 1)
      BY <1>9, <2>1, <2>2, Zenon
    <2>4. Toward(q, v, d)
      BY <1>2, <1>7
    <2>5. QED
      BY <1>2, <2>3, <2>4, Zenon DEF Toward
  <1>13. ASSUME NEW l \in (d + 1)..(h - 1) PROVE Toward(q, w, l) <=> Toward(p, w, l)
    <2>1. l \in 0..(h - 1)
      BY <1>7
    <2>2. Node(h, w, l) \in 0..(n - 2) /\ Node(h, w, l) # Node(h, v, l)
      BY <1>4, <1>11, <2>1, Zenon DEF NodesLie
    <2>3. \A j \in 0..(h - 1) : Node(h, w, l) # Node(h, v, j)
      BY <1>4, <2>1, <2>2, Zenon DEF NodesLie
    <2>4. q.bits[Node(h, w, l)] = p.bits[Node(h, w, l)]
      BY <1>2, <2>2, <2>3, Zenon
    <2>5. QED
      BY <1>2, <2>4, Zenon DEF Toward
  <1>14. QED
    BY <1>7, <1>10, <1>12, <1>13

\* A miss gives up the oldest way and makes the others older.
LEMMA TreeAges ==
    ASSUME NEW n \in Nat \ {0}, NEW p \in Trees(n), NEW w \in 0..(n - 1)
    PROVE  IF w = Miss(p).way THEN TreeAge(p, w) = n - 1 /\ TreeAge(Miss(p).policy, w) = 0
           ELSE TreeAge(Miss(p).policy, w) = TreeAge(p, w) + 1
  <1>1. PICK h, q, v : h = p.height /\ q = Miss(p).policy /\ v = Miss(p).way
    OBVIOUS
  <1>2. /\ v \in 0..(n - 1) /\ q \in Trees(n) /\ Turned(p, q, v)
        /\ \A l \in 0..(h - 1) : ~Toward(p, v, l)
    BY <1>1, TreeMiss
  <1>3. h \in Nat /\ 2^h = n /\ Doubling(h)
    BY <1>1, TreeFields
  <1>4. q.height = h /\ \A l \in 0..(h - 1) : Toward(q, v, l)
    <2>1. q = [kind |-> "PLRU", height |-> h, bits |-> q.bits]
      BY <1>1, <1>2 DEF Turned
    <2>2. q.height = h
      BY <2>1
    <2>3. QED
      BY <1>1, <1>2, <2>2, Zenon DEF Turned
  <1>5. PICK a, b : a = TreeAge(p, w) /\ b = TreeAge(q, w)
    OBVIOUS
  <1>6. /\ a \in 0..(n - 1) /\ b \in 0..(n - 1)
        /\ \A l \in 0..(h - 1) : Side(h, a, h - l) = IF Toward(p, w, l) THEN 0 ELSE 1
        /\ \A l \in 0..(h - 1) : Side(h, b, h - l) = IF Toward(q, w, l) THEN 0 ELSE 1
    BY <1>1, <1>2, <1>4, <1>5, TreeAgeFacts
  <1>7. a \in 0..(2^h - 1) /\ b \in 0..(2^h - 1)
    BY <1>3, <1>6
  <1>8. \A k \in 1..h : h - k \in 0..(h - 1) /\ h - (h - k) = k
    BY <1>3
  <1>9. ASSUME NEW k \in 1..h
         PROVE  /\ Side(h, a, k) = IF Toward(p, w, h - k) THEN 0 ELSE 1
                /\ Side(h, b, k) = IF Toward(q, w, h - k) THEN 0 ELSE 1
    <2>1. PICK l : l = h - k
      OBVIOUS
    <2>2. l \in 0..(h - 1) /\ h - l = k
      BY <1>8, <2>1
    <2>3. QED
      BY <1>6, <2>1, <2>2, Zenon
  <1>10. CASE w = v
    <2>1. ASSUME NEW k \in 1..h PROVE Side(h, a, k) = 1 /\ Side(h, b, k) = 0
      <3>1. ~Toward(p, w, h - k) /\ Toward(q, w, h - k)
        BY <1>2, <1>4, <1>8, <1>10, Zenon
      <3>2. QED
        BY <1>9, <3>1, Zenon
    <2>2. a = 2^h - 1 /\ b = 0
      BY <1>3, <1>7, <2>1, Extremes
    <2>3. QED
      BY <1>1, <1>3, <1>5, <1>10, <2>2
  <1>11. CASE w # v
    <2>1. PICK d \in 0..(h - 1) :
             /\ \A l \in 0..(d - 1) : (Toward(p, w, l) <=> Toward(p, v, l)) /\ Toward(q, w, l)
             /\ (Toward(p, w, d) <=> ~Toward(p, v, d)) /\ ~Toward(q, w, d)
             /\ \A l \in (d + 1)..(h - 1) : Toward(q, w, l) <=> Toward(p, w, l)
      BY <1>1, <1>2, <1>11, TurnedPast
    <2>2. PICK c : c = h - d
      OBVIOUS
    <2>3. /\ c \in 1..h /\ h - c = d
          /\ \A k \in 1..(c - 1) : h - k \in (d + 1)..(h - 1) /\ h - k \in 0..(h - 1) /\ k \in 1..h
          /\ \A k \in (c + 1)..h : h - k \in 0..(d - 1) /\ h - k \in 0..(h - 1) /\ k \in 1..h
      BY <1>3, <2>2
    <2>4. Side(h, a, c) = 0 /\ Side(h, b, c) = 1
      BY <1>2, <1>6, <2>1, <2>2, Zenon
    <2>5. \A k \in 1..(c - 1) : Side(h, a, k) = Side(h, b, k)
      <3> SUFFICES ASSUME NEW k \in 1..(c - 1) PROVE Side(h, a, k) = Side(h, b, k)
        OBVIOUS
      <3>1. Toward(q, w, h - k) <=> Toward(p, w, h - k)
        BY <2>1, <2>3, Zenon
      <3>2. QED
        BY <1>9, <2>3, <3>1, Zenon
    <2>6. \A k \in (c + 1)..h : Side(h, a, k) = 1 /\ Side(h, b, k) = 0
      <3> SUFFICES ASSUME NEW k \in (c + 1)..h PROVE Side(h, a, k) = 1 /\ Side(h, b, k) = 0
        OBVIOUS
      <3>1. ~Toward(p, w, h - k) /\ Toward(q, w, h - k)
        BY <1>2, <2>1, <2>3, Zenon
      <3>2. QED
        BY <1>9, <2>3, <3>1, Zenon
    <2>7. b = a + 1
      BY <1>3, <1>7, <2>3, <2>4, <2>5, <2>6, Successor
    <2>8. QED
      BY <1>1, <1>5, <1>11, <2>7, Zenon
  <1>12. QED
    BY <1>10, <1>11

\* The age of a way in an order, and in every policy.
OrderAge(p, w) == (CHOOSE i \in 1..Len(p.order) : p.order[i] = w) - 1
Age(p, w) == IF p.kind = "PLRU" THEN TreeAge(p, w) ELSE OrderAge(p, w)

LEMMA OrderAgeFacts ==
    ASSUME NEW n \in Nat \ {0}, NEW p \in OrderPolicies(n)
    PROVE  /\ \A i \in 1..n : OrderAge(p, p.order[i]) = i - 1
           /\ \A w \in 0..(n - 1) : \E i \in 1..n : p.order[i] = w
  <1>1. p.order \in Orders(n) /\ Len(p.order) = n
    BY ToFrontFacts DEF OrderPolicies, Orders
  <1>2. ASSUME NEW i \in 1..n PROVE OrderAge(p, p.order[i]) = i - 1
    <2>1. (CHOOSE j \in 1..Len(p.order) : p.order[j] = p.order[i]) = i
      BY <1>1 DEF Orders
    <2>2. QED
      BY <2>1, Zenon DEF OrderAge
  <1>3. ASSUME NEW w \in 0..(n - 1) PROVE \E i \in 1..n : p.order[i] = w
    BY <1>1, EveryWay
  <1>4. QED
    BY <1>2, <1>3

LEMMA Ages ==
    ASSUME NEW n \in Nat \ {0}, NEW p \in Policies(n), NEW w \in 0..(n - 1)
    PROVE  /\ Age(p, w) \in 0..(n - 1)
           /\ IF w = Miss(p).way THEN Age(p, w) = n - 1 /\ Age(Miss(p).policy, w) = 0
              ELSE Age(Miss(p).policy, w) = Age(p, w) + 1
  <1>1. CASE p \in Trees(n)
    <2>1. Miss(p).policy \in Trees(n)
      BY <1>1, TreeMiss
    <2>2. p.kind = "PLRU" /\ Miss(p).policy.kind = "PLRU"
      BY <1>1, <2>1, TreeFields
    <2>3. Age(p, w) = TreeAge(p, w) /\ Age(Miss(p).policy, w) = TreeAge(Miss(p).policy, w)
      BY <2>2, Zenon DEF Age
    <2>4. TreeAge(p, w) \in 0..(n - 1)
      BY <1>1, TreeAgeFacts
    <2>5. IF w = Miss(p).way THEN TreeAge(p, w) = n - 1 /\ TreeAge(Miss(p).policy, w) = 0
          ELSE TreeAge(Miss(p).policy, w) = TreeAge(p, w) + 1
      BY <1>1, TreeAges
    <2>6. QED
      BY <2>3, <2>4, <2>5, Zenon
  <1>2. CASE p \in OrderPolicies(n)
    <2>1. PICK q, v : q = Miss(p).policy /\ v = Miss(p).way
      OBVIOUS
    <2>2. /\ v = p.order[n] /\ n \in 1..n /\ q \in OrderPolicies(n)
          /\ \A k \in 1..n : q.order[k] = p.order[Before(n, k)]
      BY <1>2, <2>1, OrderSteps
    <2>3. p.kind # "PLRU" /\ q.kind # "PLRU"
      BY <1>2, <2>2 DEF OrderPolicies
    <2>4. Age(p, w) = OrderAge(p, w) /\ Age(q, w) = OrderAge(q, w)
      BY <2>3, Zenon DEF Age
    <2>5. PICK i \in 1..n : p.order[i] = w
      BY <1>2, OrderAgeFacts
    <2>6. OrderAge(p, w) = i - 1
      BY <1>2, <2>5, OrderAgeFacts
    <2>7. \A k \in 1..n : OrderAge(q, q.order[k]) = k - 1
      BY <2>2, OrderAgeFacts
    <2>8. CASE i = n
      <3>1. w = v /\ 1 \in 1..n /\ Before(n, 1) = n /\ 1 - 1 = 0
        BY <2>2, <2>5, <2>8 DEF Before
      <3>2. OrderAge(q, w) = 0
        BY <2>2, <2>7, <3>1
      <3>3. i - 1 \in 0..(n - 1)
        OBVIOUS
      <3>4. QED
        BY <2>1, <2>4, <2>6, <2>8, <3>1, <3>2, <3>3, Zenon
    <2>9. CASE i # n
      <3>1. i + 1 \in 1..n /\ Before(n, i + 1) = i /\ (i + 1) - 1 = (i - 1) + 1
        BY <2>9 DEF Before
      <3>2. q.order[i + 1] = w
        BY <2>2, <2>5, <3>1, Zenon
      <3>3. OrderAge(q, w) = (i - 1) + 1
        BY <2>7, <3>1, <3>2, Zenon
      <3>4. w # v
        <4>1. p.order \in Orders(n)
          BY <1>2 DEF OrderPolicies
        <4>2. QED
          BY <2>2, <2>5, <2>9, <4>1 DEF Orders
      <3>5. i - 1 \in 0..(n - 1)
        OBVIOUS
      <3>6. QED
        BY <2>1, <2>4, <2>6, <3>3, <3>4, <3>5, Zenon
    <2>10. QED
      BY <2>8, <2>9
  <1>3. QED
    BY <1>1, <1>2 DEF Policies
=============================================================================
