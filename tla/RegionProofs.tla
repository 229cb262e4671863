---------------------------- MODULE RegionProofs ----------------------------
(***************************************************************************)
(* The theorems about MemoryRegions: the regions are exactly the memory    *)
(* that the device gave out, and random addresses are addresses of it, for *)
(* any memory, holes in it, and order in which the kernel hands out blocks.*)
(***************************************************************************)
EXTENDS MemoryRegions, Lemmas

-----------------------------------------------------------------------------
(* The inductive invariant.                                                *)

\* A block or a region: some pages, mapped at VirtualOffset.
Block == {r \in [base : Nat, physical_base : Nat, size : Nat \ {0}] :
            r.base = r.physical_base + VirtualOffset}

\* Its pages, and those of a list of blocks, by their virtual addresses.
Holds(r, a) == r.base <= a /\ a < r.base + r.size
Covers(s, a) == \E i \in 1..Len(s) : Holds(s[i], a)

\* No two blocks share a page.
Apart(s) ==
    \A i, j \in 1..Len(s) : i # j =>
        s[i].base + s[i].size <= s[j].base \/ s[j].base + s[j].size <= s[i].base

\* The blocks ascend and do not overlap; with a gap between any two, none can be
\* joined to another.
Ascend(s) == \A i, j \in 1..Len(s) : i < j => s[i].base + s[i].size <= s[j].base
Gapped(s) == \A i, j \in 1..Len(s) : i < j => s[i].base + s[i].size < s[j].base

\* Where the constructor is, and that what it has and what it still asks for make up
\* what was wanted.
CountInv ==
    /\ pc \in {"alloc", "cache_info", "start", "mmap", "constructed", "thrown"}
    /\ order \in 0..MaxOrder
    /\ allocated \in SUBSET (0..(Frames - 1))
    /\ min_size \in Nat /\ Cardinality(allocated) + min_size >= MinSize

\* While blocks are collected they are disjoint and make up what was given out.
AllocInv ==
    pc = "alloc" =>
        /\ regions \in Seq(Block) /\ Apart(regions)
        /\ \A a \in Int : Covers(regions, a) <=> a - VirtualOffset \in allocated
        /\ Len(regions) = 0 => min_size = MinSize

\* Afterwards they are the longest regions there are, and the checker knows them.
BuiltInv ==
    Built =>
        /\ regions \in Seq(Block) /\ Gapped(regions)
        /\ \A a \in Int : Covers(regions, a) <=> a - VirtualOffset \in allocated
        /\ min_size = 0
        /\ checker = [b \in {regions[i].base : i \in 1..Len(regions)} |->
                        (CHOOSE r \in Range(regions) : r.base = b).size]

\* The k-th run of g pages, from the first page of the memory on.
InGroup(g, k, p) == k * g <= p /\ p < (k + 1) * g

\* Of every aligned group of pages no larger than the smallest block asked for, the
\* device gave out all pages or none.
GroupInv ==
    \A bits \in 0..order : \A k, p, q \in Int :
        (InGroup(2^bits, k, p) /\ InGroup(2^bits, k, q) /\ p \in allocated) => q \in allocated

\* A random address with such an alignment is in the memory.
DrawnInv ==
    drawn.address # None =>
        /\ pc = "constructed"
        /\ drawn.bits <= order =>
              drawn.address \in Nat /\ drawn.address - VirtualOffset \in allocated

RegionsInv == CountInv /\ AllocInv /\ BuiltInv /\ GroupInv /\ DrawnInv

-----------------------------------------------------------------------------
(* Sorting and joining.                                                    *)

\* The fields of a block.
LEMMA BlockFields ==
    ASSUME NEW r \in Block
    PROVE  /\ r.base \in Nat /\ r.physical_base \in Nat /\ r.size \in Nat \ {0}
           /\ r.base = r.physical_base + VirtualOffset
  BY DEF Block

\* Sorted lists the same blocks, in the order of their bases.
LEMMA SortedFacts ==
    ASSUME NEW s \in Seq(Block), Apart(s)
    PROVE  /\ Sorted(s) \in Seq(Block) /\ Len(Sorted(s)) = Len(s)
           /\ Ascend(Sorted(s))
           /\ \A a \in Int : Covers(Sorted(s), a) <=> Covers(s, a)
  <1> DEFINE n == Len(s)
             S == Range(s)
             UpTo(b) == {c \in S : c.base <= b.base}
             rank == [b \in S |-> Cardinality(UpTo(b))]
             t == Sorted(s)
  <1>1. n \in Nat /\ DOMAIN s = 1..n /\ S \subseteq Block
    BY DEF Range
  <1>2. \A i, j \in 1..n : s[i].base = s[j].base => i = j
    <2>1. \A i \in 1..n : s[i] \in Block
      OBVIOUS
    <2>2. QED
      BY <2>1, BlockFields DEF Apart
  <1>3. \A b, c \in S : b.base = c.base => b = c
    BY <1>1, <1>2 DEF Range
  <1>4. IsFiniteSet(S) /\ Cardinality(S) = n
    <2>1. \A i, j \in 1..n : s[i] = s[j] => i = j
      BY <1>2
    <2>2. QED
      BY <2>1, DistinctCount
  <1>5. ASSUME NEW b \in S
        PROVE  /\ IsFiniteSet(UpTo(b)) /\ Cardinality(UpTo(b)) \in 1..n
    <2>1. UpTo(b) \in SUBSET S /\ b \in UpTo(b)
      BY <1>1, BlockFields
    <2>2. /\ IsFiniteSet(UpTo(b)) /\ Cardinality(UpTo(b)) <= n
          /\ Cardinality(UpTo(b)) \in Nat
      BY <1>4, <2>1, FS_Subset, FS_CardinalityType
    <2>3. Cardinality(UpTo(b)) # 0
      BY <2>1, <2>2, FS_EmptySet
    <2>4. QED
      BY <2>2, <2>3
  <1>6. ASSUME NEW b \in S, NEW c \in S, b.base < c.base PROVE rank[b] < rank[c]
    <2>1. b.base \in Nat /\ c.base \in Nat /\ \A d \in S : d.base \in Nat
      BY <1>1, BlockFields
    <2>2. UpTo(b) \in SUBSET UpTo(c) /\ c \in UpTo(c) /\ c \notin UpTo(b)
      BY <1>6, <2>1
    <2>3. Cardinality(UpTo(b)) <= Cardinality(UpTo(c)) /\ Cardinality(UpTo(b)) # Cardinality(UpTo(c))
      <3> HIDE DEF UpTo
      <3>1. UpTo(b) # UpTo(c)
        BY <2>2
      <3>2. QED
        BY <1>5, <2>2, <3>1, FS_Subset
    <2>4. rank[b] = Cardinality(UpTo(b)) /\ rank[c] = Cardinality(UpTo(c))
      OBVIOUS
    <2> HIDE DEF UpTo, rank
    <2>5. Cardinality(UpTo(b)) \in Nat /\ Cardinality(UpTo(c)) \in Nat
      BY <1>1, <1>5
    <2>6. QED
      BY <2>3, <2>4, <2>5
  <1>7. rank \in Injection(S, 1..n)
    <2>1. rank \in [S -> 1..n]
      BY <1>5
    <2>2. ASSUME NEW b \in S, NEW c \in S, rank[b] = rank[c] PROVE b = c
      <3>1. b.base \in Nat /\ c.base \in Nat /\ rank[b] \in Nat /\ rank[c] \in Nat
        BY <1>1, <2>1, BlockFields
      <3> HIDE DEF rank
      <3>2. ~(b.base < c.base) /\ ~(c.base < b.base)
        BY <1>6, <2>2, <3>1
      <3>3. QED
        BY <1>3, <3>1, <3>2
    <2> HIDE DEF rank
    <2>3. QED
      BY <2>1, <2>2 DEF Injection, IsInjective
  <1>8. rank \in Surjection(S, 1..n)
    <2>1. IsFiniteSet(1..n) /\ Cardinality(1..n) = n
      BY <1>1, FS_Interval
    <2> HIDE DEF rank
    <2>2. QED
      BY <1>4, <1>7, <2>1, FS_Injection
  <1>9. \A k \in 1..n : t[k] \in S /\ rank[t[k]] = k
    <2> SUFFICES ASSUME NEW k \in 1..n PROVE t[k] \in S /\ rank[t[k]] = k
      OBVIOUS
    <2>1. t[k] = CHOOSE b \in S : Cardinality(UpTo(b)) = k
      BY DEF Sorted
    <2>2. \E b \in S : rank[b] = k
      <3> HIDE DEF rank
      <3>1. QED
        BY <1>8 DEF Surjection
    <2>3. \E b \in S : Cardinality(UpTo(b)) = k
      BY <2>2
    <2> HIDE DEF UpTo, t
    <2>4. t[k] \in S /\ Cardinality(UpTo(t[k])) = k
      BY <2>1, <2>3
    <2>5. QED
      BY <2>4
  <1>10. t = [k \in 1..n |-> t[k]]
    <2> DEFINE e(k) == CHOOSE b \in Range(s) : Cardinality({c \in Range(s) : c.base <= b.base}) = k
    <2>1. t = [k \in 1..n |-> e(k)]
      BY Zenon DEF Sorted
    <2> HIDE DEF e, t, n
    <2>2. QED
      BY <2>1
  <1> HIDE DEF t, rank, S
  <1>11. t \in Seq(Block) /\ Len(t) = n
    BY <1>1, <1>9, <1>10
  <1>12. \A b \in S : rank[b] \in 1..n /\ t[rank[b]] = b
    BY <1>7, <1>9 DEF Injection, IsInjective
  <1>13. Ascend(t)
    <2> SUFFICES ASSUME NEW i \in 1..n, NEW j \in 1..n, i < j
                 PROVE  t[i].base + t[i].size <= t[j].base
      BY <1>11 DEF Ascend
    <2>1. t[i] \in S /\ t[j] \in S /\ rank[t[i]] < rank[t[j]]
      BY <1>9
    <2>2. PICK k, l \in 1..n : t[i] = s[k] /\ t[j] = s[l]
      BY <1>1, <2>1 DEF S, Range
    <2>3. t[i].base \in Nat /\ t[j].base \in Nat /\ t[i].size \in Nat \ {0} /\ t[j].size \in Nat \ {0}
      BY <1>1, <2>1, BlockFields
    <2>4. k # l
      BY <2>1, <2>2, <1>9
    <2>5. ~(t[j].base < t[i].base)
      <3>1. rank[t[i]] \in Nat /\ rank[t[j]] \in Nat
        BY <1>9
      <3>2. QED
        BY <1>6, <2>1, <3>1
    <2>6. \/ t[i].base + t[i].size <= t[j].base
          \/ t[j].base + t[j].size <= t[i].base
      BY <2>2, <2>4, Zenon DEF Apart, n
    <2>7. QED
      BY <2>3, <2>5, <2>6
  <1>14. ASSUME NEW a \in Int PROVE Covers(t, a) <=> Covers(s, a)
    <2>1. ASSUME NEW i \in 1..n, Holds(t[i], a) PROVE Covers(s, a)
      <3>1. PICK k \in 1..n : t[i] = s[k]
        BY <1>1, <1>9 DEF S, Range
      <3>2. QED
        BY <2>1, <3>1 DEF Covers, n
    <2>2. ASSUME NEW i \in 1..n, Holds(s[i], a) PROVE Covers(t, a)
      <3>1. s[i] \in S
        BY <1>1 DEF S, Range
      <3>2. PICK k \in 1..n : t[k] = s[i]
        BY <1>12, <3>1
      <3>3. QED
        BY <1>11, <2>2, <3>2 DEF Covers
    <2>3. QED
      BY <1>11, <2>1, <2>2 DEF Covers, n
  <1>15. QED
    BY <1>11, <1>13, <1>14 DEF t, n

\* Bind only names its argument.
LEMMA BindJoined ==
    ASSUME NEW s
    PROVE  /\ Bind(s, Joined) = Joined(s)
           /\ \A b : Bind(s, LAMBDA acc : Join(acc, b)) = Join(s, b)
  <1>1. {Joined(x) : x \in {s}} = {Joined(s)}
    BY Zenon
  <1>2. \A b : {Join(x, b) : x \in {s}} = {Join(s, b)}
    BY Zenon
  <1>3. QED
    BY <1>1, <1>2 DEF Bind

Joins(g, s, n) == g = [k \in 1..n |-> IF k = 1 THEN <<s[1]>> ELSE Join(g[k - 1], s[k])]

\* The recursion of Joined has a solution.
LEMMA JoinExists ==
    ASSUME NEW s
    PROVE  \A n \in Nat : \E g : Joins(g, s, n)
  <1> DEFINE T == {n \in Nat : \E g : Joins(g, s, n)}
  <1>1. 0 \in T
    <2>1. Joins([k \in 1..0 |-> s[k]], s, 0)
      BY DEF Joins
    <2>2. QED
      BY <2>1
  <1>2. ASSUME NEW n \in Nat, n \in T PROVE n + 1 \in T
    <2>1. PICK g : Joins(g, s, n)
      BY <1>2
    <2> DEFINE d(k) == IF k = 1 THEN <<s[1]>> ELSE Join(g[k - 1], s[k])
               h == [k \in 1..(n + 1) |-> d(k)]
               e(k) == IF k = 1 THEN <<s[1]>> ELSE Join(h[k - 1], s[k])
    <2>2. ASSUME NEW k \in 1..n PROVE h[k] = g[k]
      <3>1. g[k] = d(k)
        BY <2>1 DEF Joins
      <3>2. h[k] = d(k)
        <4>1. k \in 1..(n + 1)
          OBVIOUS
        <4> HIDE DEF d
        <4>2. QED
          BY <4>1
      <3>3. QED
        BY <3>1, <3>2
    <2>3. \A k \in 1..(n + 1) : d(k) = e(k)
      <3> SUFFICES ASSUME NEW k \in 1..(n + 1), k # 1 PROVE h[k - 1] = g[k - 1]
        BY Zenon
      <3>1. k - 1 \in 1..n
        OBVIOUS
      <3>2. QED
        BY <2>2, <3>1
    <2>4. h = [k \in 1..(n + 1) |-> e(k)]
      <3> HIDE DEF d, e
      <3>1. QED
        BY <2>3
    <2>5. Joins(h, s, n + 1)
      <3> HIDE DEF h
      <3>1. QED
        BY <2>4, Zenon DEF Joins
    <2>6. QED
      BY <2>5
  <1> HIDE DEF T
  <1>3. \A n \in Nat : n \in T
    BY <1>1, <1>2, Induct
  <1>4. QED
    BY <1>3 DEF T

\* What the loop has made of the first k blocks: regions with gaps between them that
\* hold the same pages, the last of which ends where the last block does.
JoinedSoFar(acc, s, k) ==
    /\ acc \in Seq(Block) /\ Len(acc) > 0
    /\ Gapped(acc)
    /\ acc[Len(acc)].base + acc[Len(acc)].size = s[k].base + s[k].size
    /\ \A a \in Int : Covers(acc, a) <=> \E i \in 1..k : Holds(s[i], a)

\* Two adjoining intervals are one.
LEMMA Adjoining ==
    ASSUME NEW b \in Nat, NEW l \in Nat, NEW m \in Nat, NEW a \in Int
    PROVE  (b <= a /\ a < b + (l + m)) <=>
               (b <= a /\ a < b + l) \/ (b + l <= a /\ a < (b + l) + m)
  OBVIOUS

\* What lies before a region lies before the next.
LEMMA Beyond ==
    ASSUME NEW a \in Nat, NEW b \in Nat, NEW c \in Nat, NEW d \in Nat, NEW e \in Nat,
           a + b < c, c + d < e
    PROVE  a + b < e
  OBVIOUS

\* A block that begins where the last region ends makes it longer.
LEMMA JoinLonger ==
    ASSUME NEW s \in Seq(Block), Ascend(s), NEW k \in 1..Len(s), k + 1 \in 1..Len(s),
           NEW acc, JoinedSoFar(acc, s, k),
           acc[Len(acc)].base + acc[Len(acc)].size = s[k + 1].base
    PROVE  JoinedSoFar(Join(acc, s[k + 1]), s, k + 1)
  <1> DEFINE m == Len(acc)
             new == s[k + 1]
             last == acc[m]
             long == [last EXCEPT !.size = @ + new.size]
             t == Join(acc, new)
  <1>1. acc \in Seq(Block) /\ m \in Nat \ {0} /\ m \in 1..m /\ k \in Nat
    BY DEF JoinedSoFar
  <1>2. new \in Block /\ last \in Block /\ s[k] \in Block
    BY <1>1
  <1>3. /\ last.base \in Nat /\ last.physical_base \in Nat /\ last.size \in Nat \ {0}
        /\ last.base = last.physical_base + VirtualOffset
        /\ new.base \in Nat /\ new.physical_base \in Nat /\ new.size \in Nat \ {0}
        /\ new.base = new.physical_base + VirtualOffset
    BY <1>2, BlockFields
  <1>4. last.base + last.size = new.base /\ last.physical_base + last.size = new.physical_base
    <2>1. VirtualOffset \in Nat
      BY RegionsAssumption
    <2>2. last.base + last.size = new.base
      OBVIOUS
    <2> HIDE DEF last, new
    <2>3. (last.physical_base + VirtualOffset) + last.size = new.physical_base + VirtualOffset
      BY <1>3, <2>2, Zenon
    <2>4. PICK p, l, q \in Nat :
            p = last.physical_base /\ l = last.size /\ q = new.physical_base
      BY <1>3
    <2>5. PICK o \in Nat : o = VirtualOffset
      BY <2>1
    <2>6. (p + o) + l = q + o
      BY <2>3, <2>4, <2>5, Zenon
    <2>7. p + l = q
      BY <2>6
    <2>8. QED
      BY <2>2, <2>4, <2>7, Zenon
  <1>5. t = [acc EXCEPT ![m] = long]
    BY <1>4 DEF Join
  <1>6. /\ long.base = last.base /\ long.physical_base = last.physical_base
        /\ long.size = last.size + new.size /\ long \in Block
    <2>1. last = [base |-> last.base, physical_base |-> last.physical_base, size |-> last.size]
      BY <1>2 DEF Block
    <2>2. long = [base |-> last.base, physical_base |-> last.physical_base,
                  size |-> last.size + new.size]
      BY <2>1
    <2>3. last.size + new.size \in Nat \ {0}
      <3> HIDE DEF last, new
      <3>1. QED
        BY <1>3
    <2> HIDE DEF last, new, long
    <2>4. QED
      BY <1>3, <2>2, <2>3 DEF Block
  <1> HIDE DEF new, last, long, t
  <1>7. /\ t \in Seq(Block) /\ Len(t) = m /\ t[m] = long
        /\ \A i \in 1..m : i # m => t[i] = acc[i]
    BY <1>1, <1>5, <1>6
  <1>8. Gapped(t)
    <2> SUFFICES ASSUME NEW i \in 1..m, NEW j \in 1..m, i < j
                 PROVE  t[i].base + t[i].size < t[j].base
      BY <1>7 DEF Gapped
    <2>1. i # m /\ t[i] = acc[i] /\ t[j].base = acc[j].base
      BY <1>1, <1>6, <1>7 DEF last
    <2>2. acc[i].base + acc[i].size < acc[j].base
      BY DEF JoinedSoFar, Gapped
    <2>3. QED
      BY <2>1, <2>2
  <1>9. t[Len(t)].base + t[Len(t)].size = new.base + new.size
    <2>1. t[Len(t)] = long
      BY <1>7
    <2>2. QED
      BY <1>3, <1>4, <1>6, <2>1
  <1>10. ASSUME NEW a \in Int
         PROVE  Covers(t, a) <=> \E i \in 1..(k + 1) : Holds(s[i], a)
    <2>1. Holds(long, a) <=> Holds(last, a) \/ Holds(new, a)
      <3>1. (last.base <= a /\ a < last.base + (last.size + new.size)) <=>
               \/ last.base <= a /\ a < last.base + last.size
               \/ last.base + last.size <= a /\ a < (last.base + last.size) + new.size
        BY <1>3, Adjoining
      <3>2. QED
        BY <1>4, <1>6, <3>1, Zenon DEF Holds
    <2>2. Covers(t, a) <=> Covers(acc, a) \/ Holds(new, a)
      BY <1>1, <1>7, <2>1 DEF Covers, last
    <2>3. (\E i \in 1..(k + 1) : Holds(s[i], a))
             <=> (\E i \in 1..k : Holds(s[i], a)) \/ Holds(new, a)
      <3>1. 1..(k + 1) = (1..k) \cup {k + 1}
        BY <1>1
      <3>2. QED
        BY <3>1, Zenon DEF new
    <2>4. QED
      BY <2>2, <2>3 DEF JoinedSoFar
  <1>11. QED
    BY <1>1, <1>7, <1>8, <1>9, <1>10 DEF JoinedSoFar, t, new

\* A block beyond the last region becomes a region of its own.
LEMMA JoinAppends ==
    ASSUME NEW s \in Seq(Block), Ascend(s), NEW k \in 1..Len(s), k + 1 \in 1..Len(s),
           NEW acc, JoinedSoFar(acc, s, k),
           acc[Len(acc)].base + acc[Len(acc)].size # s[k + 1].base
    PROVE  JoinedSoFar(Join(acc, s[k + 1]), s, k + 1)
  <1> DEFINE m == Len(acc)
             new == s[k + 1]
             t == Append(acc, new)
  <1>1. acc \in Seq(Block) /\ m \in Nat \ {0} /\ m \in 1..m /\ k \in Nat /\ k < k + 1
    BY DEF JoinedSoFar
  <1>2. new \in Block /\ s[k] \in Block /\ \A i \in 1..m : acc[i] \in Block
    BY <1>1
  <1>3. /\ new.base \in Nat /\ new.size \in Nat \ {0}
        /\ \A i \in 1..m : acc[i].base \in Nat /\ acc[i].size \in Nat \ {0}
    BY <1>2, BlockFields
  <1>4. Join(acc, new) = t
    BY Zenon DEF Join
  <1>5. acc[m].base + acc[m].size < new.base
    <2>1. s[k].base + s[k].size <= new.base
      BY <1>1 DEF Ascend
    <2>2. acc[m].base + acc[m].size <= new.base
      BY <2>1 DEF JoinedSoFar
    <2>3. /\ acc[m].base + acc[m].size # new.base
          /\ acc[m].base \in Nat /\ acc[m].size \in Nat /\ new.base \in Nat
      BY <1>1, <1>3
    <2> HIDE DEF new, m
    <2>4. QED
      BY <2>2, <2>3
  <1>6. /\ t \in Seq(Block) /\ Len(t) = m + 1 /\ t[m + 1] = new
        /\ \A i \in 1..m : t[i] = acc[i]
    BY <1>1, <1>2
  <1> HIDE DEF t, new
  <1>7. Gapped(t)
    <2> SUFFICES ASSUME NEW i \in 1..(m + 1), NEW j \in 1..(m + 1), i < j
                 PROVE  t[i].base + t[i].size < t[j].base
      BY <1>6 DEF Gapped
    <2>1. i \in 1..m /\ t[i] = acc[i]
      BY <1>1, <1>6
    <2>2. CASE j = m + 1
      <3>1. t[j] = new
        BY <1>6, <2>2
      <3>2. i = m \/ (i < m /\ acc[i].base + acc[i].size < acc[m].base)
        BY <1>1, <2>1 DEF JoinedSoFar, Gapped
      <3>3. /\ acc[i].base \in Nat /\ acc[i].size \in Nat /\ new.base \in Nat
            /\ acc[m].base \in Nat /\ acc[m].size \in Nat
        BY <1>1, <1>3, <2>1
      <3> HIDE DEF m
      <3>4. acc[i].base + acc[i].size < new.base
        <4>1. CASE i = m
          BY <1>5, <4>1
        <4>2. CASE i # m
          <5>1. acc[i].base + acc[i].size < acc[m].base
            BY <3>2, <4>2, Zenon
          <5>2. QED
            BY <1>5, <3>3, <5>1, Beyond, Zenon
        <4>3. QED
          BY <4>1, <4>2
      <3>5. QED
        BY <2>1, <3>1, <3>4
    <2>3. CASE j # m + 1
      <3>1. j \in 1..m
        BY <1>1, <2>3
      <3>2. QED
        BY <1>6, <2>1, <3>1 DEF JoinedSoFar, Gapped
    <2>4. QED
      BY <2>2, <2>3
  <1>8. ASSUME NEW a \in Int
        PROVE  Covers(t, a) <=> \E i \in 1..(k + 1) : Holds(s[i], a)
    <2>1. Covers(t, a) <=> Covers(acc, a) \/ Holds(new, a)
      <3>1. 1..(m + 1) = (1..m) \cup {m + 1}
        BY <1>1
      <3>2. QED
        BY <1>6, <3>1 DEF Covers
    <2>2. (\E i \in 1..(k + 1) : Holds(s[i], a))
             <=> (\E i \in 1..k : Holds(s[i], a)) \/ Holds(new, a)
      <3>1. 1..(k + 1) = (1..k) \cup {k + 1}
        BY <1>1
      <3>2. QED
        BY <3>1, Zenon DEF new
    <2>3. QED
      BY <2>1, <2>2 DEF JoinedSoFar
  <1>9. QED
    BY <1>1, <1>4, <1>6, <1>7, <1>8 DEF JoinedSoFar, new

\* Joining blocks that ascend leaves regions with gaps between them and the same pages.
LEMMA JoinedFacts ==
    ASSUME NEW s \in Seq(Block), Len(s) > 0, Ascend(s)
    PROVE  /\ Joined(s) \in Seq(Block) /\ Gapped(Joined(s))
           /\ \A a \in Int : Covers(Joined(s), a) <=> Covers(s, a)
  <1> DEFINE n == Len(s)
             F == CHOOSE g : g = [k \in 1..n |-> IF k = 1 THEN <<s[1]>>
                                     ELSE Bind(g[k - 1], LAMBDA acc : Join(acc, s[k]))]
  <1>1. n \in Nat /\ n >= 1 /\ n - 1 \in Nat /\ (n - 1) + 1 = n /\ 1 \in 1..n /\ n \in 1..n
    OBVIOUS
  <1>2. Joined(s) = F[n]
    BY Zenon DEF Joined
  <1>3. \A k \in 1..n : F[k] = IF k = 1 THEN <<s[1]>> ELSE Join(F[k - 1], s[k])
    <2> DEFINE Eq(g) == g = [k \in 1..n |-> IF k = 1 THEN <<s[1]>>
                                ELSE Bind(g[k - 1], LAMBDA acc : Join(acc, s[k]))]
    <2>1. PICK g : Joins(g, s, n)
      BY <1>1, JoinExists
    <2>2. Eq(g)
      <3> DEFINE d(k) == IF k = 1 THEN <<s[1]>> ELSE Join(g[k - 1], s[k])
                 e(k) == IF k = 1 THEN <<s[1]>>
                         ELSE Bind(g[k - 1], LAMBDA acc : Join(acc, s[k]))
      <3>1. \A k \in 1..n : d(k) = e(k)
        BY BindJoined, Zenon
      <3>2. g = [k \in 1..n |-> d(k)]
        BY <2>1, Zenon DEF Joins
      <3> HIDE DEF d, e
      <3>3. g = [k \in 1..n |-> e(k)]
        BY <3>1, <3>2
      <3>4. QED
        BY <3>3, Zenon DEF e
    <2>3. F = CHOOSE h : Eq(h)
      BY Zenon
    <2> HIDE DEF F, Eq
    <2>4. Eq(F)
      BY <2>2, <2>3, Zenon
    <2> DEFINE e(k) == IF k = 1 THEN <<s[1]>>
                       ELSE Bind(F[k - 1], LAMBDA acc : Join(acc, s[k]))
    <2>5. F = [k \in 1..n |-> e(k)]
      BY <2>4, Zenon DEF Eq
    <2>6. \A k \in 1..n : F[k] = e(k)
      <3> HIDE DEF e
      <3>1. QED
        BY <2>5
    <2>7. QED
      BY <2>6, BindJoined, Zenon
  <1> HIDE DEF F
  <1> DEFINE T == {i \in Nat : i + 1 \in 1..n => JoinedSoFar(F[i + 1], s, i + 1)}
  <1>4. 0 \in T
    <2>1. F[1] = <<s[1]>> /\ s[1] \in Block
      BY <1>1, <1>3
    <2>2. <<s[1]>> \in Seq(Block) /\ Len(<<s[1]>>) = 1 /\ <<s[1]>>[1] = s[1]
      BY <2>1
    <2>3. JoinedSoFar(F[1], s, 1)
      BY <2>1, <2>2 DEF JoinedSoFar, Gapped, Covers
    <2>4. QED
      BY <2>3
  <1>5. ASSUME NEW i \in Nat, i \in T PROVE i + 1 \in T
    <2> SUFFICES ASSUME i + 2 \in 1..n PROVE JoinedSoFar(F[i + 2], s, i + 2)
      OBVIOUS
    <2>1. i + 1 \in 1..n /\ (i + 2) - 1 = i + 1 /\ (i + 1) + 1 = i + 2 /\ i + 2 # 1
      OBVIOUS
    <2>2. F[i + 2] = Join(F[i + 1], s[i + 2])
      BY <1>3, <2>1
    <2>3. JoinedSoFar(F[i + 1], s, i + 1)
      BY <1>5, <2>1
    <2> HIDE DEF T
    <2>4. QED
      BY <2>1, <2>2, <2>3, JoinLonger, JoinAppends
  <1> HIDE DEF T
  <1>6. \A i \in Nat : i \in T
    BY <1>4, <1>5, Induct, Zenon
  <1>7. JoinedSoFar(F[n], s, n)
    BY <1>1, <1>6 DEF T
  <1>8. QED
    BY <1>2, <1>7 DEF JoinedSoFar, Covers

-----------------------------------------------------------------------------
(* The steps.                                                              *)

\* The constructor starts with no memory at all.
LEMMA InitInv == Init => RegionsInv
  <1> SUFFICES ASSUME Init PROVE RegionsInv
    OBVIOUS
  <1>1. MinSize \in Nat /\ MaxOrder \in Nat
    BY RegionsAssumption
  <1>2. CountInv
    <2>1. Cardinality(allocated) = 0
      BY FS_EmptySet DEF Init
    <2>2. QED
      BY <1>1, <2>1 DEF Init, CountInv
  <1>3. AllocInv
    BY <1>1 DEF Init, AllocInv, Apart, Covers
  <1>4. BuiltInv /\ GroupInv /\ DrawnInv
    BY DEF Init, BuiltInv, GroupInv, DrawnInv, Built
  <1>5. QED
    BY <1>2, <1>3, <1>4 DEF RegionsInv

\* The memory is finite.
LEMMA FiniteMemory ==
    ASSUME NEW A \in SUBSET (0..(Frames - 1))
    PROVE  IsFiniteSet(A) /\ Cardinality(A) \in Nat
  <1>1. Frames - 1 \in Int
    BY RegionsAssumption
  <1>2. IsFiniteSet(0..(Frames - 1))
    BY <1>1, FS_Interval
  <1>3. IsFiniteSet(A)
    BY <1>2, FS_Subset
  <1>4. QED
    BY <1>3, FS_CardinalityType

\* Multiplication by a positive number keeps the order.
LEMMA TimesOrder ==
    ASSUME NEW g \in Nat \ {0}, NEW x \in Int, NEW y \in Int
    PROVE  /\ x <= y => x * g <= y * g
           /\ x * g < y * g => x < y
           /\ x * g \in Int
  <1>1. \A a, b \in Int : a <= b => a * g <= b * g
    OBVIOUS
  <1>2. ASSUME x * g < y * g PROVE x < y
    <2>1. ~(y <= x)
      BY <1>1, <1>2
    <2>2. QED
      BY <2>1
  <1>3. QED
    BY <1>1, <1>2

\* A group that meets the pages from m * g to e * g lies within them.
LEMMA GroupInBlock ==
    ASSUME NEW g \in Nat \ {0}, NEW m \in Int, NEW e \in Int, NEW k \in Int,
           NEW p \in Int, NEW q \in Int, m * g <= p, p < e * g,
           InGroup(g, k, p), InGroup(g, k, q)
    PROVE  m * g <= q /\ q < e * g
  <1>1. /\ m * g \in Int /\ e * g \in Int /\ k * g \in Int /\ (k + 1) * g \in Int
        /\ k + 1 \in Int
    BY TimesOrder
  <1>2. k * g <= p /\ p < (k + 1) * g /\ k * g <= q /\ q < (k + 1) * g
    BY DEF InGroup
  <1>3. m < k + 1
    <2>1. m * g < (k + 1) * g
      BY <1>1, <1>2
    <2>2. QED
      BY <1>1, <2>1, TimesOrder
  <1>4. k < e
    <2>1. k * g < e * g
      BY <1>1, <1>2
    <2>2. QED
      BY <2>1, TimesOrder
  <1>5. m * g <= k * g /\ (k + 1) * g <= e * g
    <2>1. m <= k /\ k + 1 <= e
      BY <1>3, <1>4
    <2>2. QED
      BY <1>1, <2>1, TimesOrder
  <1>6. QED
    BY <1>1, <1>2, <1>5

\* A number, its quotient and its remainder.
Divides(g, a, x, r) ==
    x \in Nat /\ r \in 0..(g - 1) /\ x = a \div g /\ r = a % g /\ a = x * g + r

\* Division has a quotient and a remainder.
LEMMA Divided ==
    ASSUME NEW g \in Nat \ {0}, NEW a \in Nat
    PROVE  \E x, r : Divides(g, a, x, r)
  <1>1. a \div g \in Nat /\ a % g \in 0..(g - 1) /\ a = g * (a \div g) + (a % g)
    OBVIOUS
  <1>2. PICK x \in Nat, r \in 0..(g - 1) : x = a \div g /\ r = a % g
    BY <1>1, Zenon
  <1>3. a = g * x + r
    BY <1>1, <1>2, Zenon
  <1>4. a = x * g + r
    BY <1>3
  <1>5. Divides(g, a, x, r)
    BY <1>2, <1>4, Zenon DEF Divides
  <1>6. QED
    BY <1>5

\* Larger blocks consist of smaller ones.
LEMMA OrderMultiple ==
    ASSUME NEW o \in 0..MaxOrder, NEW bits \in 0..o
    PROVE  \E c \in Nat \ {0} : 2^o = c * 2^bits
  <1>1. MaxOrder \in Nat
    BY RegionsAssumption
  <1>2. o - bits \in 0..MaxOrder /\ bits \in 0..MaxOrder /\ o \in bits..MaxOrder
    BY <1>1
  <1>3. 2^(o - bits) \in Nat \ {0} /\ 2^o = 2^(o - bits) * 2^bits
    BY <1>2, RegionsAssumption
  <1>4. QED
    BY <1>3

\* A new block consists of whole groups.
LEMMA AllocGroups ==
    ASSUME RegionsInv, NEW frame \in 0..(Frames - 1), Alloc(frame)
    PROVE  GroupInv'
  <1>1. order \in 0..MaxOrder /\ order' = order
        /\ allocated \in SUBSET (0..(Frames - 1)) /\ MaxOrder \in Nat
    BY RegionsAssumption DEF Alloc, RegionsInv, CountInv
  <1>2. PICK z \in Nat \ {0} : z = 2^order
    BY <1>1, RegionsAssumption
  <1>3. frame \in Nat /\ frame % z = 0 /\ allocated' = allocated \cup frame..(frame + z - 1)
    BY <1>2 DEF Alloc
  <1>4. PICK f \in Nat : frame = f * z
    <2>1. PICK x, r : Divides(z, frame, x, r)
      BY <1>3, Divided
    <2>2. x \in Nat /\ r = 0 /\ frame = x * z + r
      BY <1>3, <2>1 DEF Divides
    <2>3. QED
      BY <2>2
  <1>5. SUFFICES ASSUME NEW bits \in 0..order, NEW k \in Int, NEW p \in Int, NEW q \in Int,
                        InGroup(2^bits, k, p), InGroup(2^bits, k, q), p \in allocated'
                 PROVE  q \in allocated'
    BY <1>1 DEF GroupInv, InGroup
  <1>6. CASE p \in allocated
    <2>1. q \in allocated
      BY <1>5, <1>6 DEF RegionsInv, GroupInv
    <2>2. QED
      BY <1>3, <2>1
  <1>7. CASE p \in frame..(frame + z - 1)
    <2>1. PICK g \in Nat \ {0} : g = 2^bits
      <3>1. bits \in 0..MaxOrder
        BY <1>1
      <3>2. QED
        BY <3>1, RegionsAssumption
    <2>2. PICK c \in Nat \ {0} : z = c * g
      <3>1. \E c \in Nat \ {0} : 2^order = c * 2^bits
        BY <1>1, OrderMultiple
      <3>2. QED
        BY <1>2, <2>1, <3>1, Zenon
    <2>3. /\ frame = (f * c) * g /\ frame + z = (f * c + c) * g
          /\ f * c \in Int /\ f * c + c \in Int
      BY <1>4, <2>2
    <2>4. frame <= p /\ p < frame + z
      BY <1>3, <1>7
    <2>5. PICK m, e \in Int : frame = m * g /\ frame + z = e * g
      BY <2>3, Zenon
    <2>6. frame <= q /\ q < frame + z
      <3>1. InGroup(g, k, p) /\ InGroup(g, k, q)
        BY <1>5, <2>1, Zenon
      <3>2. m * g <= p /\ p < e * g
        BY <2>4, <2>5, Zenon
      <3>3. m * g <= q /\ q < e * g
        BY <3>1, <3>2, GroupInBlock
      <3>4. QED
        BY <2>5, <3>3, Zenon
    <2>7. q \in frame..(frame + z - 1)
      BY <1>3, <2>6
    <2>8. QED
      BY <1>3, <2>7
  <1>8. QED
    BY <1>3, <1>5, <1>6, <1>7

\* A block that the kernel had free is disjoint from the ones before it.
LEMMA AllocStep ==
    ASSUME RegionsInv, NEW frame \in 0..(Frames - 1), Alloc(frame)
    PROVE  RegionsInv'
  <1>1. PICK z \in Nat \ {0} : z = 2^order
    BY RegionsAssumption DEF RegionsInv, CountInv
  <1>2. PICK V \in Nat : V = VirtualOffset
    BY RegionsAssumption
  <1> DEFINE F == frame..(frame + z - 1)
             new == Region(frame + V, frame, z)
             n == Len(regions)
  <1>3. /\ pc = "alloc" /\ pc' = pc /\ order' = order /\ drawn' = drawn /\ checker' = checker
        /\ regions' = Append(regions, new)
        /\ min_size' = min_size - Smaller(min_size, z)
        /\ allocated' = allocated \cup F
        /\ F \subseteq (0..(Frames - 1)) \ (allocated \cup Busy)
    BY <1>1, <1>2 DEF Alloc
  <1>4. /\ frame \in Nat /\ frame + V \in Nat
        /\ new \in Block /\ new.base = frame + V /\ new.size = z
    <2>1. frame \in Nat /\ frame + V \in Nat
      BY <1>2
    <2>2. QED
      BY <1>1, <1>2, <2>1 DEF Block, Region
  <1>5. /\ regions \in Seq(Block) /\ Apart(regions) /\ n \in Nat
        /\ \A a \in Int : Covers(regions, a) <=> a - V \in allocated
    BY <1>2, <1>3 DEF RegionsInv, AllocInv
  <1>6. /\ min_size \in Nat /\ order \in 0..MaxOrder
        /\ allocated \in SUBSET (0..(Frames - 1))
        /\ Cardinality(allocated) + min_size >= MinSize
    BY DEF RegionsInv, CountInv
  <1>7. CountInv'
    <2>1. IsFiniteSet(allocated) /\ Cardinality(allocated) \in Nat
      BY <1>6, FiniteMemory
    <2>2. IsFiniteSet(F) /\ Cardinality(F) = z
      <3>1. frame + z - 1 \in Int /\ frame \in Int /\ ~(frame > frame + z - 1)
              /\ (frame + z - 1) - frame + 1 = z
        BY <1>1, <1>4
      <3>2. QED
        BY <3>1, FS_Interval
    <2>3. allocated \cap F = {}
      BY <1>3
    <2>4. Cardinality(allocated \cup F) = Cardinality(allocated) + z
      <3>1. Cardinality(allocated \cup F)
               = Cardinality(allocated) + Cardinality(F) - Cardinality(allocated \cap F)
        BY <2>1, <2>2, FS_Union
      <3>2. Cardinality(allocated \cap F) = 0
        BY <2>3, FS_EmptySet
      <3> HIDE DEF F
      <3>3. QED
        BY <1>1, <2>1, <2>2, <3>1, <3>2
    <2>5. Cardinality(allocated') = Cardinality(allocated) + z
      BY <1>3, <2>4
    <2>6. min_size' \in Nat /\ Cardinality(allocated') + min_size' >= MinSize
      <3>1. MinSize \in Nat
        BY RegionsAssumption
      <3>2. QED
        BY <1>1, <1>3, <1>6, <2>1, <2>5, <3>1 DEF Smaller
    <2>7. allocated' \in SUBSET (0..(Frames - 1))
      BY <1>3, <1>6
    <2>8. QED
      BY <1>3, <1>6, <2>6, <2>7 DEF CountInv
  <1> HIDE DEF new
  <1>8. /\ regions' \in Seq(Block) /\ Len(regions') = n + 1 /\ regions'[n + 1] = new
        /\ \A k \in 1..n : regions'[k] = regions[k]
        /\ 1..(n + 1) = (1..n) \cup {n + 1}
    <2>1. regions' = Append(regions, new) /\ new \in Block /\ regions \in Seq(Block)
      BY <1>3, <1>4, <1>5
    <2>2. n \in Nat
      BY <1>5
    <2>3. 1..(n + 1) = (1..n) \cup {n + 1}
      <3> HIDE DEF n
      <3>1. QED
        BY <2>2
    <2>4. QED
      BY <2>1, <2>3
  <1>9. ASSUME NEW a \in Int PROVE Holds(new, a) <=> a - V \in F
    BY <1>1, <1>2, <1>4 DEF Holds
  <1>10. ASSUME NEW a \in Int PROVE Covers(regions', a) <=> a - V \in allocated'
    <2>1. Covers(regions', a) <=> Covers(regions, a) \/ Holds(new, a)
      BY <1>8 DEF Covers
    <2>2. QED
      BY <1>3, <1>5, <1>9, <2>1
  <1>11. ASSUME NEW k \in 1..n
         PROVE  \/ regions[k].base + regions[k].size <= new.base
                \/ new.base + new.size <= regions[k].base
    <2>1. regions[k] \in Block
      BY <1>5
    <2>2. PICK b \in Nat, l \in Nat \ {0} : b = regions[k].base /\ l = regions[k].size
      BY <2>1, BlockFields
    <2>3. PICK c \in Nat : c = new.base
      BY <1>4
    <2>4. new.size = z
      BY <1>4
    <2>5. ASSUME NEW a \in Int, b <= a, a < b + l, c <= a, a < c + z PROVE FALSE
      <3>1. Holds(regions[k], a) /\ Holds(new, a)
        BY <2>2, <2>3, <2>4, <2>5 DEF Holds
      <3>2. Covers(regions, a)
        BY <3>1 DEF Covers
      <3>3. a - V \in allocated /\ a - V \in F
        BY <1>5, <1>9, <3>1, <3>2
      <3>4. QED
        BY <1>3, <3>3
    <2>6. ~(b <= c /\ c < b + l) /\ ~(c <= b /\ b < c + z)
      <3>1. b \in Int /\ c \in Int /\ b < b + l /\ c < c + z /\ b <= b /\ c <= c
        BY <1>1, <2>2
      <3>2. QED
        BY <2>5, <3>1
    <2>7. b + l <= c \/ c + z <= b
      <3>1. b \in Int /\ c \in Int /\ l \in Int /\ z \in Int
        BY <1>1, <2>2, <2>3
      <3>2. QED
        BY <2>6, <3>1
    <2>8. QED
      BY <2>2, <2>3, <2>4, <2>7, Zenon
  <1>12. Apart(regions')
    <2> SUFFICES ASSUME NEW i \in 1..(n + 1), NEW j \in 1..(n + 1), i # j
                 PROVE  \/ regions'[i].base + regions'[i].size <= regions'[j].base
                        \/ regions'[j].base + regions'[j].size <= regions'[i].base
      BY <1>8 DEF Apart
    <2>1. CASE i \in 1..n /\ j \in 1..n
      BY <1>5, <1>8, <2>1, Zenon DEF Apart
    <2>2. CASE i = n + 1 /\ j \in 1..n
      BY <1>8, <1>11, <2>2, Zenon
    <2>3. CASE j = n + 1 /\ i \in 1..n
      BY <1>8, <1>11, <2>3, Zenon
    <2>4. QED
      BY <1>8, <2>1, <2>2, <2>3, Zenon
  <1>13. AllocInv'
    BY <1>2, <1>5, <1>8, <1>10, <1>12 DEF AllocInv
  <1>14. BuiltInv' /\ DrawnInv'
    BY <1>3 DEF BuiltInv, DrawnInv, Built, RegionsInv
  <1>15. QED
    BY <1>7, <1>13, <1>14, AllocGroups DEF RegionsInv

\* The steps that leave the memory alone.
LEMMA OtherSteps ==
    ASSUME RegionsInv,
           AllocFails \/ ReadCacheInfo \/ StartAgent \/ MmapChannels \/ IoctlFails
    PROVE  RegionsInv'
  <1>1. /\ regions' = regions /\ allocated' = allocated /\ min_size' = min_size
        /\ checker' = checker /\ drawn' = drawn
    BY DEF AllocFails, ReadCacheInfo, StartAgent, MmapChannels, IoctlFails, Throw
  <1>2. /\ pc \in {"alloc", "cache_info", "start", "mmap"} /\ pc # "constructed"
        /\ pc' \in {pc, "start", "mmap", "constructed", "thrown"}
        /\ pc' \in {"start", "mmap", "constructed"} => Built
    BY DEF AllocFails, ReadCacheInfo, StartAgent, MmapChannels, IoctlFails, Throw, Built
  <1>3. drawn.address = None
    BY <1>2 DEF RegionsInv, DrawnInv
  <1>4. order' \in 0..MaxOrder /\ order' <= order
    <2>1. order \in 0..MaxOrder /\ MaxOrder \in Nat
      BY RegionsAssumption DEF RegionsInv, CountInv
    <2>2. order' = order \/ (order > 0 /\ order' = order - 1)
      BY DEF AllocFails, ReadCacheInfo, StartAgent, MmapChannels, IoctlFails, Throw
    <2>3. QED
      BY <2>1, <2>2
  <1>5. CountInv'
    <2>1. CountInv
      BY DEF RegionsInv
    <2>2. QED
      BY <1>1, <1>2, <1>4, <2>1 DEF CountInv
  <1>6. AllocInv'
    <2>1. pc' = "alloc" => pc = "alloc"
      BY <1>2
    <2>2. QED
      BY <1>1, <2>1 DEF AllocInv, RegionsInv
  <1>7. BuiltInv'
    <2>1. Built' => Built
      BY <1>2 DEF Built
    <2>2. QED
      BY <1>1, <2>1 DEF BuiltInv, RegionsInv
  <1>8. DrawnInv'
    BY <1>1, <1>3 DEF DrawnInv, None
  <1>9. GroupInv'
    <2>1. order \in Int /\ order' \in Int
      BY <1>4 DEF RegionsInv, CountInv
    <2>2. \A bits \in 0..order' : bits \in 0..order
      BY <1>4, <2>1
    <2>3. QED
      BY <1>1, <2>2 DEF RegionsInv, GroupInv, InGroup
  <1>10. QED
    BY <1>5, <1>6, <1>7, <1>8, <1>9 DEF RegionsInv

\* defragment_regions makes regions of the blocks.
LEMMA DefragmentStep ==
    ASSUME RegionsInv, Defragment
    PROVE  RegionsInv'
  <1>1. /\ pc = "alloc" /\ min_size = 0 /\ pc' = "cache_info"
        /\ order' = order /\ min_size' = min_size /\ drawn' = drawn /\ allocated' = allocated
        /\ regions' = defragment_regions(regions)
        /\ checker' = [b \in {regions'[i].base : i \in 1..Len(regions')} |->
                         (CHOOSE r \in Range(regions') : r.base = b).size]
    BY DEF Defragment
  <1>2. /\ regions \in Seq(Block) /\ Apart(regions)
        /\ \A a \in Int : Covers(regions, a) <=> a - VirtualOffset \in allocated
        /\ Len(regions) > 0
    <2>1. MinSize # 0
      BY RegionsAssumption
    <2>2. QED
      BY <1>1, <2>1 DEF RegionsInv, AllocInv
  <1>3. regions' = Joined(Sorted(regions))
    BY <1>1, BindJoined DEF defragment_regions
  <1>4. /\ Sorted(regions) \in Seq(Block) /\ Len(Sorted(regions)) > 0 /\ Ascend(Sorted(regions))
        /\ \A a \in Int : Covers(Sorted(regions), a) <=> Covers(regions, a)
    BY <1>2, SortedFacts
  <1>5. /\ regions' \in Seq(Block) /\ Gapped(regions')
        /\ \A a \in Int : Covers(regions', a) <=> Covers(Sorted(regions), a)
    BY <1>3, <1>4, JoinedFacts
  <1>6. BuiltInv'
    BY <1>1, <1>2, <1>4, <1>5 DEF BuiltInv
  <1>7. CountInv'
    BY <1>1 DEF RegionsInv, CountInv
  <1>8. AllocInv' /\ DrawnInv'
    BY <1>1 DEF AllocInv, DrawnInv, RegionsInv, None
  <1>9. GroupInv'
    BY <1>1 DEF RegionsInv, GroupInv, InGroup
  <1>10. QED
    BY <1>6, <1>7, <1>8, <1>9 DEF RegionsInv

\* Of two regions the one with the higher base lies beyond the other.
LEMMA Beyond2 ==
    ASSUME NEW s \in Seq(Block), Gapped(s), NEW i \in 1..Len(s), NEW j \in 1..Len(s), i # j
    PROVE  \/ s[i].base < s[j].base /\ s[i].base + s[i].size < s[j].base
           \/ s[j].base < s[i].base /\ s[j].base + s[j].size < s[i].base
  <1>1. s[i] \in Block /\ s[j] \in Block
    OBVIOUS
  <1>2. PICK b, c \in Nat, l, m \in Nat \ {0} :
          b = s[i].base /\ c = s[j].base /\ l = s[i].size /\ m = s[j].size
    BY <1>1, BlockFields
  <1>3. b + l < c \/ c + m < b
    <2>1. i < j \/ j < i
      OBVIOUS
    <2>2. QED
      BY <1>2, <2>1, Zenon DEF Gapped
  <1>4. (b < c /\ b + l < c) \/ (c < b /\ c + m < b)
    <2>1. b \in Nat /\ c \in Nat /\ l \in Nat \ {0} /\ m \in Nat \ {0}
      OBVIOUS
    <2>2. QED
      BY <1>3, <2>1
  <1>5. QED
    BY <1>2, <1>4, Zenon

\* Before and behind a region there is no memory.
LEMMA RegionEdges ==
    ASSUME RegionsInv, Built, NEW i \in 1..Len(regions),
           NEW b \in Nat, NEW z \in Nat \ {0}, b = regions[i].base, z = regions[i].size
    PROVE  /\ \A a \in b..(b + z - 1) : a - VirtualOffset \in allocated
           /\ \A a \in Int : a = b - 1 \/ a = b + z => a - VirtualOffset \notin allocated
  <1>1. /\ regions \in Seq(Block) /\ Gapped(regions)
        /\ \A a \in Int : Covers(regions, a) <=> a - VirtualOffset \in allocated
    BY DEF RegionsInv, BuiltInv
  <1>2. ASSUME NEW a \in b..(b + z - 1) PROVE a - VirtualOffset \in allocated
    <2>1. b <= a /\ a < b + z /\ a \in Int
      OBVIOUS
    <2>2. Covers(regions, a)
      BY <2>1, Zenon DEF Covers, Holds
    <2>3. QED
      BY <1>1, <2>1, <2>2, Zenon
  <1>3. ASSUME NEW a \in Int, a = b - 1 \/ a = b + z PROVE a - VirtualOffset \notin allocated
    <2> SUFFICES ASSUME Covers(regions, a) PROVE FALSE
      BY <1>1, Zenon
    <2>1. PICK j \in 1..Len(regions) : Holds(regions[j], a)
      BY DEF Covers
    <2>2. regions[j] \in Block
      BY <1>1
    <2>3. PICK c \in Nat, m \in Nat \ {0} : c = regions[j].base /\ m = regions[j].size
      BY <2>2, BlockFields
    <2>4. c <= a /\ a < c + m
      BY <2>1, <2>3, Zenon DEF Holds
    <2>5. i # j
      <3>1. ~(b <= a /\ a < b + z)
        BY <1>3
      <3>2. ~Holds(regions[i], a)
        BY <3>1, Zenon DEF Holds
      <3>3. QED
        BY <2>1, <3>2
    <2>6. (b < c /\ b + z < c) \/ (c < b /\ c + m < b)
      BY <1>1, <2>3, <2>5, Beyond2, Zenon
    <2>7. QED
      BY <1>3, <2>4, <2>6
  <1>4. QED
    BY <1>2, <1>3

\* The last page before the end of a region.
LEMMA LastPage ==
    ASSUME NEW b \in Nat, NEW z \in Nat \ {0}
    PROVE  /\ b + z \in Nat /\ (b + z) - 1 \in b..(b + z - 1)
           /\ b \in b..(b + z - 1) /\ b - 1 \in Int
  OBVIOUS

\* The region begins and ends on a boundary of g pages.
AlignedTo(r, g) == r.base % g = 0 /\ (r.base + r.size) % g = 0

\* A region begins and ends on a boundary of every alignment up to the order of the
\* smallest block: it consists of whole groups.
LEMMA RegionAligned ==
    ASSUME RegionsInv, Built, NEW i \in 1..Len(regions), NEW bits \in 0..order
    PROVE  AlignedTo(regions[i], 2^bits)
  <1>1. PICK b \in Nat, z \in Nat \ {0} : b = regions[i].base /\ z = regions[i].size
    <2>1. regions[i] \in Block
      BY DEF RegionsInv, BuiltInv
    <2>2. QED
      BY <2>1, BlockFields
  <1>2. PICK g \in Nat \ {0} : g = 2^bits
    <2>1. MaxOrder \in Nat /\ order \in 0..MaxOrder
      BY RegionsAssumption DEF RegionsInv, CountInv
    <2>2. bits \in 0..MaxOrder
      BY <2>1
    <2>3. QED
      BY <2>2, RegionsAssumption
  <1>3. PICK V \in Nat : V = VirtualOffset
    BY RegionsAssumption
  <1>4. PICK w \in Nat : V = w * g
    <2>1. MaxOrder \in Nat /\ order \in 0..MaxOrder
      BY RegionsAssumption DEF RegionsInv, CountInv
    <2>2. bits \in 0..MaxOrder /\ MaxOrder \in 0..MaxOrder
      BY <2>1
    <2>3. PICK G \in Nat \ {0} : G = 2^MaxOrder
      BY <2>2, RegionsAssumption
    <2>4. PICK c \in Nat \ {0} : G = c * g
      <3>1. \E c \in Nat \ {0} : 2^MaxOrder = c * 2^bits
        BY <2>2, OrderMultiple
      <3>2. QED
        BY <1>2, <2>3, <3>1, Zenon
    <2>5. V % G = 0
      BY <1>3, <2>3, RegionsAssumption, Zenon
    <2>6. PICK d \in Nat : V = d * G
      <3>1. PICK x, r : Divides(G, V, x, r)
        BY Divided
      <3>2. x \in Nat /\ r = 0 /\ V = x * G + r
        BY <2>5, <3>1 DEF Divides
      <3>3. QED
        BY <3>2
    <2>7. V = (d * c) * g /\ d * c \in Nat
      BY <2>4, <2>6
    <2>8. QED
      BY <2>7
  <1>5. /\ \A a \in b..(b + z - 1) : a - V \in allocated
        /\ \A a \in Int : a = b - 1 \/ a = b + z => a - V \notin allocated
    BY <1>3, <1>1, RegionEdges
  <1>6. ASSUME NEW a \in Nat, a % g # 0
        PROVE  a - 1 - V \in allocated <=> a - V \in allocated
    <2>1. PICK x \in Nat, r \in 1..(g - 1) : a = x * g + r
      <3>1. PICK x, r : Divides(g, a, x, r)
        BY Divided
      <3>2. x \in Nat /\ r \in 1..(g - 1) /\ a = x * g + r
        BY <1>6, <3>1 DEF Divides
      <3>3. QED
        BY <3>2
    <2>2. a - V = (x - w) * g + r /\ a - 1 - V = (x - w) * g + (r - 1)
      <3>1. (x - w) * g = x * g - w * g /\ x * g \in Int /\ w * g \in Int
        OBVIOUS
      <3>2. QED
        BY <1>4, <2>1, <3>1
    <2>3. PICK k \in Int : k = x - w
      OBVIOUS
    <2>4. InGroup(g, k, a - V) /\ InGroup(g, k, a - 1 - V)
      <3>1. (k + 1) * g = k * g + g /\ k * g \in Int
        OBVIOUS
      <3>2. a - V = k * g + r /\ a - 1 - V = k * g + (r - 1)
        BY <2>2, <2>3
      <3>3. /\ k * g <= a - V /\ a - V < (k + 1) * g
            /\ k * g <= a - 1 - V /\ a - 1 - V < (k + 1) * g
        BY <3>1, <3>2
      <3>4. QED
        BY <3>3, Zenon DEF InGroup
    <2>5. a - V \in Int /\ a - 1 - V \in Int
      OBVIOUS
    <2>6. GroupInv
      BY DEF RegionsInv
    <2>7. QED
      BY <1>2, <2>4, <2>5, <2>6, Zenon DEF GroupInv
  <1>7. b % g = 0
    <2> SUFFICES ASSUME b % g # 0 PROVE FALSE
      OBVIOUS
    <2>1. b - 1 - V \in allocated <=> b - V \in allocated
      BY <1>6
    <2>2. b \in b..(b + z - 1) /\ b - 1 \in Int
      OBVIOUS
    <2>3. b - V \in allocated /\ b - 1 - V \notin allocated
      BY <1>5, <2>2, Zenon
    <2>4. QED
      BY <2>1, <2>3
  <1>8. PICK e \in Nat : e = b + z /\ e - 1 \in b..(b + z - 1)
    BY LastPage, Zenon
  <1>9. e % g = 0
    <2> SUFFICES ASSUME e % g # 0 PROVE FALSE
      OBVIOUS
    <2>1. e - 1 - V \in allocated <=> e - V \in allocated
      BY <1>6
    <2>2. e \in Int
      OBVIOUS
    <2>3. e - 1 - V \in allocated /\ e - V \notin allocated
      BY <1>5, <1>8, <2>2
    <2>4. QED
      BY <2>1, <2>3
  <1>10. b % g = 0 /\ (b + z) % g = 0
    BY <1>7, <1>8, <1>9, Zenon
  <1>11. QED
    BY <1>1, <1>2, <1>10, Zenon DEF AlignedTo

\* A multiple of g between b and b + z, which are multiples too, stays between them
\* with an offset below g.
LEMMA Multiples ==
    ASSUME NEW g \in Nat \ {0}, NEW b \in Nat, NEW z \in Nat \ {0},
           b % g = 0, (b + z) % g = 0,
           NEW n \in Nat, NEW offset \in 0..(g - 1),
           (b + z) \div g - 1 < b \div g \/ n \in (b \div g)..((b + z) \div g - 1)
    PROVE  b <= n * g + offset /\ n * g + offset < b + z /\ n * g + offset \in Nat
  <1>1. PICK l \in Nat : l = b \div g /\ b = l * g
    <2>1. PICK x, r : Divides(g, b, x, r)
      BY Divided
    <2>2. x \in Nat /\ x = b \div g /\ r = 0 /\ b = x * g + r
      BY <2>1 DEF Divides
    <2>3. b = x * g
      BY <2>2
    <2>4. QED
      BY <2>2, <2>3, Zenon
  <1>2. PICK h \in Nat : h = (b + z) \div g /\ b + z = h * g
    <2>1. b + z \in Nat
      OBVIOUS
    <2>2. PICK y, r : Divides(g, b + z, y, r)
      BY <2>1, Divided
    <2>3. y \in Nat /\ y = (b + z) \div g /\ r = 0 /\ b + z = y * g + r
      BY <2>2 DEF Divides
    <2>4. b + z = y * g
      BY <2>3
    <2>5. QED
      BY <2>3, <2>4, Zenon
  <1>3. l < h
    <2>1. l * g < h * g
      BY <1>1, <1>2
    <2>2. QED
      BY <2>1, TimesOrder
  <1>4. l <= n /\ n + 1 <= h
    <2>1. h - 1 < l \/ n \in l..(h - 1)
      BY <1>1, <1>2, Zenon
    <2>2. QED
      BY <1>3, <2>1
  <1>5. l * g <= n * g /\ (n + 1) * g <= h * g
    <2>1. n + 1 \in Int
      OBVIOUS
    <2>2. QED
      BY <1>4, <2>1, TimesOrder
  <1>6. (n + 1) * g = n * g + g /\ n * g \in Nat
    OBVIOUS
  <1>7. QED
    BY <1>1, <1>2, <1>5, <1>6

\* A random multiple of the alignment between the bounds of a region, and an offset
\* below the alignment, make up an address of the region.
LEMMA DrawStep ==
    ASSUME RegionsInv, NEW i \in 1..Len(regions), NEW bits \in Alignment,
           NEW n \in 0..(Frames + VirtualOffset), NEW offset \in 0..(2^bits - 1),
           Draw(i, bits, n, offset)
    PROVE  RegionsInv'
  <1>1. /\ pc = "constructed" /\ pc' = pc /\ order' = order /\ min_size' = min_size
        /\ regions' = regions /\ checker' = checker /\ allocated' = allocated
        /\ drawn' = [address |-> n * 2^bits + offset, bits |-> bits]
    BY DEF Draw
  <1>2. CountInv' /\ AllocInv' /\ BuiltInv' /\ GroupInv'
    <2>1. CountInv'
      BY <1>1 DEF RegionsInv, CountInv
    <2>2. AllocInv'
      BY <1>1 DEF RegionsInv, AllocInv
    <2>3. BuiltInv'
      BY <1>1 DEF RegionsInv, BuiltInv, Built
    <2>4. GroupInv'
      BY <1>1 DEF RegionsInv, GroupInv, InGroup
    <2>5. QED
      BY <2>1, <2>2, <2>3, <2>4
  <1>3. ASSUME bits <= order
        PROVE  /\ n * 2^bits + offset \in Nat
               /\ (n * 2^bits + offset) - VirtualOffset \in allocated
    <2>1. PICK g \in Nat \ {0} : g = 2^bits
      BY RegionsAssumption
    <2>2. regions[i] \in Block /\ Built
      BY <1>1 DEF RegionsInv, BuiltInv, Built
    <2>3. PICK b \in Nat, z \in Nat \ {0} : b = regions[i].base /\ z = regions[i].size
      BY <2>2, BlockFields
    <2>4. bits \in 0..order
      <3>1. bits \in Nat /\ order \in Nat
        BY RegionsAssumption DEF RegionsInv, CountInv
      <3>2. QED
        BY <1>3, <3>1
    <2>5. b % g = 0 /\ (b + z) % g = 0
      <3>1. AlignedTo(regions[i], 2^bits)
        BY <2>2, <2>4, RegionAligned
      <3>2. QED
        BY <2>1, <2>3, <3>1, Zenon DEF AlignedTo
    <2>6. n \in Nat /\ offset \in 0..(g - 1)
      BY <2>1, RegionsAssumption
    <2>7. (b + z) \div g - 1 < b \div g \/ n \in (b \div g)..((b + z) \div g - 1)
      BY <2>1, <2>3, Zenon DEF Draw, Lowest, Highest
    <2>8. PICK a \in Nat : a = n * g + offset /\ b <= a /\ a < b + z
      BY <2>5, <2>6, <2>7, Multiples
    <2>9. a \in b..(b + z - 1)
      BY <2>8
    <2>10. a - VirtualOffset \in allocated
      BY <2>2, <2>3, <2>9, RegionEdges
    <2>11. QED
      BY <2>1, <2>8, <2>10, Zenon
  <1>4. DrawnInv'
    <2>1. drawn'.address = n * 2^bits + offset /\ drawn'.bits = bits
      BY <1>1
    <2>2. QED
      BY <1>1, <1>3, <2>1 DEF DrawnInv
  <1>5. QED
    BY <1>2, <1>4 DEF RegionsInv

\* Every step keeps the invariant.
LEMMA StepInv == RegionsInv /\ [Next]_vars => RegionsInv'
  <1> SUFFICES ASSUME RegionsInv, [Next]_vars PROVE RegionsInv'
    OBVIOUS
  <1>1. CASE UNCHANGED vars
    <2>1. /\ pc' = pc /\ order' = order /\ min_size' = min_size /\ regions' = regions
          /\ checker' = checker /\ drawn' = drawn /\ allocated' = allocated
      BY <1>1 DEF vars
    <2>2. CountInv' /\ AllocInv'
      BY <2>1 DEF RegionsInv, CountInv, AllocInv
    <2>3. BuiltInv'
      BY <2>1 DEF RegionsInv, BuiltInv, Built
    <2>4. GroupInv'
      BY <2>1 DEF RegionsInv, GroupInv, InGroup
    <2>5. DrawnInv'
      BY <2>1 DEF RegionsInv, DrawnInv, None
    <2>6. QED
      BY <2>2, <2>3, <2>4, <2>5 DEF RegionsInv
  <1>2. CASE \E frame \in 0..(Frames - 1) : Alloc(frame)
    BY <1>2, AllocStep
  <1>3. CASE AllocFails \/ ReadCacheInfo \/ StartAgent \/ MmapChannels \/ IoctlFails
    BY <1>3, OtherSteps
  <1>4. CASE Defragment
    BY <1>4, DefragmentStep
  <1>5. CASE \E i \in 1..Len(regions) : \E bits \in Alignment :
                \E n \in 0..(Frames + VirtualOffset) : \E offset \in 0..(2^bits - 1) :
                   Draw(i, bits, n, offset)
    BY <1>5, DrawStep
  <1>6. QED
    BY <1>1, <1>2, <1>3, <1>4, <1>5 DEF Next

\* RegionsInv holds in every state of the constructor and after it.
LEMMA Invariant == Spec => []RegionsInv
  BY InitInv, StepInv, PTL DEF Spec

-----------------------------------------------------------------------------
(* The theorems.                                                           *)

\* The greatest of the bases up to an address is the base of the region that holds the
\* address, if one does.
LEMMA Upmost ==
    ASSUME NEW s \in Seq(Block), Gapped(s), NEW a \in Int,
           NEW i \in 1..Len(s), Holds(s[i], a), NEW j \in 1..Len(s),
           s[j].base <= a, s[j].base >= s[i].base
    PROVE  j = i
  <1> SUFFICES ASSUME i # j PROVE FALSE
    OBVIOUS
  <1>1. s[i] \in Block /\ s[j] \in Block
    OBVIOUS
  <1>2. PICK b, c \in Nat, l, m \in Nat \ {0} :
          b = s[i].base /\ c = s[j].base /\ l = s[i].size /\ m = s[j].size
    BY <1>1, BlockFields
  <1>3. (b < c /\ b + l < c) \/ (c < b /\ c + m < b)
    BY <1>2, Beyond2, Zenon
  <1>4. b <= a /\ a < b + l /\ c <= a /\ c >= b
    BY <1>2, Zenon DEF Holds
  <1>5. QED
    BY <1>2, <1>3, <1>4

\* address_checker accepts exactly the addresses of the memory.
LEMMA CheckerExact ==
    ASSUME RegionsInv, Built, NEW a \in Nat
    PROVE  Check(checker, a) <=> a - VirtualOffset \in allocated
  <1> DEFINE Bases == {regions[i].base : i \in 1..Len(regions)}
             Size(b) == (CHOOSE r \in Range(regions) : r.base = b).size
             below == {b \in DOMAIN checker : b <= a}
  <1>1. /\ regions \in Seq(Block) /\ Gapped(regions)
        /\ Covers(regions, a) <=> a - VirtualOffset \in allocated
        /\ checker = [b \in Bases |-> Size(b)]
    BY DEF RegionsInv, BuiltInv
  <1>2. \A i \in 1..Len(regions) : regions[i] \in Block /\ regions[i] \in Range(regions)
    BY <1>1 DEF Range
  <1>3. \A i \in 1..Len(regions) : regions[i].base \in Nat
    BY <1>2, BlockFields
  <1>4. \A i, j \in 1..Len(regions) : regions[i].base = regions[j].base => i = j
    <2> SUFFICES ASSUME NEW i \in 1..Len(regions), NEW j \in 1..Len(regions), i # j
                 PROVE  regions[i].base # regions[j].base
      OBVIOUS
    <2>1. PICK b, c \in Nat : b = regions[i].base /\ c = regions[j].base
      BY <1>3
    <2>2. b < c \/ c < b
      BY <1>1, <2>1, Beyond2, Zenon
    <2>3. b # c
      BY <2>1, <2>2
    <2>4. QED
      BY <2>1, <2>3, Zenon
  <1>5. \A i \in 1..Len(regions) : Size(regions[i].base) = regions[i].size
    <2> SUFFICES ASSUME NEW i \in 1..Len(regions) PROVE Size(regions[i].base) = regions[i].size
      OBVIOUS
    <2> DEFINE r == CHOOSE q \in Range(regions) : q.base = regions[i].base
    <2>1. r \in Range(regions) /\ r.base = regions[i].base
      BY <1>2, Zenon
    <2> HIDE DEF r
    <2>2. PICK j \in 1..Len(regions) : r = regions[j]
      BY <1>1, <2>1 DEF Range
    <2>3. r = regions[i]
      BY <1>4, <2>1, <2>2
    <2>4. QED
      BY <2>3, Zenon DEF r
  <1> HIDE DEF Size
  <1>6. /\ DOMAIN checker = Bases
        /\ \A i \in 1..Len(regions) : checker[regions[i].base] = regions[i].size
    BY <1>1, <1>5
  <1>7. below \in SUBSET Nat /\ \A m \in below : m <= a
    BY <1>3, <1>6
  <1>8. ASSUME NEW i \in 1..Len(regions), Holds(regions[i], a) PROVE Check(checker, a)
    <2>1. regions[i].base \in below
      BY <1>6, <1>8 DEF Holds
    <2>2. Max(below) \in below /\ \A m \in below : Max(below) >= m
      <3> HIDE DEF below
      <3>1. QED
        BY <1>7, <2>1, Greatest
    <2>3. PICK j \in 1..Len(regions) : Max(below) = regions[j].base
      BY <1>6, <2>2
    <2>4. regions[j].base <= a /\ regions[j].base >= regions[i].base
      <3> HIDE DEF below
      <3>1. QED
        BY <1>7, <2>1, <2>2, <2>3
    <2>5. j = i
      BY <1>1, <1>8, <2>4, Upmost
    <2>6. a < Max(below) + checker[Max(below)]
      <3>1. Max(below) = regions[i].base /\ checker[regions[i].base] = regions[i].size
        BY <1>6, <2>3, <2>5
      <3> HIDE DEF below
      <3>2. QED
        BY <1>8, <3>1, Zenon DEF Holds
    <2>7. QED
      BY <2>1, <2>6, Zenon DEF Check
  <1>9. ASSUME Check(checker, a) PROVE Covers(regions, a)
    <2>1. below # {} /\ a < Max(below) + checker[Max(below)]
      BY <1>9, Zenon DEF Check
    <2>2. Max(below) \in below
      <3> HIDE DEF below
      <3>1. QED
        BY <1>7, <2>1, Greatest
    <2>3. PICK j \in 1..Len(regions) : Max(below) = regions[j].base
      BY <1>6, <2>2
    <2>4. regions[j].base <= a
      BY <2>2, <2>3
    <2> HIDE DEF below
    <2>5. a < regions[j].base + regions[j].size
      BY <1>6, <2>1, <2>3, Zenon
    <2>6. QED
      BY <2>4, <2>5, Zenon DEF Covers, Holds
  <1>10. QED
    BY <1>1, <1>8, <1>9, Zenon DEF Covers

\* physical_adapter translates the physical address of every page to its virtual one.
LEMMA TranslateExact ==
    ASSUME RegionsInv, Built, NEW p \in allocated
    PROVE  translate(p) = p + VirtualOffset
  <1> DEFINE below == {r \in Range(regions) : r.physical_base <= p}
             it == CHOOSE r \in below : \A q \in below : q.physical_base <= r.physical_base
  <1>1. regions \in Seq(Block) /\ Gapped(regions)
    BY DEF RegionsInv, BuiltInv
  <1>2. p \in Nat /\ VirtualOffset \in Nat
    BY RegionsAssumption DEF RegionsInv, CountInv
  <1>3. PICK a \in Int : a = p + VirtualOffset /\ a - VirtualOffset = p
    BY <1>2
  <1>4. PICK i \in 1..Len(regions) : Holds(regions[i], a)
    BY <1>3 DEF RegionsInv, BuiltInv, Covers
  <1>5. \A r \in Range(regions) : r \in Block
    BY <1>1 DEF Range
  <1>6. regions[i] \in below
    <2>1. regions[i] \in Range(regions) /\ regions[i] \in Block
      BY <1>1 DEF Range
    <2>2. PICK b, c \in Nat : b = regions[i].base /\ c = regions[i].physical_base
                                /\ b = c + VirtualOffset
      BY <2>1, BlockFields
    <2>3. b <= a
      BY <1>4, <2>2, Zenon DEF Holds
    <2>4. c <= p
      BY <1>2, <1>3, <2>2, <2>3
    <2>5. QED
      BY <2>1, <2>2, <2>4
  <1>7. \E r \in below : \A q \in below : q.physical_base <= r.physical_base
    <2> DEFINE P == {r.physical_base : r \in below}
    <2>1. P \in SUBSET Nat /\ P # {} /\ \A m \in P : m <= p
      BY <1>5, <1>6, BlockFields
    <2>2. PICK m \in P : \A k \in P : m >= k
      <3> HIDE DEF P
      <3>1. QED
        BY <1>2, <2>1, Greatest
    <2>3. PICK r \in below : m = r.physical_base
      BY <2>2
    <2>4. ASSUME NEW q \in below PROVE q.physical_base <= r.physical_base
      <3>1. PICK k \in P : k = q.physical_base
        OBVIOUS
      <3>2. k \in Nat /\ m \in Nat /\ m >= k
        <4> HIDE DEF P
        <4>1. QED
          BY <2>1, <2>2
      <3>3. k <= m
        BY <3>2
      <3>4. QED
        BY <2>3, <3>1, <3>3, Zenon
    <2>5. QED
      BY <2>3, <2>4, Zenon
  <1>8. it \in below /\ \A q \in below : q.physical_base <= it.physical_base
    <2> HIDE DEF below
    <2>1. QED
      BY <1>7, Zenon
  <1> HIDE DEF it
  <1>9. PICK j \in 1..Len(regions) : it = regions[j]
    BY <1>1, <1>8 DEF Range
  <1>10. PICK b, c, d, e \in Nat :
           /\ b = regions[j].base /\ c = regions[j].physical_base /\ b = c + VirtualOffset
           /\ d = regions[i].base /\ e = regions[i].physical_base /\ d = e + VirtualOffset
    <2>1. regions[i] \in Block /\ regions[j] \in Block
      BY <1>1
    <2>2. QED
      BY <2>1, BlockFields
  <1>11. c <= p /\ e <= c
    BY <1>6, <1>8, <1>9, <1>10
  <1>12. b <= a /\ b >= d
    <2>1. b = c + VirtualOffset /\ d = e + VirtualOffset
      BY <1>10, Zenon
    <2>2. QED
      BY <1>2, <1>3, <1>11, <2>1
  <1>13. j = i
    BY <1>1, <1>4, <1>10, <1>12, Upmost
  <1>14. translate(p) = it.base + (p - it.physical_base)
    <2>1. below # {}
      BY <1>6
    <2> HIDE DEF below
    <2>2. QED
      BY <2>1, Zenon DEF translate, below, it
  <1>15. translate(p) = b + (p - c)
    BY <1>9, <1>10, <1>14, Zenon
  <1>16. b = c + VirtualOffset
    BY <1>10, Zenon
  <1>17. QED
    BY <1>2, <1>15, <1>16

\* The regions are exactly the memory that the device gave out: every page once, at
\* least what was asked for, joined as far as they can be, known to the checker and
\* translated from physical addresses.
THEOREM MemoryExact == Spec => []RegionsExact
  <1>1. ASSUME RegionsInv PROVE RegionsExact
    <2> SUFFICES ASSUME Built PROVE RegionsExact
      BY DEF RegionsExact
    <2>1. /\ regions \in Seq(Block) /\ Gapped(regions) /\ min_size = 0
          /\ \A a \in Int : Covers(regions, a) <=> a - VirtualOffset \in allocated
      BY <1>1 DEF RegionsInv, BuiltInv
    <2>2. /\ allocated \in SUBSET (0..(Frames - 1))
          /\ Cardinality(allocated) + min_size >= MinSize
      BY <1>1 DEF RegionsInv, CountInv
    <2>3. VirtualOffset \in Nat /\ MinSize \in Nat
      BY RegionsAssumption
    <2>4. DOMAIN regions = 1..Len(regions) /\ \A i \in 1..Len(regions) : regions[i] \in Block
      BY <2>1
    <2>5. ASSUME NEW r \in Range(regions), NEW k \in 0..(r.size - 1)
          PROVE  /\ r.physical_base + k \in allocated
                 /\ r.base + k = (r.physical_base + k) + VirtualOffset
      <3>1. PICK i \in 1..Len(regions) : r = regions[i]
        BY <2>4 DEF Range
      <3>2. PICK b, c \in Nat, z \in Nat \ {0} :
              b = r.base /\ c = r.physical_base /\ z = r.size /\ b = c + VirtualOffset
        BY <2>4, <3>1, BlockFields
      <3>3. k \in 0..(z - 1)
        BY <3>2
      <3>4. b <= b + k /\ b + k < b + z /\ b + k \in Int
        BY <3>2, <3>3
      <3>5. Covers(regions, b + k)
        BY <3>1, <3>2, <3>4, Zenon DEF Covers, Holds
      <3>6. (b + k) - VirtualOffset \in allocated
        BY <2>1, <3>4, <3>5, Zenon
      <3>7. (b + k) - VirtualOffset = c + k /\ b + k = (c + k) + VirtualOffset
        <4>1. PICK o \in Nat : o = VirtualOffset
          BY <2>3
        <4>2. b = c + o /\ k \in Int
          BY <3>2, <3>3, <4>1
        <4>3. (b + k) - o = c + k /\ b + k = (c + k) + o
          BY <4>2
        <4>4. QED
          BY <4>1, <4>3, Zenon
      <3>8. QED
        BY <3>2, <3>6, <3>7, Zenon
    <2>6. ASSUME NEW p \in allocated
          PROVE  \E r \in Range(regions) : \E k \in 0..(r.size - 1) :
                    r.physical_base + k = p /\ r.base + k = p + VirtualOffset
      <3>1. p \in Nat
        BY <2>2
      <3>2. p + VirtualOffset \in Int /\ (p + VirtualOffset) - VirtualOffset = p
        BY <2>3, <3>1
      <3>3. PICK i \in 1..Len(regions) : Holds(regions[i], p + VirtualOffset)
        BY <2>1, <3>2 DEF Covers
      <3>4. PICK b, c \in Nat, z \in Nat \ {0} :
              /\ b = regions[i].base /\ c = regions[i].physical_base /\ z = regions[i].size
              /\ b = c + VirtualOffset
        BY <2>4, BlockFields
      <3>5. b <= p + VirtualOffset /\ p + VirtualOffset < b + z
        BY <3>3, <3>4, Zenon DEF Holds
      <3>6. p - c \in 0..(z - 1) /\ c + (p - c) = p /\ b + (p - c) = p + VirtualOffset
        <4>1. b = c + VirtualOffset
          BY <3>4, Zenon
        <4>2. QED
          BY <2>3, <3>1, <3>5, <4>1
      <3>7. regions[i] \in Range(regions)
        BY <2>4 DEF Range
      <3>8. QED
        BY <3>4, <3>6, <3>7, Zenon
    <2>7. UNION {Mapping(r) : r \in Range(regions)} = {<<p + VirtualOffset, p>> : p \in allocated}
      <3>1. ASSUME NEW r \in Range(regions), NEW m \in Mapping(r)
            PROVE  m \in {<<p + VirtualOffset, p>> : p \in allocated}
        <4>1. PICK k \in 0..(r.size - 1) : m = <<r.base + k, r.physical_base + k>>
          BY Zenon DEF Mapping
        <4>2. r.physical_base + k \in allocated
                /\ m = <<(r.physical_base + k) + VirtualOffset, r.physical_base + k>>
          BY <2>5, <4>1, Zenon
        <4>3. QED
          BY <4>2, Zenon
      <3>2. ASSUME NEW p \in allocated
            PROVE  <<p + VirtualOffset, p>> \in UNION {Mapping(r) : r \in Range(regions)}
        <4>1. PICK r \in Range(regions) : \E k \in 0..(r.size - 1) :
                  r.physical_base + k = p /\ r.base + k = p + VirtualOffset
          BY <2>6, Zenon
        <4>2. <<p + VirtualOffset, p>> \in Mapping(r)
          BY <4>1, Zenon DEF Mapping
        <4>3. QED
          BY <4>2, Zenon
      <3>3. QED
        BY <3>1, <3>2, Zenon
    <2>8. Cardinality(allocated) >= MinSize
      <3>1. Cardinality(allocated) \in Nat
        BY <2>2, FiniteMemory
      <3>2. QED
        BY <2>1, <2>2, <2>3, <3>1
    <2>9. ASSUME NEW i \in 1..Len(regions), NEW j \in 1..Len(regions), i # j
          PROVE  /\ Pages(regions[i]) \cap Pages(regions[j]) = {}
                 /\ regions[i].base + regions[i].size # regions[j].base
      <3>1. PICK b, c \in Nat, l, m \in Nat \ {0} :
              /\ b = regions[i].base /\ c = regions[j].base
              /\ l = regions[i].size /\ m = regions[j].size
        BY <2>4, BlockFields
      <3>2. (b < c /\ b + l < c) \/ (c < b /\ c + m < b)
        BY <2>1, <2>9, <3>1, Beyond2, Zenon
      <3>3. (b..(b + l - 1)) \cap (c..(c + m - 1)) = {} /\ b + l # c
        BY <3>2
      <3>4. QED
        BY <3>1, <3>3, Zenon DEF Pages
    <2>10. \A a \in 0..(Frames + VirtualOffset) :
              Check(checker, a) <=> a - VirtualOffset \in allocated
      <3>1. \A a \in 0..(Frames + VirtualOffset) : a \in Nat
        BY <2>3, RegionsAssumption
      <3>2. QED
        BY <1>1, <3>1, CheckerExact
    <2>11. \A p \in allocated : translate(p) = p + VirtualOffset
      BY <1>1, TranslateExact
    <2>12. QED
      BY <2>7, <2>8, <2>9, <2>10, <2>11, Zenon DEF RegionsExact
  <1>2. QED
    BY Invariant, <1>1, PTL

\* A random address is an address of the memory whenever the constructor was given
\* blocks of the distribution's alignment at least, for every memory, every order in
\* which the blocks come and are joined, and every offset.
THEOREM DrawsInside == Spec => []DrawsValid
  <1>1. ASSUME RegionsInv PROVE DrawsValid
    <2> SUFFICES ASSUME drawn.address # None, drawn.bits <= order
                 PROVE  Check(checker, drawn.address)
      BY DEF DrawsValid
    <2>1. /\ pc = "constructed" /\ drawn.address \in Nat
          /\ drawn.address - VirtualOffset \in allocated
      BY <1>1 DEF RegionsInv, DrawnInv
    <2>2. Built
      BY <2>1 DEF Built
    <2>3. QED
      BY <1>1, <2>1, <2>2, CheckerExact
  <1>2. QED
    BY Invariant, <1>1, PTL
=============================================================================
