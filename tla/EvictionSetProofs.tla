-------------------------- MODULE EvictionSetProofs --------------------------
(***************************************************************************)
(* The theorems about the algorithms on eviction sets.  ReduceEvictionSet: *)
(* its iterators stay in range, what it leaves is an eviction set, and it  *)
(* gives up only when it must, for sets, associativities and sizes of any  *)
(* magnitude.  EvictionSetSearch: the search makes one eviction set for    *)
(* every cache set, and locate_set names the right one, for caches of any  *)
(* geometry and index function.                                            *)
(***************************************************************************)
EXTENDS ReduceEvictionSet, EvictionSetSearch, Lemmas

-----------------------------------------------------------------------------
(* The inductive invariant.                                                *)

\* The elements of s at the positions from..(to - 1), and how many of them are in C.
Part(s, from, to) == {s[i] : i \in (from + 1)..to}
Count(s, C, from, to) == Cardinality(Part(s, from, to) \cap C)

\* How many addresses at the positions from..(to - 1) are congruent to the target.
Hits(from, to) == Count(addresses, congruent, from, to)

Distinct(s) == \A i, j \in 1..Len(s) : s[i] = s[j] => i = j

\* The call, and the addresses in any order.
InputInv ==
    /\ algo \in {"reduce", "reduce_slow", "minimize_slow"}
    /\ stage \in {"loop", "groups", "found", "returned", "failed", "true", "false"}
    /\ max_size \in Nat \ {0} /\ ways \in Nat \ {0}
    /\ congruent \in SUBSET (1..MaxAddresses)
    /\ addresses \in Seq(1..MaxAddresses) /\ Len(addresses) <= MaxAddresses
    /\ Distinct(addresses)
    /\ last_it \in 0..Len(addresses)
    /\ current_size \in 0..MaxAddresses
    /\ algo = "reduce" => current_size = last_it
    /\ candidates_begin \in 0..MaxAddresses
    /\ stage = "true" => Len(addresses) = last_it

\* The addresses of the groups that are still to be tested.
Untested == group_counters[1] * (min_group_size + 1) + group_counters[2] * min_group_size

\* What the masked group and the groups behind it leave over at the end.
Leftover(masked) == last_it - masked - Untested

\* The masks of group testing.  The number of larger groups is computed as
\* current_size % min_group_size; it is smaller than the number of groups, so the
\* last group is never a larger one, and what the groups leave over is nothing or
\* at least a group.
MaskInv ==
    /\ min_group_size \in Nat
    /\ group_counters \in [1..2 -> 0..(max_size + 1)]
    /\ category \in 1..3
    /\ stage \in {"groups", "found"} =>
          /\ algo = "reduce" /\ min_group_size >= 1
          /\ mask_begin \in Nat /\ mask_end = mask_begin + group_size
          /\ category \in 1..2 /\ group_size = min_group_size + 2 - category
          /\ category = 1 => group_counters[2] >= 1
          /\ category = 2 => group_counters[1] = 0
    /\ stage = "groups" => Leftover(mask_begin) = 0 \/ Leftover(mask_begin) >= min_group_size
    /\ stage = "found" => Leftover(mask_end) = 0 \/ Leftover(mask_end) >= min_group_size

\* What the range holds: enough of the target's cache set.
HitsInv ==
    /\ stage \in {"loop", "groups", "found", "returned", "true"} => Hits(0, last_it) >= ways
    /\ stage = "found" => EvictsWith(Subrange(0, mask_begin) \cup Subrange(mask_end, last_it))
    /\ (stage \in {"returned", "true"} /\ algo # "minimize_slow") => last_it <= max_size

\* Every group that cannot be left out takes more of the target's cache set than
\* can be missed.
Tested == max_size + 1 - group_counters[1] - group_counters[2]
GroupInv ==
    stage = "groups" =>
        /\ Tested >= 0
        /\ Tested >= 1 => Hits(0, mask_begin) >= Hits(0, last_it) - ways + Tested

\* An address that the quadratic algorithms keep is congruent, and once one is kept
\* none can be missed.
KeptInv ==
    /\ stage = "loop" => candidates_begin <= last_it
    /\ algo = "reduce" => candidates_begin = 0
    /\ (stage \in {"loop", "returned", "true"} /\ candidates_begin > 0) =>
          /\ candidates_begin <= last_it /\ Hits(0, last_it) = ways
          /\ \A i \in 1..candidates_begin : addresses[i] \in congruent
    /\ (stage \in {"returned", "true"} /\ algo = "minimize_slow") => candidates_begin = last_it

FailInv == stage \in {"failed", "false"} => algo # "minimize_slow" /\ ways > max_size

ReduceInv == InputInv /\ MaskInv /\ HitsInv /\ GroupInv /\ KeptInv /\ FailInv

-----------------------------------------------------------------------------
(* Counting in parts of a sequence of distinct numbers.                    *)

\* A set of small numbers is finite.
LEMMA SmallFinite ==
    ASSUME NEW N \in Nat, NEW S \in SUBSET (1..N)
    PROVE  IsFiniteSet(S) /\ Cardinality(S) \in Nat
  <1>1. IsFiniteSet(1..N)
    BY FS_Interval
  <1>2. IsFiniteSet(S)
    BY <1>1, FS_Subset
  <1>3. QED
    BY <1>2, FS_CardinalityType

\* A larger set of small numbers does not have fewer elements.
LEMMA SmallMonotone ==
    ASSUME NEW N \in Nat, NEW T \in SUBSET (1..N), NEW S \in SUBSET T
    PROVE  Cardinality(S) <= Cardinality(T)
  BY SmallFinite, FS_Subset

\* A part of a sequence of small numbers is a set of small numbers.
LEMMA PartSmall ==
    ASSUME NEW N \in Nat, NEW s \in Seq(1..N), NEW a \in Nat, NEW b \in Nat, b <= Len(s)
    PROVE  Part(s, a, b) \in SUBSET (1..N)
  BY DEF Part

\* What is counted in two parts that do not overlap adds up.
LEMMA PartsCount ==
    ASSUME NEW N \in Nat, NEW s \in Seq(1..N), Distinct(s), NEW C,
           NEW a \in Nat, NEW b \in Nat, NEW c \in Nat, NEW d \in Nat,
           a <= b, b <= c, c <= d, d <= Len(s)
    PROVE  /\ Cardinality((Part(s, a, b) \cup Part(s, c, d)) \cap C)
                 = Count(s, C, a, b) + Count(s, C, c, d)
           /\ Count(s, C, a, b) \in Nat /\ Count(s, C, c, d) \in Nat
  <1>1. Part(s, a, b) \cap Part(s, c, d) = {}
    <2>1. ASSUME NEW i \in (a + 1)..b, NEW j \in (c + 1)..d
          PROVE  s[i] # s[j]
      BY DEF Distinct
    <2>2. QED
      BY <2>1, Zenon DEF Part
  <1>2. Part(s, a, b) \in SUBSET (1..N) /\ Part(s, c, d) \in SUBSET (1..N)
    <2>1. b <= Len(s)
      OBVIOUS
    <2>2. QED
      BY <2>1, PartSmall
  <1> DEFINE S == Part(s, a, b) \cap C
             T == Part(s, c, d) \cap C
  <1>3. /\ IsFiniteSet(S) /\ Cardinality(S) \in Nat
        /\ IsFiniteSet(T) /\ Cardinality(T) \in Nat
    BY <1>2, SmallFinite
  <1>4. S \cap T = {} /\ (Part(s, a, b) \cup Part(s, c, d)) \cap C = S \cup T
    BY <1>1
  <1>5. Cardinality(S \cup T) = Cardinality(S) + Cardinality(T)
    <2>1. Cardinality(S \cup T) = Cardinality(S) + Cardinality(T) - Cardinality(S \cap T)
      BY <1>3, FS_Union
    <2>2. Cardinality(S \cap T) = 0
      BY <1>4, FS_EmptySet
    <2>3. QED
      BY <1>3, <2>1, <2>2
  <1>6. QED
    BY <1>3, <1>4, <1>5 DEF Count

\* What is counted before and behind a position adds up.
LEMMA CountSplit ==
    ASSUME NEW N \in Nat, NEW s \in Seq(1..N), Distinct(s), NEW C,
           NEW a \in Nat, NEW b \in Nat, NEW c \in Nat, a <= b, b <= c, c <= Len(s)
    PROVE  /\ Count(s, C, a, c) = Count(s, C, a, b) + Count(s, C, b, c)
           /\ Count(s, C, a, b) \in Nat /\ Count(s, C, b, c) \in Nat
  <1>1. Part(s, a, c) = Part(s, a, b) \cup Part(s, b, c)
    <2>1. (a + 1)..c = ((a + 1)..b) \cup ((b + 1)..c)
      OBVIOUS
    <2>2. QED
      BY <2>1, Zenon DEF Part
  <1>2. /\ Cardinality((Part(s, a, b) \cup Part(s, b, c)) \cap C)
              = Count(s, C, a, b) + Count(s, C, b, c)
        /\ Count(s, C, a, b) \in Nat /\ Count(s, C, b, c) \in Nat
    <2>1. b <= b
      OBVIOUS
    <2>2. QED
      BY <2>1, PartsCount
  <1>3. Count(s, C, a, c) = Cardinality((Part(s, a, b) \cup Part(s, b, c)) \cap C)
    BY <1>1 DEF Count
  <1>4. QED
    BY <1>2, <1>3

\* A sequence of distinct elements has as many elements as positions.
LEMMA PartSize ==
    ASSUME NEW N \in Nat, NEW s \in Seq(1..N), Distinct(s), NEW n \in Nat, n <= Len(s)
    PROVE  Cardinality(Part(s, 0, n)) = n
  <1> DEFINE f == [i \in 1..n |-> s[i]]
  <1>1. f \in Bijection(1..n, Part(s, 0, n))
    <2>1. Part(s, 0, n) = {s[i] : i \in 1..n}
      BY DEF Part
    <2>2. f \in [1..n -> Part(s, 0, n)]
      BY <2>1
    <2>3. \A i, j \in 1..n : f[i] = f[j] => i = j
      BY DEF Distinct
    <2>4. \A x \in Part(s, 0, n) : \E i \in 1..n : f[i] = x
      BY <2>1
    <2>5. QED
      BY <2>2, <2>3, <2>4 DEF Bijection, Injection, Surjection, IsInjective
  <1>2. IsFiniteSet(1..n) /\ Cardinality(1..n) = n
    BY FS_Interval
  <1>3. ExistsBijection(1..n, Part(s, 0, n))
    BY <1>1 DEF ExistsBijection
  <1>4. QED
    BY <1>2, <1>3, FS_Bijection

-----------------------------------------------------------------------------
(* Dividing a set into groups.                                             *)

\* One group more or less.
LEMMA Distribute ==
    ASSUME NEW x \in Int, NEW y \in Int
    PROVE  /\ x * y \in Int /\ (x - 1) * y = x * y - y
           /\ (x + 1) * y = x * y + y /\ x * (y + 1) = x * y + x
  OBVIOUS

\* Products of naturals grow with their factors.
LEMMA ProductMonotone ==
    ASSUME NEW x \in Nat, NEW y \in Nat, NEW z \in Nat, x <= y
    PROVE  x * z \in Nat /\ y * z \in Nat /\ x * z <= y * z
  OBVIOUS

\* Quotient and remainder.
LEMMA Division ==
    ASSUME NEW n \in Nat, NEW k \in Nat \ {0}
    PROVE  n \div k \in Nat /\ n % k \in 0..(k - 1) /\ n = (n \div k) * k + (n % k)
  OBVIOUS

\* Quotients with a smaller divisor are larger, by a whole number of divisors.
LEMMA TwoDivisions ==
    ASSUME NEW groups \in Nat, NEW width \in Nat \ {0}, NEW r \in Nat,
           NEW q \in Nat, NEW extra \in 0..(width - 1), NEW n \in Nat,
           n = width * groups + r, n = q * width + extra, r < groups
    PROVE  /\ extra < groups
           /\ r - extra = 0 \/ r - extra >= width
  <1>1. width * groups = groups * width /\ groups * width \in Int /\ q * width \in Int
    OBVIOUS
  <1>2. (q + 1) * width = q * width + width /\ (groups + 1) * width = groups * width + width
    BY Distribute
  <1>3. q >= groups
    <2>1. SUFFICES ASSUME q + 1 <= groups PROVE FALSE
      OBVIOUS
    <2>2. (q + 1) * width <= groups * width
      BY <2>1, ProductMonotone
    <2>3. QED
      BY <1>1, <1>2, <2>2
  <1>4. CASE q = groups
    BY <1>1, <1>4
  <1>5. CASE q >= groups + 1
    <2>1. (groups + 1) * width <= q * width
      BY <1>5, ProductMonotone
    <2>2. QED
      BY <1>1, <1>2, <2>1
  <1>6. QED
    BY <1>3, <1>4, <1>5

\* The product of a group size and nothing.
LEMMA QuotientPositive ==
    ASSUME NEW width \in Nat, NEW groups \in Nat, NEW r \in Nat, NEW n \in Nat,
           n = width * groups + r, r < groups, groups <= n
    PROVE  width >= 1
  <1>1. 0 * groups = 0
    OBVIOUS
  <1>2. QED
    BY <1>1

\* Groups of two sizes, added up.
LEMMA GroupTotal ==
    ASSUME NEW width \in Nat, NEW groups \in Nat, NEW extra \in Nat
    PROVE  extra * (width + 1) + (groups - extra) * width = width * groups + extra
  <1>1. extra * (width + 1) = extra * width + extra
    BY Distribute
  <1>2. (groups - extra) * width = groups * width - extra * width
    OBVIOUS
  <1>3. groups * width = width * groups /\ extra * width \in Int /\ width * groups \in Int
    OBVIOUS
  <1>4. QED
    BY <1>1, <1>2, <1>3

\* The sizes that reduce_eviction_set computes: groups of size addresses, extra of
\* them with one more, fewer than all; they leave over nothing or a whole group.
LEMMA GroupSizes ==
    ASSUME NEW n \in Nat, NEW groups \in Nat \ {0}, groups <= n
    PROVE  LET width  == n \div groups
               extra == n % width
               left  == n - (extra * (width + 1) + (groups - extra) * width)
           IN  /\ width \in Nat /\ width >= 1 /\ extra \in Nat /\ extra < groups
               /\ left = 0 \/ left >= width
  <1> DEFINE width  == n \div groups
             extra == n % width
  <1>1. PICK r \in 0..(groups - 1) : width \in Nat /\ n = width * groups + r
    BY Division
  <1> HIDE DEF width
  <1>2. width >= 1
    BY <1>1, QuotientPositive
  <1>3. PICK q \in Nat : extra \in 0..(width - 1) /\ n = q * width + extra
    <2>1. width \in Nat \ {0}
      BY <1>1, <1>2
    <2>2. n \div width \in Nat /\ extra \in 0..(width - 1) /\ n = (n \div width) * width + extra
      BY <2>1, Division
    <2>3. QED
      BY <2>2, Zenon
  <1> HIDE DEF extra
  <1>4. extra < groups /\ (r - extra = 0 \/ r - extra >= width)
    <2>1. width \in Nat \ {0} /\ r \in Nat /\ r < groups /\ groups \in Nat
      BY <1>1, <1>2
    <2>2. QED
      BY <1>1, <1>3, <2>1, TwoDivisions
  <1>5. extra * (width + 1) + (groups - extra) * width = width * groups + extra
    BY <1>1, <1>3, GroupTotal
  <1>6. width * groups \in Int /\ extra \in Nat
    BY <1>1, <1>3
  <1>7. n - (extra * (width + 1) + (groups - extra) * width) = r - extra
    BY <1>1, <1>5, <1>6
  <1>8. QED
    BY <1>1, <1>2, <1>4, <1>6, <1>7 DEF width, extra

-----------------------------------------------------------------------------
(* Swapping two ranges.                                                    *)

\* The ranges of n positions at from and at to change places in t; every other
\* element that the algorithms look at stays.
Swapped(s, t, from, to, n) ==
    /\ Len(t) = Len(s) /\ Distinct(t)
    /\ \A i \in 1..to : t[i] = s[i]
    /\ \A i \in (to + n + 1)..from : t[i] = s[i]
    /\ \A i \in 1..n : t[from + i] = s[to + i] /\ t[to + i] = s[from + i]

\* That is what std::swap_ranges does.
LEMMA SwapPositions ==
    ASSUME NEW N \in Nat, NEW s \in Seq(1..N), Distinct(s),
           NEW from \in Nat, NEW to \in Nat, NEW n \in Nat,
           to + n <= from \/ to = from, from + n <= Len(s)
    PROVE  /\ SwapRanges(s, from, to, n) \in Seq(1..N)
           /\ Swapped(s, SwapRanges(s, from, to, n), from, to, n)
  <1> DEFINE t == SwapRanges(s, from, to, n)
  <1>0. s \in [1..Len(s) -> 1..N] /\ Len(s) \in Nat /\ DOMAIN s = 1..Len(s)
    OBVIOUS
  <1>1. ASSUME NEW i \in 1..Len(s)
        PROVE  /\ i \in (from + 1)..(from + n) => t[i] = s[i - from + to]
               /\ i \in (to + 1)..(to + n) => t[i] = s[i - to + from]
               /\ (i \notin (from + 1)..(from + n) /\ i \notin (to + 1)..(to + n))
                     => t[i] = s[i]
    BY <1>0 DEF SwapRanges
  <1>2. DOMAIN t = 1..Len(s) /\ t = [i \in 1..Len(s) |-> t[i]]
    BY <1>0 DEF SwapRanges
  <1> HIDE DEF t
  <1> DEFINE In(i, p) == p + 1 <= i /\ i <= p + n
             Comes(i, k) == \/ In(i, from) /\ k = i - from + to
                            \/ In(i, to) /\ k = i - to + from
                            \/ ~In(i, from) /\ ~In(i, to) /\ k = i
  <1>3. ASSUME NEW i \in 1..Len(s)
        PROVE  \E k \in 1..Len(s) : t[i] = s[k] /\ Comes(i, k)
    <2>1. CASE In(i, from)
      <3>1. i - from + to \in 1..Len(s) /\ t[i] = s[i - from + to]
        BY <1>0, <1>1, <2>1
      <3>2. QED
        BY <2>1, <3>1
    <2>2. CASE In(i, to)
      <3>1. i - to + from \in 1..Len(s) /\ t[i] = s[i - to + from]
        BY <1>0, <1>1, <2>2
      <3>2. QED
        BY <2>2, <3>1
    <2>3. CASE ~In(i, from) /\ ~In(i, to)
      BY <1>1, <2>3
    <2>4. QED
      BY <2>1, <2>2, <2>3
  <1> HIDE DEF Comes
  <1>4. t \in Seq(1..N) /\ Len(t) = Len(s)
    <2>1. \A i \in 1..Len(s) : t[i] \in 1..N
      BY <1>0, <1>3
    <2>2. QED
      BY <1>0, <1>2, <2>1
  <1>5. ASSUME NEW i \in 1..Len(s), NEW j \in 1..Len(s), t[i] = t[j]
        PROVE  i = j
    <2>1. PICK k \in 1..Len(s) : t[i] = s[k] /\ Comes(i, k)
      BY <1>3
    <2>2. PICK l \in 1..Len(s) : t[j] = s[l] /\ Comes(j, l)
      BY <1>3
    <2>3. k = l
      BY <1>5, <2>1, <2>2 DEF Distinct
    <2>4. QED
      BY <1>0, <2>1, <2>2, <2>3 DEF Comes
  <1>6. Distinct(t)
    BY <1>4, <1>5 DEF Distinct
  <1>7. \A i \in 1..to : t[i] = s[i]
    BY <1>0, <1>1
  <1>8. \A i \in (to + n + 1)..from : t[i] = s[i]
    BY <1>0, <1>1
  <1>9. ASSUME NEW i \in 1..n
        PROVE  t[from + i] = s[to + i] /\ t[to + i] = s[from + i]
    <2>1. /\ from + i \in 1..Len(s) /\ to + i \in 1..Len(s)
          /\ from + i \in (from + 1)..(from + n) /\ to + i \in (to + 1)..(to + n)
          /\ (from + i) - from + to = to + i /\ (to + i) - to + from = from + i
      BY <1>0
    <2>2. QED
      BY <1>1, <2>1
  <1>10. QED
    BY <1>4, <1>6, <1>7, <1>8, <1>9 DEF Swapped, t

\* Behind the swap, the shortened range holds what was before and behind the
\* group that goes.
LEMMA SwapKeeps ==
    ASSUME NEW N \in Nat, NEW s \in Seq(1..N), Distinct(s),
           NEW from \in Nat, NEW to \in Nat, NEW n \in Nat, NEW end \in Nat,
           to + n <= end, end <= from, from + n <= Len(s),
           NEW t, t = SwapRanges(s, from, to, n)
    PROVE  Part(s, 0, to) \cup Part(s, end, from + n) \subseteq Part(t, 0, from)
  <1>1. /\ \A i \in 1..to : t[i] = s[i]
        /\ \A i \in (to + n + 1)..from : t[i] = s[i]
        /\ \A i \in 1..n : t[to + i] = s[from + i]
    <2>1. to + n <= from \/ to = from
      OBVIOUS
    <2>2. Swapped(s, t, from, to, n)
      BY <2>1, SwapPositions
    <2>3. QED
      BY <2>2 DEF Swapped
  <1>2. ASSUME NEW i \in (0 + 1)..to
        PROVE  \E j \in (0 + 1)..from : t[j] = s[i]
    BY <1>1
  <1>3. ASSUME NEW i \in (end + 1)..(from + n)
        PROVE  \E j \in (0 + 1)..from : t[j] = s[i]
    <2>1. CASE i <= from
      BY <1>1, <2>1
    <2>2. CASE i > from
      <3>1. i - from \in 1..n /\ from + (i - from) = i /\ to + (i - from) \in (0 + 1)..from
        BY <2>2
      <3>2. QED
        BY <1>1, <3>1
    <2>3. QED
      BY <2>1, <2>2
  <1>4. QED
    BY <1>2, <1>3, Zenon DEF Part

\* The element at from has changed places with the one at b, in a range that ends
\* behind it.
Exchanged(s, t, from, b, N) ==
    /\ t \in Seq(1..N) /\ Len(t) = Len(s) /\ Distinct(t)
    /\ \A i \in 1..b : t[i] = s[i]
    /\ t[b + 1] = s[from + 1]
    /\ Part(t, 0, from + 1) = Part(s, 0, from + 1)

\* Exchanging the last element of a range with one before it leaves the range the
\* same set.
LEMMA ExchangeKeeps ==
    ASSUME NEW N \in Nat, NEW s \in Seq(1..N), Distinct(s),
           NEW b \in Nat, NEW from \in Nat, b <= from, from + 1 <= Len(s),
           NEW t, t = SwapRanges(s, from, b, 1)
    PROVE  Exchanged(s, t, from, b, N)
  <1>0. b + 1 <= from \/ b = from
    OBVIOUS
  <1>1. /\ t \in Seq(1..N) /\ Len(t) = Len(s) /\ Distinct(t)
        /\ \A i \in 1..b : t[i] = s[i]
        /\ \A i \in (b + 1 + 1)..from : t[i] = s[i]
        /\ \A i \in 1..1 : t[from + i] = s[b + i] /\ t[b + i] = s[from + i]
    <2>1. t \in Seq(1..N) /\ Swapped(s, t, from, b, 1)
      BY <1>0, SwapPositions
    <2>2. QED
      BY <2>1 DEF Swapped
  <1>2. t[from + 1] = s[b + 1] /\ t[b + 1] = s[from + 1]
    BY <1>1
  <1>3. ASSUME NEW i \in (0 + 1)..(from + 1)
        PROVE  /\ \E j \in (0 + 1)..(from + 1) : t[j] = s[i]
               /\ \E j \in (0 + 1)..(from + 1) : s[j] = t[i]
    <2>0. b + 1 \in (0 + 1)..(from + 1) /\ from + 1 \in (0 + 1)..(from + 1)
      OBVIOUS
    <2>1. CASE i = from + 1
      BY <1>2, <2>0, <2>1, Zenon
    <2>2. CASE i = b + 1
      BY <1>2, <2>0, <2>2, Zenon
    <2>3. CASE i # from + 1 /\ i # b + 1
      <3>1. i \in 1..b \/ i \in (b + 1 + 1)..from
        BY <2>3
      <3>2. t[i] = s[i]
        BY <1>1, <3>1, Zenon
      <3>3. QED
        BY <3>2, Zenon
    <2>4. QED
      BY <2>1, <2>2, <2>3, Zenon
  <1>4. Part(t, 0, from + 1) = Part(s, 0, from + 1)
    <2>1. /\ \A i \in (0 + 1)..(from + 1) : t[i] \in Part(s, 0, from + 1)
          /\ \A i \in (0 + 1)..(from + 1) : s[i] \in Part(t, 0, from + 1)
      BY <1>3, Zenon DEF Part
    <2>2. QED
      BY <2>1, Zenon DEF Part
  <1>5. QED
    BY <1>1, <1>2, <1>4 DEF Exchanged

-----------------------------------------------------------------------------
(* The invariant holds at the start and is kept by every step.             *)

\* Hits(from, to) adds up.
LEMMA HitsSplit ==
    ASSUME InputInv, NEW a \in Nat, NEW b \in Nat, NEW c \in Nat,
           a <= b, b <= c, c <= Len(addresses)
    PROVE  /\ Hits(a, c) = Hits(a, b) + Hits(b, c)
           /\ Hits(a, b) \in Nat /\ Hits(b, c) \in Nat
  <1>1. /\ MaxAddresses \in Nat /\ addresses \in Seq(1..MaxAddresses)
        /\ Distinct(addresses)
    BY SizeAssumption DEF InputInv
  <1>2. /\ Count(addresses, congruent, a, c)
              = Count(addresses, congruent, a, b) + Count(addresses, congruent, b, c)
        /\ Count(addresses, congruent, a, b) \in Nat
        /\ Count(addresses, congruent, b, c) \in Nat
    BY <1>1, CountSplit
  <1>3. QED
    BY <1>2 DEF Hits

\* Numbers that the steps compute with.
LEMMA Numbers ==
    ASSUME InputInv
    PROVE  /\ MaxAddresses \in Nat /\ Len(addresses) \in Nat /\ last_it \in Nat
           /\ last_it <= Len(addresses) /\ Hits(0, last_it) \in Nat
           /\ max_size \in Nat /\ max_size >= 1 /\ ways \in Nat /\ ways >= 1
           /\ Hits(0, 0) = 0
  <1>1. /\ MaxAddresses \in Nat /\ Len(addresses) \in Nat /\ last_it \in Nat
        /\ last_it <= Len(addresses) /\ max_size \in Nat /\ max_size >= 1
        /\ ways \in Nat /\ ways >= 1
    BY SizeAssumption DEF InputInv
  <1>2. /\ Hits(0, last_it) = Hits(0, 0) + Hits(0, last_it)
        /\ Hits(0, 0) \in Nat /\ Hits(0, last_it) \in Nat
    <2>1. 0 \in Nat /\ 0 <= 0 /\ 0 <= last_it
      BY <1>1
    <2>2. QED
      BY <1>1, <2>1, HitsSplit
  <1>3. QED
    BY <1>1, <1>2

\* The range is an eviction set when it has enough hits.
LEMMA RangeEvicts ==
    ASSUME NEW n
    PROVE  EvictsWith(Subrange(0, n)) <=> Hits(0, n) >= ways
  BY Zenon DEF EvictsWith, Subrange, Hits, Count, Part

\* At the call every position holds its own number.
LEMMA InvInit == Init => ReduceInv
  <1> SUFFICES ASSUME Init PROVE ReduceInv
    OBVIOUS
  <1>1. PICK n \in 1..MaxAddresses :
           /\ addresses = [i \in 1..n |-> i]
           /\ congruent \in SUBSET (1..n)
           /\ last_it = n /\ current_size = n
    BY DEF Init
  <1>2. /\ n \in Nat /\ addresses \in Seq(1..MaxAddresses) /\ Len(addresses) = n
        /\ Distinct(addresses)
    BY <1>1, SizeAssumption DEF Distinct
  <1>3. InputInv
    BY <1>1, <1>2, SizeAssumption DEF Init, InputInv
  <1>4. MaskInv
    BY <1>3 DEF Init, MaskInv, InputInv
  <1>5. HitsInv
    <2>1. Part(addresses, 0, last_it) = 1..n
      BY <1>1 DEF Part
    <2>2. Hits(0, last_it) = Cardinality(congruent)
      <3>1. (1..n) \cap congruent = congruent
        BY <1>1
      <3>2. QED
        BY <2>1, <3>1 DEF Hits, Count
    <2>3. QED
      BY <2>2 DEF Init, HitsInv
  <1>6. GroupInv /\ KeptInv /\ FailInv
    BY <1>1 DEF Init, GroupInv, KeptInv, FailInv
  <1>7. QED
    BY <1>3, <1>4, <1>5, <1>6 DEF ReduceInv

\* Nothing that is counted changes while the addresses stay.
LEMMA SameHits ==
    ASSUME UNCHANGED <<input, addresses>>
    PROVE  /\ \A a, b : Hits(a, b)' = Hits(a, b)
           /\ UNCHANGED <<algo, max_size, ways, congruent, addresses>>
  BY DEF input, Hits, Count, Part

\* A return, or no step at all.
LEMMA ReturnStep ==
    ASSUME ReduceInv, Reduced \/ SlowReturns \/ ReturnFalse \/ UNCHANGED vars
    PROVE  ReduceInv'
  <1>1. /\ UNCHANGED <<input, addresses>>
        /\ UNCHANGED <<last_it, current_size, candidates_begin>>
        /\ UNCHANGED <<min_group_size, group_counters, category, mask_begin, mask_end,
                       group_size>>
        /\ \/ stage = "loop" /\ stage' = "returned" /\ algo = "reduce" /\ current_size <= max_size
           \/ stage = "loop" /\ stage' = "returned" /\ algo # "reduce" /\ ~SlowLoops
           \/ stage = "failed" /\ stage' = "false"
           \/ stage' = stage
    BY DEF Reduced, SlowReturns, ReturnFalse, vars, masks
  <1>2. /\ \A a, b : Hits(a, b)' = Hits(a, b)
        /\ UNCHANGED <<algo, max_size, ways, congruent, addresses>>
    BY <1>1, SameHits
  <1>3. InputInv'
    BY <1>1, <1>2 DEF ReduceInv, InputInv, Distinct
  <1>4. MaskInv'
    BY <1>1, <1>2 DEF ReduceInv, MaskInv, Leftover, Untested
  <1>5. HitsInv'
    BY <1>1, <1>2 DEF ReduceInv, HitsInv, InputInv, SlowLoops, EvictsWith, Subrange
  <1>6. GroupInv'
    BY <1>1, <1>2 DEF ReduceInv, GroupInv, Tested
  <1>7. KeptInv'
    BY <1>1, <1>2, SizeAssumption DEF ReduceInv, KeptInv, InputInv, SlowLoops
  <1>8. FailInv'
    BY <1>1, <1>2 DEF ReduceInv, FailInv
  <1>9. QED
    BY <1>3, <1>4, <1>5, <1>6, <1>7, <1>8 DEF ReduceInv

\* The division into groups.
LEMMA DivideStep ==
    ASSUME ReduceInv, Divide
    PROVE  ReduceInv'
  <1>1. /\ UNCHANGED <<input, addresses>> /\ UNCHANGED <<last_it, current_size, candidates_begin>>
        /\ algo = "reduce" /\ stage = "loop" /\ stage' = "groups" /\ category' = 1
        /\ mask_begin' = 0 /\ current_size > max_size
    BY DEF Divide
  <1>2. /\ \A a, b : Hits(a, b)' = Hits(a, b)
        /\ UNCHANGED <<algo, max_size, ways, congruent, addresses>>
    BY <1>1, SameHits
  <1>3. /\ last_it \in Nat /\ max_size \in Nat /\ max_size >= 1 /\ ways \in Nat
        /\ current_size = last_it
    BY <1>1, Numbers DEF ReduceInv, InputInv
  <1>4. PICK width \in Nat, extra \in Nat :
           /\ width >= 1 /\ extra < max_size + 1
           /\ min_group_size' = width
           /\ group_counters' = <<extra, (max_size + 1) - extra>>
           /\ mask_end' = width + 1 /\ group_size' = width + 1
           /\ LET left == last_it - (extra * (width + 1) + ((max_size + 1) - extra) * width)
              IN  left = 0 \/ left >= width
    <2> DEFINE groups == max_size + 1
               width   == last_it \div groups
               extra  == last_it % width
               left   == last_it - (extra * (width + 1) + (groups - extra) * width)
    <2>1. groups \in Nat \ {0} /\ groups <= last_it
      BY <1>1, <1>3
    <2> HIDE DEF groups
    <2>2. /\ width \in Nat /\ width >= 1 /\ extra \in Nat /\ extra < groups
          /\ left = 0 \/ left >= width
      BY <1>3, <2>1, GroupSizes
    <2>3. /\ min_group_size' = width /\ group_counters' = <<extra, groups - extra>>
          /\ mask_end' = width + 1 /\ group_size' = width + 1
      BY <1>3 DEF Divide, groups
    <2> HIDE DEF width, extra
    <2>4. QED
      BY <2>2, <2>3, Zenon DEF groups
  <1>5. InputInv'
    BY <1>1, <1>2 DEF ReduceInv, InputInv, Distinct
  <1>6. /\ group_counters' \in [1..2 -> 0..(max_size + 1)]
        /\ group_counters'[1] = extra /\ group_counters'[2] = (max_size + 1) - extra
    BY <1>3, <1>4
  <1>7. MaskInv'
    <2>1. Leftover(mask_begin)'
             = last_it - 0 - (extra * (width + 1) + ((max_size + 1) - extra) * width)
      BY <1>1, <1>4, <1>6 DEF Leftover, Untested
    <2>2. extra * (width + 1) \in Int /\ ((max_size + 1) - extra) * width \in Int
      BY <1>3
    <2>3. Leftover(mask_begin)' = 0 \/ Leftover(mask_begin)' >= width
      BY <1>3, <1>4, <2>1, <2>2
    <2>4. QED
      BY <1>1, <1>2, <1>3, <1>4, <1>6, <2>3 DEF MaskInv
  <1>8. HitsInv'
    BY <1>1, <1>2 DEF ReduceInv, HitsInv
  <1>9. GroupInv'
    <2>1. Tested' = 0
      BY <1>2, <1>3, <1>6 DEF Tested
    <2>2. QED
      BY <2>1 DEF GroupInv
  <1>10. KeptInv' /\ FailInv'
    BY <1>1, <1>2 DEF ReduceInv, KeptInv, FailInv
  <1>11. QED
    BY <1>5, <1>7, <1>8, <1>9, <1>10 DEF ReduceInv

\* What the groups that are left take.
LEMMA GroupsLeft ==
    ASSUME NEW larger \in Nat, NEW smaller \in Nat, NEW width \in Nat, NEW rest,
           rest = larger * (width + 1) + smaller * width
    PROVE  /\ rest \in Nat
           /\ (larger - 1) * (width + 1) + smaller * width = rest - (width + 1)
           /\ larger * (width + 1) + (smaller - 1) * width = rest - width
           /\ larger >= 1 => rest >= width + 1
           /\ smaller >= 1 => rest >= width
           /\ larger = 0 /\ smaller = 0 => rest = 0
  <1>1. /\ larger * (width + 1) \in Int /\ smaller * width \in Int
        /\ (larger - 1) * (width + 1) = larger * (width + 1) - (width + 1)
        /\ (smaller - 1) * width = smaller * width - width
    BY Distribute
  <1>2. larger * (width + 1) >= 0 /\ smaller * width >= 0
    <2>1. 0 * (width + 1) = 0 /\ 0 * width = 0
      OBVIOUS
    <2>2. 0 * (width + 1) <= larger * (width + 1) /\ 0 * width <= smaller * width
      BY ProductMonotone
    <2>3. QED
      BY <2>1, <2>2
  <1>3. larger >= 1 => larger * (width + 1) >= width + 1
    <2>1. SUFFICES ASSUME larger >= 1 PROVE larger * (width + 1) >= width + 1
      OBVIOUS
    <2>2. 1 * (width + 1) <= larger * (width + 1)
      BY <2>1, ProductMonotone
    <2>3. 1 * (width + 1) = width + 1
      OBVIOUS
    <2>4. QED
      BY <1>1, <2>2, <2>3
  <1>4. smaller >= 1 => smaller * width >= width
    <2>1. SUFFICES ASSUME smaller >= 1 PROVE smaller * width >= width
      OBVIOUS
    <2>2. 1 * width <= smaller * width
      BY <2>1, ProductMonotone
    <2>3. 1 * width = width
      OBVIOUS
    <2>4. QED
      BY <1>1, <2>2, <2>3
  <1>5. /\ larger = 0 => larger * (width + 1) = 0
        /\ smaller = 0 => smaller * width = 0
    OBVIOUS
  <1>6. QED
    BY <1>1, <1>2, <1>3, <1>4, <1>5

\* The masks, spelled out.
LEMMA MaskFacts ==
    ASSUME ReduceInv, stage \in {"groups", "found"}
    PROVE  /\ algo = "reduce" /\ min_group_size \in Nat /\ min_group_size >= 1
           /\ category \in 1..2 /\ group_size = min_group_size + 2 - category
           /\ group_size \in Nat /\ group_size >= 1
           /\ mask_begin \in Nat /\ mask_end \in Nat /\ mask_end = mask_begin + group_size
           /\ group_counters \in [1..2 -> 0..(max_size + 1)]
           /\ group_counters[1] \in Nat /\ group_counters[2] \in Nat
           /\ group_counters[category] \in Nat
           /\ category = 1 => group_counters[2] >= 1
           /\ category = 2 => group_counters[1] = 0
           /\ Untested \in Nat
           /\ group_counters[1] >= 1 => Untested >= min_group_size + 1
           /\ group_counters[2] >= 1 => Untested >= min_group_size
           /\ group_counters[1] = 0 /\ group_counters[2] = 0 => Untested = 0
  <1>1. /\ algo = "reduce" /\ min_group_size \in Nat /\ min_group_size >= 1
        /\ category \in 1..2 /\ group_size = min_group_size + 2 - category
        /\ mask_begin \in Nat /\ mask_end = mask_begin + group_size
        /\ group_counters \in [1..2 -> 0..(max_size + 1)]
        /\ category = 1 => group_counters[2] >= 1
        /\ category = 2 => group_counters[1] = 0
    BY DEF ReduceInv, MaskInv
  <1>2. max_size \in Nat
    BY Numbers DEF ReduceInv
  <1>3. group_size \in Nat /\ group_size >= 1 /\ mask_end \in Nat
    BY <1>1
  <1>4. \A c \in 1..2 : group_counters[c] \in Nat
    BY <1>1, <1>2
  <1>5. /\ Untested \in Nat
        /\ group_counters[1] >= 1 => Untested >= min_group_size + 1
        /\ group_counters[2] >= 1 => Untested >= min_group_size
        /\ group_counters[1] = 0 /\ group_counters[2] = 0 => Untested = 0
    BY <1>1, <1>4, GroupsLeft DEF Untested
  <1>6. QED
    BY <1>1, <1>3, <1>4, <1>5

\* A group that is to be tested lies in the range.
LEMMA MaskInRange ==
    ASSUME ReduceInv, stage = "groups", group_counters[category] > 0
    PROVE  mask_end <= last_it
  <1>1. Untested >= group_size /\ Untested \in Nat
    BY MaskFacts
  <1>2. Leftover(mask_begin) = 0 \/ Leftover(mask_begin) >= min_group_size
    BY DEF ReduceInv, MaskInv
  <1>3. last_it \in Nat
    BY Numbers DEF ReduceInv
  <1>4. QED
    BY <1>1, <1>2, <1>3, MaskFacts DEF Leftover

\* A group without which the rest does not evict takes more hits than can be missed.
LEMMA GroupNeeded ==
    ASSUME ReduceInv, stage = "groups", group_counters[category] > 0,
           ~EvictsWith(Subrange(0, mask_begin) \cup Subrange(mask_end, last_it))
    PROVE  /\ Hits(0, mask_begin) \in Nat /\ Hits(0, mask_end) \in Nat
           /\ Hits(0, mask_end) >= Hits(0, mask_begin) + Hits(0, last_it) - ways + 1
  <1>1. /\ mask_begin \in Nat /\ mask_end \in Nat /\ mask_begin <= mask_end
        /\ mask_end <= last_it /\ last_it <= Len(addresses) /\ last_it \in Nat /\ ways \in Nat
        /\ 0 <= mask_begin /\ 0 <= mask_end /\ 0 \in Nat /\ mask_end <= Len(addresses)
    <2>1. /\ last_it <= Len(addresses) /\ last_it \in Nat /\ ways \in Nat /\ Len(addresses) \in Nat
      BY Numbers DEF ReduceInv
    <2>2. /\ mask_begin \in Nat /\ mask_end \in Nat /\ mask_end = mask_begin + group_size
          /\ group_size \in Nat
      BY MaskFacts
    <2>3. QED
      BY <2>1, <2>2, MaskInRange
  <1>2. InputInv
    BY DEF ReduceInv
  <1>3. /\ Hits(0, last_it) = Hits(0, mask_end) + Hits(mask_end, last_it)
        /\ Hits(0, mask_end) = Hits(0, mask_begin) + Hits(mask_begin, mask_end)
        /\ Hits(0, mask_begin) \in Nat /\ Hits(0, mask_end) \in Nat
        /\ Hits(mask_begin, mask_end) \in Nat /\ Hits(mask_end, last_it) \in Nat
    <2>1. /\ Hits(0, last_it) = Hits(0, mask_end) + Hits(mask_end, last_it)
          /\ Hits(0, mask_end) \in Nat /\ Hits(mask_end, last_it) \in Nat
      BY <1>1, <1>2, HitsSplit
    <2>2. /\ Hits(0, mask_end) = Hits(0, mask_begin) + Hits(mask_begin, mask_end)
          /\ Hits(0, mask_begin) \in Nat /\ Hits(mask_begin, mask_end) \in Nat
      BY <1>1, <1>2, HitsSplit
    <2>3. QED
      BY <2>1, <2>2
  <1>4. Cardinality((Subrange(0, mask_begin) \cup Subrange(mask_end, last_it)) \cap congruent)
           = Hits(0, mask_begin) + Hits(mask_end, last_it)
    <2>1. /\ MaxAddresses \in Nat /\ addresses \in Seq(1..MaxAddresses)
          /\ Distinct(addresses)
      BY <1>2, SizeAssumption DEF InputInv
    <2>2. Cardinality((Part(addresses, 0, mask_begin) \cup Part(addresses, mask_end, last_it))
                        \cap congruent)
             = Count(addresses, congruent, 0, mask_begin)
                 + Count(addresses, congruent, mask_end, last_it)
      BY <1>1, <2>1, PartsCount
    <2>3. QED
      BY <2>2, Zenon DEF Subrange, Part, Hits
  <1>5. Hits(0, mask_begin) + Hits(mask_end, last_it) < ways
    BY <1>1, <1>3, <1>4 DEF EvictsWith
  <1>6. QED
    BY <1>1, <1>3, <1>5

\* The test of one group.
LEMMA TestStep ==
    ASSUME ReduceInv, TestGroup
    PROVE  ReduceInv'
  <1>1. /\ UNCHANGED <<input, addresses>> /\ UNCHANGED <<last_it, current_size, candidates_begin>>
        /\ stage = "groups" /\ group_counters[category] > 0
        /\ group_counters' = [group_counters EXCEPT ![category] = @ - 1]
    BY DEF TestGroup
  <1>f. UNCHANGED <<min_group_size, category, group_size, last_it>>
    BY DEF TestGroup
  <1>2. /\ \A a, b : Hits(a, b)' = Hits(a, b)
        /\ UNCHANGED <<algo, max_size, ways, congruent, addresses>>
    BY <1>1, SameHits
  <1> DEFINE rest == Subrange(0, mask_begin) \cup Subrange(mask_end, last_it)
  <1>3. \/ EvictsWith(rest) /\ stage' = "found" /\ UNCHANGED <<mask_begin, mask_end>>
        \/ /\ ~EvictsWith(rest) /\ stage' = "groups"
           /\ mask_begin' = mask_begin + group_size /\ mask_end' = mask_end + group_size
    BY <1>1 DEF TestGroup
  <1>4. /\ last_it \in Nat /\ last_it <= Len(addresses) /\ max_size \in Nat /\ ways \in Nat
        /\ Hits(0, last_it) \in Nat /\ Hits(0, last_it) >= ways
    BY <1>1, Numbers DEF ReduceInv, HitsInv
  <1>5. InputInv'
    BY <1>1, <1>2, <1>3 DEF ReduceInv, InputInv, Distinct
  <1>0. /\ algo = "reduce" /\ min_group_size \in Nat /\ min_group_size >= 1
        /\ category \in 1..2 /\ group_size = min_group_size + 2 - category
        /\ group_size \in Nat /\ mask_begin \in Nat /\ mask_end = mask_begin + group_size
        /\ group_counters \in [1..2 -> 0..(max_size + 1)]
        /\ group_counters[1] \in Nat /\ group_counters[2] \in Nat
        /\ category = 1 => group_counters[2] >= 1
        /\ category = 2 => group_counters[1] = 0
    BY <1>1, MaskFacts
  <1>6. /\ group_counters' \in [1..2 -> 0..(max_size + 1)]
        /\ group_counters'[category] = group_counters[category] - 1
        /\ \A c \in 1..2 : c # category => group_counters'[c] = group_counters[c]
    BY <1>0, <1>1, <1>4
  <1>7. Untested' = Untested - group_size /\ Untested \in Nat
    <2>1. CASE category = 1
      <3>1. Untested' = (group_counters[1] - 1) * (min_group_size + 1)
                           + group_counters[2] * min_group_size
        BY <1>f, <1>6, <2>1 DEF Untested
      <3>2. QED
        BY <1>0, <2>1, <3>1, GroupsLeft DEF Untested
    <2>2. CASE category = 2
      <3>1. Untested' = group_counters[1] * (min_group_size + 1)
                           + (group_counters[2] - 1) * min_group_size
        BY <1>f, <1>6, <2>2 DEF Untested
      <3>2. /\ Untested \in Nat
            /\ group_counters[1] * (min_group_size + 1)
                  + (group_counters[2] - 1) * min_group_size = Untested - min_group_size
        BY <1>0, GroupsLeft DEF Untested
      <3>3. QED
        BY <1>0, <2>2, <3>1, <3>2
    <2>3. QED
      BY <1>0, <2>1, <2>2
  <1>8. MaskInv'
    <2>1. Leftover(mask_begin) = 0 \/ Leftover(mask_begin) >= min_group_size
      BY <1>1 DEF ReduceInv, MaskInv
    <2>2. CASE EvictsWith(rest)
      <3>1. stage' = "found" /\ UNCHANGED <<mask_begin, mask_end>>
        BY <1>3, <2>2
      <3>2. Leftover(mask_end)' = Leftover(mask_begin)
        BY <1>0, <1>f, <1>4, <1>7, <3>1 DEF Leftover
      <3>3. QED
        BY <1>0, <1>f, <1>2, <1>4, <1>6, <2>1, <3>1, <3>2 DEF MaskInv
    <2>3. CASE ~EvictsWith(rest)
      <3>1. /\ stage' = "groups" /\ mask_begin' = mask_begin + group_size
            /\ mask_end' = mask_end + group_size
        BY <1>3, <2>3
      <3>2. Leftover(mask_begin)' = Leftover(mask_begin)
        BY <1>0, <1>f, <1>4, <1>7, <3>1 DEF Leftover
      <3>3. QED
        BY <1>0, <1>f, <1>2, <1>4, <1>6, <2>1, <3>1, <3>2 DEF MaskInv
    <2>4. QED
      BY <2>2, <2>3
  <1>9. HitsInv'
    <2>1. stage' = "found" => EvictsWith(rest)'
      BY <1>1, <1>2, <1>3 DEF EvictsWith, Subrange
    <2>2. QED
      BY <1>1, <1>2, <1>3, <1>4, <2>1 DEF HitsInv
  <1>10. GroupInv'
    <2>1. SUFFICES ASSUME ~EvictsWith(rest)
                   PROVE  /\ Tested' >= 0
                          /\ Hits(0, mask_begin)' >= (Hits(0, last_it) - ways + Tested)'
      BY <1>3 DEF GroupInv
    <2>2. Tested' = Tested + 1 /\ Tested \in Int /\ Tested >= 0
      <3>0. /\ max_size \in Nat /\ max_size' = max_size
            /\ group_counters[1] \in Nat /\ group_counters[2] \in Nat
        BY <1>0, <1>2, <1>4
      <3>1. Tested >= 0
        BY <1>1 DEF ReduceInv, GroupInv
      <3>2. CASE category = 1
        <4>1. group_counters'[1] = group_counters[1] - 1 /\ group_counters'[2] = group_counters[2]
          BY <1>6, <3>2
        <4>2. QED
          BY <3>0, <3>1, <4>1 DEF Tested
      <3>3. CASE category = 2
        <4>1. group_counters'[2] = group_counters[2] - 1 /\ group_counters'[1] = group_counters[1]
          BY <1>6, <3>3
        <4>2. QED
          BY <3>0, <3>1, <4>1 DEF Tested
      <3>4. QED
        BY <1>0, <3>2, <3>3
    <2>3. mask_begin' = mask_end
      BY <1>0, <1>3, <2>1
    <2>4. Hits(0, mask_begin)' = Hits(0, mask_end) /\ Hits(0, last_it)' = Hits(0, last_it)
      BY <1>1, <1>2, <2>3 DEF Hits
    <2>5. /\ Hits(0, mask_begin) \in Nat /\ Hits(0, mask_end) \in Nat
          /\ Hits(0, mask_end) >= Hits(0, mask_begin) + Hits(0, last_it) - ways + 1
      BY <1>1, <2>1, GroupNeeded
    <2>6. Tested >= 1 => Hits(0, mask_begin) >= Hits(0, last_it) - ways + Tested
      BY <1>1 DEF ReduceInv, GroupInv
    <2>7. QED
      BY <1>2, <1>4, <2>2, <2>4, <2>5, <2>6
  <1>11. KeptInv' /\ FailInv'
    BY <1>1, <1>2, <1>3 DEF ReduceInv, KeptInv, FailInv
  <1>12. QED
    BY <1>5, <1>8, <1>9, <1>10, <1>11 DEF ReduceInv

\* The change to the smaller groups, or the end of the groups: every group has then
\* taken more than can be missed, so there are more ways than max_size.
LEMMA CategoryStep ==
    ASSUME ReduceInv, NextCategory
    PROVE  ReduceInv'
  <1>1. /\ UNCHANGED <<input, addresses>> /\ UNCHANGED <<last_it, current_size, candidates_begin>>
        /\ stage = "groups" /\ group_counters[category] = 0
    BY DEF NextCategory
  <1>2. /\ UNCHANGED <<min_group_size, group_counters, mask_begin>>
        /\ category' = category + 1 /\ mask_end' = mask_end - 1
        /\ group_size' = group_size - 1
        /\ stage' = IF category = 2 THEN "failed" ELSE "groups"
    BY DEF NextCategory
  <1>3. /\ \A a, b : Hits(a, b)' = Hits(a, b)
        /\ UNCHANGED <<algo, max_size, ways, congruent, addresses>>
    BY <1>1, SameHits
  <1>4. /\ last_it \in Nat /\ last_it <= Len(addresses) /\ max_size \in Nat /\ ways \in Nat
        /\ Hits(0, last_it) \in Nat /\ Hits(0, last_it) >= ways /\ Len(addresses) \in Nat
    BY <1>1, Numbers DEF ReduceInv, HitsInv
  <1>5. /\ algo = "reduce" /\ min_group_size \in Nat /\ min_group_size >= 1
        /\ category \in 1..2 /\ group_size = min_group_size + 2 - category
        /\ mask_begin \in Nat /\ mask_end = mask_begin + group_size
        /\ group_counters \in [1..2 -> 0..(max_size + 1)]
        /\ category = 2 => group_counters[1] = 0
    BY <1>1, MaskFacts
  <1>6. InputInv'
    BY <1>1, <1>2, <1>3, <1>5 DEF ReduceInv, InputInv, Distinct
  <1>7. MaskInv'
    <2>1. Leftover(mask_begin)' = Leftover(mask_begin)
      BY <1>1, <1>2 DEF Leftover, Untested
    <2>2. Leftover(mask_begin) = 0 \/ Leftover(mask_begin) >= min_group_size
      BY <1>1 DEF ReduceInv, MaskInv
    <2>3. CASE category = 1
      BY <1>1, <1>2, <1>3, <1>5, <2>1, <2>2, <2>3 DEF MaskInv
    <2>4. CASE category = 2
      BY <1>2, <1>3, <1>5, <2>4 DEF MaskInv
    <2>5. QED
      BY <1>5, <2>3, <2>4
  <1>8. HitsInv'
    BY <1>1, <1>2, <1>3, <1>4 DEF HitsInv
  <1>9. GroupInv'
    <2>1. Tested' = Tested
      BY <1>2, <1>3 DEF Tested
    <2>2. QED
      BY <1>1, <1>2, <1>3, <2>1 DEF ReduceInv, GroupInv
  <1>10. KeptInv'
    BY <1>1, <1>2, <1>3 DEF ReduceInv, KeptInv
  <1>11. FailInv'
    <2>1. SUFFICES ASSUME category = 2 PROVE ways > max_size
      BY <1>2, <1>3, <1>5 DEF FailInv
    <2>2. group_counters[1] = 0 /\ group_counters[2] = 0
      BY <1>1, <1>5, <2>1
    <2>3. Untested = 0
      BY <1>1, <2>2, MaskFacts
    <2>4. mask_begin <= last_it
      <3>1. Leftover(mask_begin) = 0 \/ Leftover(mask_begin) >= min_group_size
        BY <1>1 DEF ReduceInv, MaskInv
      <3>2. QED
        BY <1>4, <1>5, <2>3, <3>1 DEF Leftover
    <2>5. Hits(0, mask_begin) \in Nat /\ Hits(0, mask_begin) <= Hits(0, last_it)
      <3>1. 0 \in Nat /\ 0 <= mask_begin /\ InputInv
        BY <1>5 DEF ReduceInv
      <3>2. /\ Hits(0, last_it) = Hits(0, mask_begin) + Hits(mask_begin, last_it)
            /\ Hits(0, mask_begin) \in Nat /\ Hits(mask_begin, last_it) \in Nat
        BY <1>4, <1>5, <2>4, <3>1, HitsSplit
      <3>3. QED
        BY <3>2
    <2>6. Tested = max_size + 1
      BY <1>4, <2>2 DEF Tested
    <2>7. Hits(0, mask_begin) >= Hits(0, last_it) - ways + (max_size + 1)
      BY <1>1, <1>4, <2>6 DEF ReduceInv, GroupInv
    <2>8. QED
      BY <1>4, <2>5, <2>7
  <1>12. QED
    BY <1>6, <1>7, <1>8, <1>9, <1>10, <1>11 DEF ReduceInv

\* The masked group is the last one, and then it has min_group_size members, or the
\* range goes on behind it for at least as many.
LEMMA FoundMask ==
    ASSUME ReduceInv, stage = "found"
    PROVE  /\ mask_end = last_it => mask_begin = last_it - min_group_size
           /\ mask_end # last_it => mask_end <= last_it - min_group_size
           /\ mask_begin + min_group_size <= mask_end
           /\ mask_begin \in Nat /\ mask_end \in Nat
           /\ min_group_size \in Nat /\ min_group_size >= 1
  <1>1. /\ min_group_size \in Nat /\ min_group_size >= 1
        /\ category \in 1..2 /\ group_size = min_group_size + 2 - category
        /\ mask_begin \in Nat /\ mask_end \in Nat /\ mask_end = mask_begin + group_size
        /\ group_counters[1] \in Nat /\ group_counters[2] \in Nat
        /\ category = 1 => group_counters[2] >= 1
        /\ Untested \in Nat
        /\ group_counters[1] >= 1 => Untested >= min_group_size + 1
        /\ group_counters[2] >= 1 => Untested >= min_group_size
        /\ group_counters[1] = 0 /\ group_counters[2] = 0 => Untested = 0
    BY MaskFacts
  <1>2. last_it - mask_end - Untested = 0 \/ last_it - mask_end - Untested >= min_group_size
    BY DEF ReduceInv, MaskInv, Leftover
  <1>3. last_it \in Nat
    BY Numbers DEF ReduceInv
  <1>4. QED
    BY <1>1, <1>2, <1>3

\* The masked group is dropped, with the last group in its place.
LEMMA FoundStep ==
    ASSUME ReduceInv, Found
    PROVE  ReduceInv'
  <1>1. /\ stage = "found" /\ stage' = "loop" /\ current_size' = current_size - min_group_size
        /\ UNCHANGED <<algo, max_size, ways, congruent, candidates_begin>>
        /\ UNCHANGED <<min_group_size, group_counters, category>>
    BY DEF Found, input, masks
  <1>2. InputInv /\ HitsInv /\ algo = "reduce" /\ current_size = last_it /\ candidates_begin = 0
    <2>1. InputInv /\ HitsInv /\ algo = "reduce"
      BY <1>1, MaskFacts DEF ReduceInv
    <2>2. QED
      BY <2>1 DEF ReduceInv, InputInv, KeptInv
  <1>3. /\ MaxAddresses \in Nat /\ addresses \in Seq(1..MaxAddresses) /\ Distinct(addresses)
        /\ Len(addresses) \in Nat /\ Len(addresses) <= MaxAddresses
        /\ last_it \in Nat /\ last_it <= Len(addresses) /\ ways \in Nat
    BY <1>2, Numbers DEF InputInv
  <1>4. /\ mask_end = last_it => mask_begin = last_it - min_group_size
        /\ mask_end # last_it => mask_end <= last_it - min_group_size
        /\ mask_begin + min_group_size <= mask_end
        /\ mask_begin \in Nat /\ mask_end \in Nat
        /\ min_group_size \in Nat /\ min_group_size >= 1
    BY <1>1, FoundMask
  <1> DEFINE kept == Part(addresses, 0, mask_begin) \cup Part(addresses, mask_end, last_it)
  <1>5. Cardinality(kept \cap congruent) >= ways
    BY <1>1, <1>2, Zenon DEF HitsInv, EvictsWith, Subrange, Part
  <1>6. /\ last_it' \in Nat /\ last_it' = last_it - min_group_size
        /\ addresses' \in Seq(1..MaxAddresses) /\ Len(addresses') = Len(addresses)
        /\ Distinct(addresses') /\ kept \subseteq Part(addresses', 0, last_it')
    <2>1. CASE mask_end = last_it
      <3>1. last_it' = mask_begin /\ addresses' = addresses
        BY <2>1 DEF Found
      <3>2. Part(addresses, last_it, last_it) = {}
        BY <1>3 DEF Part
      <3>3. kept = Part(addresses, 0, mask_begin)
        BY <2>1, <3>2
      <3>4. QED
        BY <1>3, <1>4, <2>1, <3>1, <3>3
    <2>2. CASE mask_end # last_it
      <3>1. /\ last_it' = last_it - min_group_size
            /\ addresses' = SwapRanges(addresses, last_it', mask_begin, min_group_size)
        BY <2>2 DEF Found
      <3>2. /\ last_it' \in Nat /\ mask_end <= last_it' /\ last_it' + min_group_size = last_it
            /\ mask_begin + min_group_size <= last_it'
        BY <1>3, <1>4, <2>2, <3>1
      <3>3. /\ addresses' \in Seq(1..MaxAddresses)
            /\ Swapped(addresses, addresses', last_it', mask_begin, min_group_size)
        BY <1>3, <1>4, <3>1, <3>2, SwapPositions
      <3>4. Part(addresses, 0, mask_begin) \cup Part(addresses, mask_end, last_it' + min_group_size)
               \subseteq Part(addresses', 0, last_it')
        BY <1>3, <1>4, <3>1, <3>2, SwapKeeps
      <3>5. QED
        BY <3>1, <3>2, <3>3, <3>4 DEF Swapped
    <2>3. QED
      BY <2>1, <2>2
  <1>7. InputInv'
    BY <1>1, <1>2, <1>3, <1>4, <1>6 DEF InputInv
  <1>8. MaskInv'
    BY <1>1 DEF ReduceInv, MaskInv
  <1>9. Hits(0, last_it)' >= ways
    <2>1. Part(addresses', 0, last_it') \in SUBSET (1..MaxAddresses)
      <3>1. 0 \in Nat /\ last_it' <= Len(addresses')
        BY <1>3, <1>4, <1>6
      <3>2. QED
        BY <1>3, <1>6, <3>1, PartSmall, Zenon
    <2>2. /\ kept \cap congruent \in SUBSET (Part(addresses', 0, last_it') \cap congruent)
          /\ Part(addresses', 0, last_it') \cap congruent \in SUBSET (1..MaxAddresses)
      BY <1>6, <2>1
    <2>3. Cardinality(kept \cap congruent) <= Cardinality(Part(addresses', 0, last_it') \cap congruent)
      BY <1>3, <2>2, SmallMonotone
    <2>4. Hits(0, last_it)' = Cardinality(Part(addresses', 0, last_it') \cap congruent)
      BY <1>1 DEF Hits, Count, Part
    <2>5. /\ Cardinality(kept \cap congruent) \in Nat
          /\ Cardinality(Part(addresses', 0, last_it') \cap congruent) \in Nat
      <3>1. kept \cap congruent \in SUBSET (1..MaxAddresses)
        BY <2>2
      <3>2. QED
        BY <1>3, <2>2, <3>1, SmallFinite
    <2>6. QED
      BY <1>3, <1>5, <2>3, <2>4, <2>5
  <1>10. HitsInv' /\ GroupInv'
    BY <1>1, <1>9 DEF HitsInv, GroupInv
  <1>11. KeptInv' /\ FailInv'
    BY <1>1, <1>2, <1>6 DEF ReduceInv, KeptInv, FailInv
  <1>12. QED
    BY <1>7, <1>8, <1>10, <1>11 DEF ReduceInv

\* Everything that is kept is congruent, so there are as many hits as addresses.
LEMMA AllKept ==
    ASSUME ReduceInv, stage \in {"loop", "returned", "true"}, candidates_begin = last_it
    PROVE  Hits(0, last_it) = last_it /\ last_it = ways /\ Part(addresses, 0, last_it) \subseteq congruent
  <1>1. /\ MaxAddresses \in Nat /\ addresses \in Seq(1..MaxAddresses) /\ Distinct(addresses)
        /\ last_it \in Nat /\ last_it <= Len(addresses) /\ ways \in Nat /\ ways >= 1
        /\ Hits(0, last_it) \in Nat
    BY Numbers DEF ReduceInv, InputInv
  <1>2. last_it > 0
    <2>1. Hits(0, last_it) >= ways
      BY DEF ReduceInv, HitsInv
    <2>2. Hits(0, 0) = 0
      BY Numbers DEF ReduceInv
    <2>3. QED
      BY <1>1, <2>1, <2>2
  <1>3. Hits(0, last_it) = ways /\ \A i \in 1..last_it : addresses[i] \in congruent
    BY <1>2 DEF ReduceInv, KeptInv
  <1>4. Part(addresses, 0, last_it) \subseteq congruent
    BY <1>3 DEF Part
  <1>5. Part(addresses, 0, last_it) \cap congruent = Part(addresses, 0, last_it)
    BY <1>4
  <1>6. Hits(0, last_it) = last_it
    <2>1. Cardinality(Part(addresses, 0, last_it)) = last_it
      BY <1>1, PartSize
    <2>2. QED
      BY <1>5, <2>1 DEF Hits, Count
  <1>7. QED
    BY <1>3, <1>4, <1>6

\* The quadratic reduction gives up when every address is kept.
LEMMA SlowFailsStep ==
    ASSUME ReduceInv, SlowFails
    PROVE  ReduceInv'
  <1>1. /\ UNCHANGED <<input, addresses>> /\ UNCHANGED <<last_it, current_size, candidates_begin>>
        /\ UNCHANGED <<min_group_size, group_counters, category>>
        /\ stage = "loop" /\ stage' = "failed" /\ algo = "reduce_slow" /\ last_it > max_size
        /\ candidates_begin = last_it
    BY DEF SlowFails, SlowLoops, masks
  <1>2. /\ \A a, b : Hits(a, b)' = Hits(a, b)
        /\ UNCHANGED <<algo, max_size, ways, congruent, addresses>>
    BY <1>1, SameHits
  <1>3. ways > max_size
    BY <1>1, AllKept
  <1>4. InputInv'
    BY <1>1, <1>2 DEF ReduceInv, InputInv, Distinct
  <1>5. MaskInv' /\ HitsInv' /\ GroupInv'
    BY <1>1, <1>2 DEF ReduceInv, MaskInv, HitsInv, GroupInv
  <1>6. KeptInv' /\ FailInv'
    BY <1>1, <1>2, <1>3 DEF ReduceInv, KeptInv, FailInv
  <1>7. QED
    BY <1>4, <1>5, <1>6 DEF ReduceInv

\* The last candidate is dropped, or kept in front.
LEMMA SlowTestStep ==
    ASSUME ReduceInv, SlowTest
    PROVE  ReduceInv'
  <1>1. /\ stage = "loop" /\ stage' = "loop" /\ algo # "reduce" /\ candidates_begin # last_it
        /\ UNCHANGED <<algo, max_size, ways, congruent, current_size>>
        /\ UNCHANGED <<min_group_size, group_counters, category>>
    BY DEF SlowTest, SlowLoops, input, masks
  <1>2. InputInv /\ KeptInv /\ Hits(0, last_it) >= ways
    BY <1>1 DEF ReduceInv, HitsInv
  <1>3. /\ MaxAddresses \in Nat /\ addresses \in Seq(1..MaxAddresses) /\ Distinct(addresses)
        /\ Len(addresses) \in Nat /\ Len(addresses) <= MaxAddresses
        /\ last_it \in Nat /\ last_it <= Len(addresses) /\ ways \in Nat /\ ways >= 1
        /\ Hits(0, last_it) \in Nat
    BY <1>2, Numbers DEF InputInv
  <1>4. PICK before \in Nat : last_it = before + 1 /\ candidates_begin <= before
    <2>1. candidates_begin \in Nat /\ candidates_begin <= last_it
      BY <1>1, <1>2, <1>3 DEF InputInv, KeptInv
    <2>2. last_it - 1 \in Nat /\ last_it = (last_it - 1) + 1 /\ candidates_begin <= last_it - 1
      BY <1>1, <1>3, <2>1
    <2>3. QED
      BY <2>2
  <1>5. candidates_begin \in Nat
    BY <1>2, <1>3 DEF InputInv
  <1>6. /\ Hits(0, last_it) = Hits(0, before) + Hits(before, last_it)
        /\ Hits(0, before) \in Nat /\ Hits(before, last_it) \in Nat
    <2>1. 0 \in Nat /\ 0 <= before /\ before <= last_it
      BY <1>4
    <2>2. QED
      BY <1>2, <1>3, <2>1, HitsSplit
  <1>7. CASE EvictsWith(Subrange(0, last_it - 1))
    <2>1. last_it' = before /\ UNCHANGED <<addresses, candidates_begin>>
      <3>1. last_it' = last_it - 1 /\ UNCHANGED <<addresses, candidates_begin>>
        BY <1>7 DEF SlowTest
      <3>2. QED
        BY <1>4, <3>1
    <2>2. Hits(0, before) >= ways
      <3>1. last_it - 1 = before
        BY <1>4
      <3>2. QED
        BY <1>7, <3>1, RangeEvicts
    <2>3. Hits(0, last_it)' = Hits(0, before)
      BY <1>1, <2>1 DEF Hits, Count, Part
    <2>4. InputInv'
      BY <1>1, <1>2, <1>3, <1>4, <2>1 DEF InputInv, Distinct
    <2>5. MaskInv' /\ GroupInv' /\ FailInv'
      BY <1>1 DEF ReduceInv, MaskInv, GroupInv, FailInv
    <2>6. HitsInv'
      BY <1>1, <2>2, <2>3 DEF HitsInv
    <2>7. KeptInv'
      <3>1. SUFFICES ASSUME candidates_begin > 0
                     PROVE  /\ Hits(0, before) = ways
                            /\ \A i \in 1..candidates_begin : addresses[i] \in congruent
        BY <1>1, <1>4, <2>1, <2>3 DEF KeptInv
      <3>2. Hits(0, last_it) = ways /\ \A i \in 1..candidates_begin : addresses[i] \in congruent
        BY <1>1, <1>2, <3>1 DEF KeptInv
      <3>3. QED
        BY <1>3, <1>6, <2>2, <3>2
    <2>8. QED
      BY <2>4, <2>5, <2>6, <2>7 DEF ReduceInv
  <1>8. CASE ~EvictsWith(Subrange(0, last_it - 1))
    <2>1. /\ addresses' = SwapRanges(addresses, before, candidates_begin, 1)
          /\ candidates_begin' = candidates_begin + 1 /\ last_it' = last_it
      <3>1. /\ addresses' = SwapRanges(addresses, last_it - 1, candidates_begin, 1)
            /\ candidates_begin' = candidates_begin + 1 /\ last_it' = last_it
        BY <1>8 DEF SlowTest
      <3>2. last_it - 1 = before
        BY <1>4
      <3>3. QED
        BY <3>1, <3>2
    <2>2. Hits(0, before) < ways
      <3>1. last_it - 1 = before
        BY <1>4
      <3>2. ~(Hits(0, before) >= ways)
        BY <1>8, <3>1, RangeEvicts
      <3>3. QED
        BY <1>3, <1>6, <3>2
    <2>3. Hits(0, last_it) = ways /\ addresses[last_it] \in congruent
      <3>1. Part(addresses, before, last_it) = {addresses[last_it]}
        <4>1. (before + 1)..last_it = {last_it}
          BY <1>4
        <4>2. QED
          BY <4>1 DEF Part
      <3>2. CASE addresses[last_it] \in congruent
        <4>1. Part(addresses, before, last_it) \cap congruent = {addresses[last_it]}
          BY <3>1, <3>2
        <4>2. Hits(before, last_it) = 1
          BY <4>1, FS_Singleton DEF Hits, Count
        <4>3. QED
          BY <1>2, <1>3, <1>6, <2>2, <3>2, <4>2
      <3>3. CASE addresses[last_it] \notin congruent
        <4>1. Part(addresses, before, last_it) \cap congruent = {}
          BY <3>1, <3>3
        <4>2. Hits(before, last_it) = 0
          BY <4>1, FS_EmptySet DEF Hits, Count
        <4>3. QED
          BY <1>2, <1>3, <1>6, <2>2, <4>2
      <3>4. QED
        BY <3>2, <3>3
    <2>4. /\ addresses' \in Seq(1..MaxAddresses) /\ Len(addresses') = Len(addresses)
          /\ Distinct(addresses')
          /\ \A i \in 1..candidates_begin : addresses'[i] = addresses[i]
          /\ addresses'[candidates_begin + 1] = addresses[last_it]
          /\ Part(addresses', 0, last_it) = Part(addresses, 0, last_it)
      <3>1. before + 1 <= Len(addresses)
        BY <1>3, <1>4
      <3>2. Exchanged(addresses, addresses', before, candidates_begin, MaxAddresses)
        BY <1>3, <1>4, <1>5, <2>1, <3>1, ExchangeKeeps
      <3>3. QED
        BY <1>4, <3>2 DEF Exchanged
    <2>5. Hits(0, last_it)' = ways
      <3>1. Hits(0, last_it)' = Cardinality(Part(addresses', 0, last_it) \cap congruent)
        BY <1>1, <2>1 DEF Hits, Count, Part
      <3>2. QED
        BY <2>3, <2>4, <3>1 DEF Hits, Count
    <2>6. InputInv'
      BY <1>1, <1>2, <1>3, <1>4, <1>5, <2>1, <2>4 DEF InputInv
    <2>7. MaskInv' /\ GroupInv' /\ FailInv'
      BY <1>1 DEF ReduceInv, MaskInv, GroupInv, FailInv
    <2>8. HitsInv'
      BY <1>1, <1>3, <2>5 DEF HitsInv
    <2>9. KeptInv'
      <3>1. \A i \in 1..(candidates_begin + 1) : addresses'[i] \in congruent
        <4>1. \A i \in 1..candidates_begin : addresses[i] \in congruent
          BY <1>1, <1>2, <1>5 DEF KeptInv
        <4>2. \A i \in 1..(candidates_begin + 1) :
                 i \in 1..candidates_begin \/ i = candidates_begin + 1
          BY <1>5
        <4>3. QED
          BY <2>3, <2>4, <4>1, <4>2, Zenon
      <3>2. candidates_begin' <= last_it'
        BY <1>4, <1>5, <2>1
      <3>3. QED
        BY <1>1, <2>1, <2>5, <3>1, <3>2 DEF KeptInv
    <2>10. QED
      BY <2>6, <2>7, <2>8, <2>9 DEF ReduceInv
  <1>9. QED
    BY <1>7, <1>8

\* The vector is cut to the range.
LEMMA ResizeStep ==
    ASSUME ReduceInv, Resize
    PROVE  ReduceInv'
  <1>1. /\ stage = "returned"
        /\ UNCHANGED <<algo, max_size, ways, congruent, last_it, current_size, candidates_begin>>
        /\ UNCHANGED <<min_group_size, group_counters, category>>
    BY DEF Resize, input, masks
  <1>2. InputInv /\ Hits(0, last_it) >= ways
    BY <1>1 DEF ReduceInv, HitsInv
  <1>3. /\ MaxAddresses \in Nat /\ addresses \in Seq(1..MaxAddresses) /\ Distinct(addresses)
        /\ Len(addresses) \in Nat /\ Len(addresses) <= MaxAddresses
        /\ last_it \in Nat /\ last_it <= Len(addresses) /\ ways \in Nat /\ ways >= 1
        /\ Hits(0, 0) = 0
    BY <1>2, Numbers DEF InputInv
  <1>4. last_it # 0
    BY <1>2, <1>3
  <1>5. stage' = "true" /\ addresses' = SubSeq(addresses, 1, last_it)
    BY <1>4 DEF Resize
  <1>6. /\ addresses' \in Seq(1..MaxAddresses) /\ Len(addresses') = last_it
        /\ \A i \in 1..last_it : addresses'[i] = addresses[i]
    BY <1>3, <1>5
  <1>7. Distinct(addresses')
    <2>1. ASSUME NEW i \in 1..last_it, NEW j \in 1..last_it, addresses[i] = addresses[j]
          PROVE  i = j
      <3>1. i \in 1..Len(addresses) /\ j \in 1..Len(addresses)
        BY <1>3
      <3>2. QED
        BY <1>3, <2>1, <3>1 DEF Distinct
    <2>2. QED
      BY <1>6, <2>1 DEF Distinct
  <1>8. Hits(0, last_it)' = Hits(0, last_it)
    <2>1. Part(addresses', 0, last_it) = Part(addresses, 0, last_it)
      BY <1>6 DEF Part
    <2>2. Hits(0, last_it)' = Cardinality(Part(addresses', 0, last_it) \cap congruent)
      BY <1>1 DEF Hits, Count, Part
    <2>3. QED
      BY <2>1, <2>2 DEF Hits, Count
  <1>9. InputInv'
    BY <1>1, <1>2, <1>3, <1>5, <1>6, <1>7 DEF InputInv
  <1>10. MaskInv' /\ GroupInv' /\ FailInv'
    BY <1>1, <1>5 DEF ReduceInv, MaskInv, GroupInv, FailInv
  <1>11. HitsInv'
    BY <1>1, <1>2, <1>5, <1>8 DEF ReduceInv, HitsInv
  <1>12. KeptInv'
    <2>1. candidates_begin \in Nat
      BY <1>2, <1>3 DEF InputInv
    <2>2. QED
      BY <1>1, <1>3, <1>5, <1>6, <1>8, <2>1 DEF ReduceInv, KeptInv
  <1>13. QED
    BY <1>9, <1>10, <1>11, <1>12 DEF ReduceInv

-----------------------------------------------------------------------------
(* The theorems.                                                           *)

\* The invariant holds in every state of every execution.
LEMMA Invariant == Spec => []ReduceInv
  <1>1. ReduceInv /\ [Next]_vars => ReduceInv'
    BY DivideStep, TestStep, CategoryStep, FoundStep, ReturnStep, SlowFailsStep,
       SlowTestStep, ResizeStep DEF Next
  <1>2. QED
    BY InvInit, <1>1, PTL DEF Spec

\* Whatever the size of the set, max_size and the associativity, the iterators of
\* the three algorithms stay in the range, and std::swap_ranges never gets
\* overlapping ranges, although the number of larger groups is computed with % size.
THEOREM IteratorsInRange == Spec => []InRange
  <1>1. ReduceInv => InRange
    <2> SUFFICES ASSUME ReduceInv PROVE InRange
      OBVIOUS
    <2>1. /\ MaxAddresses \in Nat /\ Len(addresses) \in Nat /\ Len(addresses) <= MaxAddresses
          /\ last_it \in Nat /\ last_it <= Len(addresses) /\ max_size \in Nat
      BY Numbers DEF ReduceInv, InputInv
    <2>2. TypeOK
      BY <2>1 DEF ReduceInv, InputInv, MaskInv, TypeOK
    <2>3. algo = "reduce" => current_size = last_it
      BY DEF ReduceInv, InputInv
    <2>4. (stage = "groups" /\ group_counters[category] > 0)
             => mask_begin < mask_end /\ mask_end <= last_it
      <3>1. SUFFICES ASSUME stage = "groups", group_counters[category] > 0
                     PROVE  mask_begin < mask_end
        BY MaskInRange
      <3>2. QED
        BY <3>1, MaskFacts
    <2>5. stage = "found" => /\ mask_end = last_it \/ mask_end <= last_it - min_group_size
                          /\ mask_end - mask_begin >= min_group_size
      <3>1. SUFFICES ASSUME stage = "found"
                     PROVE  /\ mask_end = last_it \/ mask_end <= last_it - min_group_size
                            /\ mask_end - mask_begin >= min_group_size
        OBVIOUS
      <3>2. /\ mask_end = last_it \/ mask_end <= last_it - min_group_size
            /\ mask_begin + min_group_size <= mask_end
            /\ mask_begin \in Nat /\ mask_end \in Nat /\ min_group_size \in Nat
        BY <3>1, FoundMask
      <3>3. QED
        BY <3>2
    <2>6. stage = "loop" => candidates_begin <= last_it
      BY DEF ReduceInv, KeptInv
    <2>7. QED
      BY <2>2, <2>3, <2>4, <2>5, <2>6 DEF InRange
  <1>2. QED
    BY Invariant, <1>1, PTL

\* What is left is at any time an eviction set of distinct input addresses, and a
\* reduction that succeeds leaves at most max_size of them.
THEOREM ReductionSound == Spec => []Sound
  <1>1. ReduceInv => Sound
    <2> SUFFICES ASSUME ReduceInv PROVE Sound
      OBVIOUS
    <2>1. /\ MaxAddresses \in Nat /\ addresses \in Seq(1..MaxAddresses) /\ Distinct(addresses)
          /\ Len(addresses) \in Nat
      BY Numbers DEF ReduceInv, InputInv
    <2>2. stage \in {"loop", "returned", "true"} => EvictsWith(Subrange(0, last_it))
      BY RangeEvicts DEF ReduceInv, HitsInv
    <2>3. Cardinality(Elements(addresses)) = Len(addresses)
      <3>1. Cardinality(Part(addresses, 0, Len(addresses))) = Len(addresses)
        BY <2>1, PartSize
      <3>2. Part(addresses, 0, Len(addresses)) = Elements(addresses)
        BY <2>1 DEF Part, Elements
      <3>3. QED
        BY <3>1, <3>2
    <2>4. (stage = "true" /\ algo # "minimize_slow") => Len(addresses) <= max_size
      BY DEF ReduceInv, InputInv, HitsInv
    <2>5. QED
      BY <2>2, <2>3, <2>4 DEF Sound
  <1>2. QED
    BY Invariant, <1>1, PTL

\* Reduction fails only when the cache has more ways than the size asked for, and
\* minimization leaves nothing that could be missed.
THEOREM ReductionComplete == Spec => []Complete
  <1>1. ReduceInv => Complete
    <2> SUFFICES ASSUME ReduceInv PROVE Complete
      OBVIOUS
    <2>1. stage = "false" => algo # "minimize_slow" /\ ways > max_size
      BY DEF ReduceInv, FailInv
    <2>2. ASSUME stage = "true", algo = "minimize_slow", NEW a \in Elements(addresses)
          PROVE  ~EvictsWith(Elements(addresses) \ {a})
      <3>1. /\ candidates_begin = last_it /\ Len(addresses) = last_it
            /\ MaxAddresses \in Nat /\ addresses \in Seq(1..MaxAddresses)
            /\ last_it \in Nat /\ last_it >= 1 /\ ways \in Nat
        <4>1. candidates_begin = last_it /\ Len(addresses) = last_it /\ InputInv
          BY <2>2 DEF ReduceInv, KeptInv, InputInv
        <4>2. last_it = ways
          BY <2>2, <4>1, AllKept
        <4>3. QED
          BY <4>1, <4>2, Numbers DEF InputInv
      <3>2. /\ Hits(0, last_it) = last_it /\ last_it = ways
            /\ Part(addresses, 0, last_it) \subseteq congruent
        BY <2>2, <3>1, AllKept
      <3>3. Elements(addresses) = Part(addresses, 0, last_it)
        BY <3>1 DEF Part, Elements
      <3> DEFINE E == Elements(addresses)
      <3>4. IsFiniteSet(E) /\ Cardinality(E) = last_it
        <4>1. E \in SUBSET (1..MaxAddresses)
          BY <3>1, <3>3, PartSmall
        <4>2. E \cap congruent = E
          BY <3>2, <3>3
        <4>3. QED
          BY <3>1, <3>2, <3>3, <4>1, <4>2, SmallFinite DEF Hits, Count
      <3>5. Cardinality(E \ {a}) = last_it - 1
        BY <2>2, <3>4, FS_RemoveElement
      <3>6. (E \ {a}) \cap congruent = E \ {a}
        BY <3>2, <3>3
      <3>7. Cardinality((E \ {a}) \cap congruent) = ways - 1
        BY <3>2, <3>5, <3>6
      <3>8. ~(ways - 1 >= ways)
        BY <3>1
      <3>9. QED
        BY <3>7, <3>8, Zenon DEF EvictsWith
    <2>3. QED
      BY <2>1, <2>2 DEF Complete
  <1>2. QED
    BY Invariant, <1>1, PTL

-----------------------------------------------------------------------------
(* The inductive invariant.                                                *)

\* The cache set of the i-th eviction set.
SetOf(i) == place[Head(evsets[i])]

\* Where the command is and what it looks for.
StateInv ==
    /\ cache \in Caches
    /\ pc \in {"loop", "exists", "bisect", "find", "reduce", "ready", "answered"}
    /\ pc \in {"exists", "bisect", "find", "reduce", "answered"} => target \in Addr
    /\ pc \in {"loop", "find", "reduce", "ready"} => ~asking
    /\ pc = "answered" => asking
    /\ pc \in {"loop", "find", "reduce"} => strategy = "eviction_set"
    /\ ~asking /\ pc \in {"exists", "bisect"} => strategy = "eviction_set"
    /\ ~asking /\ pc \in {"exists", "bisect", "find", "reduce"} => target \notin seen_addresses
    /\ out \in SUBSET Addr /\ asking \in BOOLEAN

\* Eviction sets are made of addresses that have been seen, and each is of a cache
\* set of its own.
EvsetsInv ==
    /\ seen_addresses \in SUBSET Addr
    /\ evsets \in Seq(Seq(Addr))
    /\ \A i \in 1..Len(evsets) :
          /\ Len(evsets[i]) > WaysOfLevel
          /\ Range(evsets[i]) \subseteq seen_addresses
          /\ \A j, k \in 1..Len(evsets[i]) : evsets[i][j] = evsets[i][k] => j = k
          /\ \A a \in Range(evsets[i]) : place[a] = SetOf(i)
    /\ \A i, j \in 1..Len(evsets) : SetOf(i) = SetOf(j) => i = j

\* A set is looked for when there is none for the target.
MissingInv ==
    /\ pc \in {"find", "reduce"} => \A i \in 1..Len(evsets) : SetOf(i) # place[target]
    /\ pc = "reduce" => target \notin out

\* The target's set is among first..(last - 1), unless the target is itself in an
\* eviction set, where the test means nothing.
Within(from, to) ==
    IF strategy = "cisw" THEN place[target] \in from..(to - 1)
    ELSE target \notin seen_addresses =>
            \E i \in from..(to - 1) : i + 1 \in 1..Len(evsets) /\ SetOf(i + 1) = place[target]
BisectInv ==
    pc = "bisect" =>
        /\ first \in Nat /\ last \in Nat /\ Within(first, last)
        /\ strategy = "eviction_set" => last <= Len(evsets)

\* Once the search is over there is an eviction set for every cache set, in the
\* order of the modular index.
ReadyInv ==
    (strategy = "eviction_set" /\ (pc = "ready" \/ asking)) =>
        /\ Len(evsets) = Sets
        /\ \A i, j \in 1..Len(evsets) : i < j => Index(evsets[i]) <= Index(evsets[j])

AnswerInv ==
    pc = "answered" =>
        /\ answer = Nowhere => strategy = "eviction_set" /\ target \in seen_addresses
        /\ answer # Nowhere => answer \in Nat /\ Within(answer, answer + 1)

SearchInv == StateInv /\ EvsetsInv /\ MissingInv /\ BisectInv /\ ReadyInv /\ AnswerInv

-----------------------------------------------------------------------------
(* The join of eviction sets.                                              *)

Joins(g, seqs, n) == g = [i \in 1..n |-> IF i = 1 THEN seqs[i] ELSE g[i-1] \o seqs[i]]

\* The recursion of FlattenSeq has a solution.
LEMMA JoinExists ==
    ASSUME NEW seqs
    PROVE  \A n \in Nat : \E g : Joins(g, seqs, n)
  <1> DEFINE T == {n \in Nat : \E g : Joins(g, seqs, n)}
  <1>1. 0 \in T
    <2>1. Joins([i \in 1..0 |-> seqs[i]], seqs, 0)
      BY DEF Joins
    <2>2. QED
      BY <2>1
  <1>2. ASSUME NEW n \in Nat, n \in T PROVE n + 1 \in T
    <2>1. PICK g : Joins(g, seqs, n)
      BY <1>2
    <2> DEFINE h == [i \in 1..(n + 1) |->
                        IF i = 1 THEN seqs[i] ELSE g[i-1] \o seqs[i]]
    <2>2. ASSUME NEW i \in 1..n PROVE h[i] = g[i]
      <3>1. i \in 1..(n + 1)
        OBVIOUS
      <3>2. h[i] = IF i = 1 THEN seqs[i] ELSE g[i-1] \o seqs[i]
        BY <3>1
      <3>3. g[i] = IF i = 1 THEN seqs[i] ELSE g[i-1] \o seqs[i]
        BY <2>1 DEF Joins
      <3>4. QED
        BY <3>2, <3>3
    <2>3. ASSUME NEW i \in 1..(n + 1), i # 1 PROVE h[i-1] = g[i-1]
      <3>1. i - 1 \in 1..n
        BY <2>3
      <3>2. QED
        BY <2>2, <3>1
    <2>4. h = [i \in 1..(n + 1) |-> IF i = 1 THEN seqs[i] ELSE h[i-1] \o seqs[i]]
      <3>1. ASSUME NEW i \in 1..(n + 1)
            PROVE  (IF i = 1 THEN seqs[i] ELSE g[i-1] \o seqs[i])
                      = (IF i = 1 THEN seqs[i] ELSE h[i-1] \o seqs[i])
        <4> HIDE DEF h
        <4>1. QED
          BY <2>3
      <3> DEFINE d(i) == IF i = 1 THEN seqs[i] ELSE g[i-1] \o seqs[i]
                 e(i) == IF i = 1 THEN seqs[i] ELSE h[i-1] \o seqs[i]
      <3>2. \A i \in 1..(n + 1) : d(i) = e(i)
        BY <3>1
      <3> HIDE DEF d, e
      <3>3. [i \in 1..(n + 1) |-> d(i)] = [i \in 1..(n + 1) |-> e(i)]
        BY <3>2
      <3>4. QED
        BY <3>3, Zenon DEF d, e
    <2> HIDE DEF h
    <2>5. Joins(h, seqs, n + 1)
      BY <2>4 DEF Joins
    <2>6. QED
      BY <2>5
  <1> HIDE DEF T
  <1>3. \A n \in Nat : n \in T
    BY <1>1, <1>2, Induct
  <1>4. QED
    BY <1>3 DEF T

\* FlattenSeq joins sequences: it has the elements of all of them.
LEMMA FlattenRange ==
    ASSUME NEW S, NEW seqs \in Seq(Seq(S))
    PROVE  /\ FlattenSeq(seqs) \in Seq(S)
           /\ \A a : a \in Range(FlattenSeq(seqs)) <=> \E k \in 1..Len(seqs) : a \in Range(seqs[k])
  <1>1. CASE Len(seqs) = 0
    <2>1. FlattenSeq(seqs) = seqs
      BY <1>1 DEF FlattenSeq
    <2>2. seqs = <<>>
      BY <1>1
    <2>3. QED
      BY <2>1, <2>2 DEF Range
  <1>2. CASE Len(seqs) # 0
    <2> DEFINE n == Len(seqs)
               F == CHOOSE g : g = [i \in 1..n |-> IF i = 1 THEN seqs[i] ELSE g[i-1] \o seqs[i]]
    <2>1. FlattenSeq(seqs) = F[n]
      BY <1>2 DEF FlattenSeq
    <2>2. n \in Nat /\ n >= 1 /\ seqs \in [1..n -> Seq(S)]
      BY <1>2
    <2>3. F = [i \in 1..n |-> IF i = 1 THEN seqs[i] ELSE F[i-1] \o seqs[i]]
      <3>1. \E g : g = [i \in 1..n |-> IF i = 1 THEN seqs[i] ELSE g[i-1] \o seqs[i]]
        BY <2>2, JoinExists DEF Joins
      <3> HIDE DEF n
      <3>2. QED
        BY <3>1, Zenon
    <2> HIDE DEF n, F
    <2> DEFINE Good(i) == /\ F[i] \in Seq(S)
                          /\ \A a : a \in Range(F[i]) <=> \E k \in 1..i : a \in Range(seqs[k])
               T == {i \in Nat : i + 1 \in 1..n => Good(i + 1)}
    <2>4. 0 \in T
      <3>1. 1 \in 1..n
        BY <2>2
      <3>2. F[1] = seqs[1]
        BY <2>3, <3>1
      <3>3. Good(1)
        BY <3>1, <3>2, <2>2
      <3>4. QED
        BY <3>3
    <2>5. ASSUME NEW i \in Nat, i \in T PROVE i + 1 \in T
      <3>0. (i + 1) + 1 = i + 2
        OBVIOUS
      <3> SUFFICES ASSUME i + 2 \in 1..n PROVE Good(i + 2)
        <4> HIDE DEF Good
        <4>1. QED
          BY <3>0
      <3>1. i + 1 \in 1..n /\ seqs[i + 2] \in Seq(S) /\ (i + 2) - 1 = i + 1
        BY <2>2
      <3>2. Good(i + 1)
        BY <2>5, <3>1
      <3>3. F[i + 2] = F[i + 1] \o seqs[i + 2]
        <4>1. F[i + 2] = IF i + 2 = 1 THEN seqs[i + 2] ELSE F[(i + 2) - 1] \o seqs[i + 2]
          BY <2>3
        <4>2. i + 2 # 1 /\ (i + 2) - 1 = i + 1
          OBVIOUS
        <4>3. QED
          BY <4>1, <4>2, Zenon
      <3>4. F[i + 2] \in Seq(S)
        BY <3>1, <3>2, <3>3
      <3>5. \A a : a \in Range(F[i + 2]) <=> a \in Range(F[i + 1]) \/ a \in Range(seqs[i + 2])
        BY <3>1, <3>2, <3>3, ConcatRange
      <3>6. \A a : (\E k \in 1..(i + 2) : a \in Range(seqs[k]))
                     <=> \/ \E k \in 1..(i + 1) : a \in Range(seqs[k])
                         \/ a \in Range(seqs[i + 2])
        <4>1. 1..(i + 2) = (1..(i + 1)) \cup {i + 2}
          OBVIOUS
        <4>2. QED
          BY <4>1, Zenon
      <3>7. QED
        BY <3>2, <3>4, <3>5, <3>6
    <2> HIDE DEF T
    <2>6. \A i \in Nat : i \in T
      BY <2>4, <2>5, Induct, Zenon
    <2>7. Good(n)
      <3>1. n - 1 \in Nat /\ (n - 1) + 1 = n /\ n \in 1..n
        BY <2>2
      <3>2. QED
        BY <3>1, <2>6, Zenon DEF T
    <2>8. QED
      BY <2>1, <2>7 DEF n
  <1>3. QED
    BY <1>1, <1>2

-----------------------------------------------------------------------------
(* The test.                                                               *)

\* The memory is finite.
LEMMA Finite ==
    ASSUME NEW S \in SUBSET Addr
    PROVE  IsFiniteSet(S) /\ Cardinality(S) \in Nat
  <1>1. Addresses - 1 \in Int
    BY SearchAssumption
  <1>2. IsFiniteSet(Addr)
    BY <1>1, FS_Interval DEF Addr
  <1>3. IsFiniteSet(S)
    BY <1>2, FS_Subset
  <1>4. QED
    BY <1>3, FS_CardinalityType

\* What is known of the cache under test.
LEMMA Geometry ==
    ASSUME cache \in Caches
    PROVE  /\ WaysOfLevel \in Nat \ {0} /\ Sets \in Nat \ {0}
           /\ place \in [Addr -> 0..(Sets - 1)]
           /\ strategy \in {"eviction_set", "cisw"}
  BY SearchAssumption DEF WaysOfLevel, Sets, place, strategy, IndexBits

\* For a target that is not among the addresses, an answer of the test tells whether
\* the addresses fill its cache set.
LEMMA TestTells ==
    ASSUME cache \in Caches, NEW t \in Addr, NEW J \in Seq(Addr), t \notin Range(J)
    PROVE  /\ safe_is_eviction_set(t, J) = "true" =>
                 Cardinality(Congruent(Range(J), t)) >= WaysOfLevel
           /\ safe_is_eviction_set(t, J) = "false" =>
                 Cardinality(Congruent(Range(J), t)) < WaysOfLevel
  <1> DEFINE list == <<t>> \o J \o <<t>>
             n == Len(J)
  <1>1. safe_is_eviction_set(t, J) = Verdict(list)
    BY Zenon DEF safe_is_eviction_set
  <1>2. n \in Nat /\ DOMAIN J = 1..n
    OBVIOUS
  <1>3. /\ Len(list) = n + 2
        /\ list[1] = t /\ list[n + 2] = t
        /\ \A k \in 2..(n + 1) : k - 1 \in 1..n /\ list[k] = J[k - 1]
        /\ \A k \in 1..n : k + 1 \in 2..(n + 1) /\ list[k + 1] = J[k]
    OBVIOUS
  <1> HIDE DEF list, n
  <1>4. {list[k] : k \in 2..(n + 1)} = Range(J)
    <2>1. ASSUME NEW k \in 2..(n + 1) PROVE list[k] \in Range(J)
      BY <1>2, <1>3 DEF Range
    <2>2. ASSUME NEW a \in Range(J) PROVE \E k \in 2..(n + 1) : a = list[k]
      <3>1. PICK k \in 1..n : a = J[k]
        BY <1>2 DEF Range
      <3>2. QED
        BY <1>3, <3>1
    <2>3. QED
      BY <2>1, <2>2
  <1>5. Congruent(Range(J), t) \in SUBSET Addr
    BY <1>2 DEF Congruent, Range
  <1>6. WaysOfLevel \in Nat /\ Cardinality(Congruent(Range(J), t)) \in Nat
    BY <1>5, Finite, Geometry
  <1> DEFINE few == Cardinality(Congruent({list[k] : k \in (1 + 1)..((n + 2) - 1)}, t)) < WaysOfLevel
  <1>7. few <=> Cardinality(Congruent(Range(J), t)) < WaysOfLevel
    <2>1. (1 + 1)..((n + 2) - 1) = 2..(n + 1)
      BY <1>2
    <2>2. QED
      BY <2>1, <1>4
  <1>8. HitsAt(list, n + 2) <=> few
    <2>1. ASSUME NEW i \in 1..((n + 2) - 1), list[i] = list[n + 2] PROVE i = 1
      <3>1. i = 1 \/ i \in 2..(n + 1)
        BY <1>2
      <3>2. ASSUME i \in 2..(n + 1) PROVE FALSE
        BY <1>3, <1>4, <2>1, <3>2
      <3>3. QED
        BY <3>1, <3>2
    <2>2. 1 \in 1..((n + 2) - 1)
      BY <1>2
    <2>3. QED
      BY <1>3, <2>1, <2>2, Zenon DEF HitsAt
  <1>9. /\ Verdict(list) = "true" => ~HitsAt(list, n + 2)
        /\ Verdict(list) = "false" => HitsAt(list, n + 2)
    <2>1. Len(list) = n + 2
      BY <1>3
    <2>2. QED
      BY <2>1, Zenon DEF Verdict
  <1>10. QED
    BY <1>1, <1>6, <1>7, <1>8, <1>9

\* The test of a range of eviction sets tells whether one of them is of the target's
\* cache set.
LEMMA RangeTells ==
    ASSUME cache \in Caches, strategy = "eviction_set", EvsetsInv,
           NEW t \in Addr, t \notin seen_addresses,
           NEW from \in Nat, NEW to \in 0..Len(evsets)
    PROVE  /\ maps_to(t, from, to) = "true" => \E i \in from..(to - 1) : SetOf(i + 1) = place[t]
           /\ maps_to(t, from, to) = "false" => \A i \in from..(to - 1) : SetOf(i + 1) # place[t]
  <1> DEFINE part == SubSeq(evsets, from + 1, to)
             J == FlattenSeq(part)
  <1>1. evsets \in Seq(Seq(Addr)) /\ Len(evsets) \in Nat
    BY DEF EvsetsInv
  <1>2. /\ part \in Seq(Seq(Addr))
        /\ \A k \in 1..Len(part) : from + k - 1 \in from..(to - 1) /\ part[k] = evsets[from + k]
        /\ \A i \in from..(to - 1) : (i + 1) - from \in 1..Len(part)
                                     /\ part[(i + 1) - from] = evsets[i + 1]
    BY <1>1
  <1>3. maps_to(t, from, to) = safe_is_eviction_set(t, J)
    BY Zenon DEF maps_to
  <1> HIDE DEF part, J
  <1>4. /\ J \in Seq(Addr)
        /\ \A a : a \in Range(J) <=> \E k \in 1..Len(part) : a \in Range(part[k])
    BY <1>2, FlattenRange DEF J
  <1>5. \A a : a \in Range(J) <=> \E i \in from..(to - 1) : a \in Range(evsets[i + 1])
    <2>1. ASSUME NEW a, a \in Range(J) PROVE \E i \in from..(to - 1) : a \in Range(evsets[i + 1])
      <3>1. PICK k \in 1..Len(part) : a \in Range(part[k])
        BY <1>4, <2>1
      <3>2. from + k - 1 \in from..(to - 1) /\ (from + k - 1) + 1 = from + k
        BY <1>2
      <3>3. a \in Range(evsets[(from + k - 1) + 1])
        BY <1>2, <3>1, <3>2
      <3>4. QED
        BY <3>2, <3>3
    <2>2. ASSUME NEW i \in from..(to - 1), NEW a \in Range(evsets[i + 1]) PROVE a \in Range(J)
      BY <1>2, <1>4
    <2>3. QED
      BY <2>1, <2>2
  <1>6. \A i \in from..(to - 1) : i + 1 \in 1..Len(evsets)
    BY <1>1
  <1>7. t \notin Range(J)
    BY <1>5, <1>6 DEF EvsetsInv
  <1>8. Range(J) \in SUBSET Addr
    BY <1>4 DEF Range
  <1>9. Congruent(Range(J), t) \in SUBSET Addr
    BY <1>8 DEF Congruent
  <1>10. ASSUME maps_to(t, from, to) = "true"
         PROVE  \E i \in from..(to - 1) : SetOf(i + 1) = place[t]
    <2>1. Cardinality(Congruent(Range(J), t)) >= WaysOfLevel
      BY <1>3, <1>4, <1>7, <1>10, TestTells
    <2>2. Congruent(Range(J), t) # {}
      <3> SUFFICES ASSUME Congruent(Range(J), t) = {} PROVE FALSE
        OBVIOUS
      <3>1. Cardinality(Congruent(Range(J), t)) = 0
        BY FS_EmptySet, Zenon
      <3>2. WaysOfLevel \in Nat \ {0}
        BY Geometry
      <3>3. QED
        BY <2>1, <3>1, <3>2
    <2>3. PICK a \in Range(J) : place[a] = place[t]
      BY <2>2 DEF Congruent
    <2>4. PICK i \in from..(to - 1) : a \in Range(evsets[i + 1])
      BY <1>5
    <2>5. place[a] = SetOf(i + 1)
      BY <1>6, <2>4 DEF EvsetsInv
    <2>6. QED
      BY <2>3, <2>5
  <1>11. ASSUME maps_to(t, from, to) = "false", NEW i \in from..(to - 1), SetOf(i + 1) = place[t]
         PROVE  FALSE
    <2>1. Cardinality(Congruent(Range(J), t)) < WaysOfLevel
      BY <1>3, <1>4, <1>7, <1>11, TestTells
    <2> DEFINE e == evsets[i + 1]
    <2>2. /\ i + 1 \in 1..Len(evsets) /\ e \in Seq(Addr) /\ Len(e) > WaysOfLevel
          /\ \A j, k \in 1..Len(e) : e[j] = e[k] => j = k
          /\ \A a \in Range(e) : place[a] = place[t]
      BY <1>1, <1>6, <1>11 DEF EvsetsInv
    <2>3. Range(e) \subseteq Congruent(Range(J), t)
      BY <1>5, <2>2 DEF Congruent
    <2>4. Cardinality(Range(e)) = Len(e)
      BY <2>2, DistinctCount
    <2>5. Cardinality(Range(e)) <= Cardinality(Congruent(Range(J), t))
      BY <1>9, <2>3, Finite, FS_Subset
    <2>6. Len(e) \in Nat /\ WaysOfLevel \in Nat /\ Cardinality(Congruent(Range(J), t)) \in Nat
      BY <1>9, <2>2, Finite, Geometry
    <2>7. QED
      BY <2>1, <2>2, <2>4, <2>5, <2>6
  <1>12. QED
    BY <1>10, <1>11

-----------------------------------------------------------------------------
(* The steps.                                                              *)

\* What a step does that leaves the eviction sets alone.
LEMMA EvsetsKept ==
    ASSUME EvsetsInv, UNCHANGED <<cache, evsets, seen_addresses>>
    PROVE  /\ EvsetsInv' /\ place' = place /\ strategy' = strategy /\ Sets' = Sets
           /\ \A i \in 1..Len(evsets) : SetOf(i)' = SetOf(i)
  BY DEF EvsetsInv, SetOf, place, strategy, Sets, IndexBits, WaysOfLevel

\* The search begins without eviction sets, or with CISW.
LEMMA InitHolds == SearchInit => SearchInv
  <1> SUFFICES ASSUME SearchInit PROVE SearchInv
    OBVIOUS
  <1> USE DEF SearchInit
  <1>1. strategy \in {"eviction_set", "cisw"}
    BY Geometry
  <1>2. StateInv
    BY <1>1 DEF StateInv
  <1>3. EvsetsInv
    BY DEF EvsetsInv
  <1>4. MissingInv /\ BisectInv /\ AnswerInv
    BY DEF MissingInv, BisectInv, AnswerInv
  <1>5. ReadyInv
    BY DEF ReadyInv
  <1>6. QED
    BY <1>2, <1>3, <1>4, <1>5 DEF SearchInv

\* A target that is drawn and not skipped has not been seen.
LEMMA DrawStep ==
    ASSUME SearchInv, NEW t \in Addr, DrawTarget(t)
    PROVE  SearchInv'
  <1> USE DEF SearchInv, DrawTarget
  <1>1. EvsetsInv' /\ strategy' = strategy
    BY EvsetsKept
  <1>2. StateInv'
    BY <1>1 DEF StateInv, found
  <1>3. pc' \in {"loop", "exists"} /\ asking' = FALSE
    BY DEF StateInv
  <1>4. MissingInv' /\ BisectInv' /\ ReadyInv' /\ AnswerInv'
    BY <1>3 DEF MissingInv, BisectInv, ReadyInv, AnswerInv
  <1>5. QED
    BY <1>1, <1>2, <1>4

\* Every eviction set has a first address.
LEMMA HeadsIn ==
    ASSUME cache \in Caches, EvsetsInv, NEW i \in 1..Len(evsets)
    PROVE  Head(evsets[i]) \in Addr
  <1>1. WaysOfLevel \in Nat
    BY Geometry
  <1>2. evsets[i] \in Seq(Addr) /\ Len(evsets[i]) > WaysOfLevel
    BY DEF EvsetsInv
  <1>3. QED
    BY <1>1, <1>2

\* When there is an eviction set for every cache set, the target's is one of them.
LEMMA AllSets ==
    ASSUME cache \in Caches, EvsetsInv, Len(evsets) = Sets, NEW t \in Addr
    PROVE  \E i \in 0..(Sets - 1) : SetOf(i + 1) = place[t]
  <1> DEFINE f == [i \in 1..Sets |-> SetOf(i)]
  <1>1. Sets \in Nat \ {0} /\ place \in [Addr -> 0..(Sets - 1)] /\ WaysOfLevel \in Nat
    BY Geometry
  <1>2. \A i \in 1..Sets : SetOf(i) \in 0..(Sets - 1)
    BY <1>1, HeadsIn DEF SetOf
  <1>3. f \in Injection(1..Sets, 0..(Sets - 1))
    <2>1. \A i, j \in 1..Sets : SetOf(i) = SetOf(j) => i = j
      BY DEF EvsetsInv
    <2>2. QED
      BY <1>2, <2>1 DEF Injection, IsInjective
  <1>4. IsFiniteSet(0..(Sets - 1)) /\ Cardinality(0..(Sets - 1)) = Sets /\ Cardinality(1..Sets) = Sets
    BY <1>1, FS_Interval
  <1>5. f \in Surjection(1..Sets, 0..(Sets - 1))
    <2> HIDE DEF f
    <2>1. QED
      BY <1>3, <1>4, FS_Injection
  <1>6. PICK k \in 1..Sets : f[k] = place[t]
    BY <1>1, <1>5 DEF Surjection
  <1>7. k - 1 \in 0..(Sets - 1) /\ (k - 1) + 1 = k /\ SetOf(k) = place[t]
    BY <1>1, <1>6
  <1>8. QED
    BY <1>7

\* The test of all eviction sets: the target's is among them, or a new one is
\* needed, or locate_set gives up, which it does only for a member of one.
LEMMA TestAllStep ==
    ASSUME SearchInv, GroupTestAll
    PROVE  SearchInv'
  <1> USE DEF SearchInv
  <1>0. /\ pc = "exists" /\ target \in Addr /\ cache \in Caches /\ strategy \in {"eviction_set", "cisw"}
        /\ UNCHANGED <<cache, evsets, seen_addresses, next_set, target>>
    BY Geometry DEF GroupTestAll, StateInv, search
  <1>1. /\ EvsetsInv' /\ place' = place /\ strategy' = strategy /\ Sets' = Sets
        /\ \A i \in 1..Len(evsets) : SetOf(i)' = SetOf(i)
    BY <1>0, EvsetsKept
  <1>2. Len(evsets) \in Nat /\ Sets \in Nat \ {0} /\ place[target] \in 0..(Sets - 1)
    BY <1>0, Geometry DEF EvsetsInv
  <1>3. strategy = "cisw" => asking
    BY <1>0 DEF StateInv
  <1>4. /\ strategy = "eviction_set" => GroupSize = Len(evsets)
        /\ strategy = "cisw" => GroupSize = Sets
    BY <1>3 DEF GroupSize, ReadyInv
  <1>5. ASSUME strategy = "eviction_set", target \notin seen_addresses
        PROVE  /\ maps_to(target, 0, GroupSize) = "true" =>
                     \E i \in 0..(GroupSize - 1) : SetOf(i + 1) = place[target]
               /\ maps_to(target, 0, GroupSize) = "false" =>
                     \A i \in 0..(GroupSize - 1) : SetOf(i + 1) # place[target]
    <2>1. 0 \in Nat /\ GroupSize \in 0..Len(evsets)
      BY <1>2, <1>4, <1>5
    <2>2. QED
      BY <1>0, <1>5, <2>1, RangeTells, Zenon
  <1>6. CASE /\ maps_to(target, 0, GroupSize) = "true"
             /\ pc' = "bisect" /\ first' = 0 /\ last' = GroupSize
             /\ UNCHANGED <<found, asking, answer>>
    <2>1. StateInv'
      BY <1>0, <1>1, <1>6 DEF StateInv, found
    <2>2. MissingInv' /\ AnswerInv'
      BY <1>6 DEF MissingInv, AnswerInv
    <2>3. ReadyInv'
      BY <1>0, <1>1, <1>6 DEF ReadyInv, Index
    <2>4. BisectInv'
      <3>1. GroupSize \in Nat
        BY <1>0, <1>2, <1>4
      <3>2. CASE strategy = "cisw"
        BY <1>0, <1>1, <1>2, <1>4, <1>6, <3>1, <3>2 DEF BisectInv, Within
      <3>3. CASE strategy = "eviction_set"
        <4>1. ASSUME target \notin seen_addresses
              PROVE  \E i \in 0..(GroupSize - 1) : i + 1 \in 1..Len(evsets) /\ SetOf(i + 1)' = place[target]
          <5>1. PICK i \in 0..(GroupSize - 1) : SetOf(i + 1) = place[target]
            BY <1>5, <1>6, <3>3, <4>1
          <5>2. i + 1 \in 1..Len(evsets)
            BY <1>2, <1>4, <3>3
          <5>3. QED
            BY <1>1, <5>1, <5>2
        <4>2. QED
          BY <1>0, <1>1, <1>2, <1>4, <1>6, <3>1, <3>3, <4>1 DEF BisectInv, Within
      <3>4. QED
        BY <1>0, <3>2, <3>3
    <2>5. QED
      BY <1>1, <2>1, <2>2, <2>3, <2>4
  <1>7. CASE /\ maps_to(target, 0, GroupSize) = "false" /\ ~asking
             /\ pc' = "find" /\ size' = WaysOfLevel /\ attempt' = 0
             /\ UNCHANGED <<group, out, asking, answer>>
    <2>1. StateInv' /\ strategy = "eviction_set" /\ target \notin seen_addresses
      BY <1>0, <1>1, <1>3, <1>7 DEF StateInv
    <2>2. ASSUME NEW i \in 1..Len(evsets) PROVE SetOf(i) # place[target]
      <3>1. i - 1 \in 0..(GroupSize - 1) /\ (i - 1) + 1 = i
        BY <1>2, <1>4, <2>1
      <3>2. QED
        BY <1>5, <1>7, <2>1, <3>1
    <2>3. MissingInv'
      BY <1>0, <1>1, <1>7, <2>2 DEF MissingInv
    <2>4. BisectInv' /\ ReadyInv' /\ AnswerInv'
      BY <1>7 DEF BisectInv, ReadyInv, AnswerInv
    <2>5. QED
      BY <1>1, <2>1, <2>3, <2>4
  <1>8. CASE /\ maps_to(target, 0, GroupSize) = "false" /\ asking
             /\ pc' = "answered" /\ answer' = Nowhere
             /\ UNCHANGED <<group, found, asking>>
    <2>1. StateInv'
      BY <1>0, <1>1, <1>8 DEF StateInv, found
    <2>2. MissingInv' /\ BisectInv'
      BY <1>8 DEF MissingInv, BisectInv
    <2>3. ReadyInv'
      BY <1>0, <1>1, <1>8 DEF ReadyInv, Index
    <2>4. strategy = "eviction_set"
      BY <1>0, <1>2, <1>4, <1>8 DEF maps_to, cisw_maps_to
    <2>5. target \in seen_addresses
      <3> SUFFICES ASSUME target \notin seen_addresses PROVE FALSE
        OBVIOUS
      <3>1. Len(evsets) = Sets
        BY <1>8, <2>4 DEF ReadyInv
      <3>2. PICK i \in 0..(Sets - 1) : SetOf(i + 1) = place[target]
        BY <1>0, <3>1, AllSets
      <3>3. QED
        BY <1>4, <1>5, <1>8, <2>4, <3>1, <3>2
    <2>6. AnswerInv'
      BY <1>0, <1>1, <1>8, <2>4, <2>5 DEF AnswerInv
    <2>7. QED
      BY <1>1, <2>1, <2>2, <2>3, <2>6
  <1>9. CASE UNCHANGED <<pc, group, found, asking, answer>>
    <2>1. StateInv'
      BY <1>0, <1>1, <1>9 DEF StateInv, found
    <2>2. MissingInv' /\ BisectInv' /\ AnswerInv'
      BY <1>0, <1>9 DEF MissingInv, BisectInv, AnswerInv
    <2>3. ReadyInv'
      BY <1>0, <1>1, <1>9 DEF ReadyInv, Index
    <2>4. QED
      BY <1>1, <2>1, <2>2, <2>3
  <1>10. QED
    BY <1>6, <1>7, <1>8, <1>9 DEF GroupTestAll

\* Halving keeps the target's eviction set in the range.
LEMMA TestHalfStep ==
    ASSUME SearchInv, GroupTestHalf
    PROVE  SearchInv'
  <1> USE DEF SearchInv
  <1> DEFINE mid == first + (last - first) \div 2
  <1>0. /\ pc = "bisect" /\ target \in Addr /\ cache \in Caches /\ strategy \in {"eviction_set", "cisw"}
        /\ UNCHANGED <<cache, pc, evsets, seen_addresses, target, out, asking, answer>>
    BY Geometry DEF GroupTestHalf, StateInv, search, found
  <1>1. /\ EvsetsInv' /\ place' = place /\ strategy' = strategy /\ Sets' = Sets
        /\ \A i \in 1..Len(evsets) : SetOf(i)' = SetOf(i)
    BY <1>0, EvsetsKept
  <1>2. StateInv' /\ MissingInv' /\ AnswerInv'
    BY <1>0, <1>1 DEF StateInv, MissingInv, AnswerInv
  <1>3. ReadyInv'
    BY <1>0, <1>1 DEF ReadyInv, Index
  <1>4. /\ first \in Nat /\ last \in Nat /\ Within(first, last) /\ Len(evsets) \in Nat
        /\ last - first > 1 /\ (strategy = "eviction_set" => last <= Len(evsets))
    BY <1>0 DEF BisectInv, EvsetsInv, GroupTestHalf
  <1>5. mid \in Nat /\ first < mid /\ mid < last
    BY <1>4
  <1>6. \/ maps_to(target, first, mid) = "true" /\ last' = mid /\ first' = first
        \/ maps_to(target, first, mid) = "false" /\ first' = mid /\ last' = last
        \/ first' = first /\ last' = last
    BY DEF GroupTestHalf, group
  <1> HIDE DEF mid
  <1>7. /\ maps_to(target, first, mid) = "true" => Within(first, mid)
        /\ maps_to(target, first, mid) = "false" => Within(mid, last)
    <2>1. CASE strategy = "cisw"
      <3>1. place[target] \in Int
        BY <1>0, Geometry
      <3>2. QED
        BY <1>4, <1>5, <2>1, <3>1 DEF Within, maps_to, cisw_maps_to
    <2>2. CASE strategy = "eviction_set" /\ target \notin seen_addresses
      <3>1. PICK k \in first..(last - 1) : k + 1 \in 1..Len(evsets) /\ SetOf(k + 1) = place[target]
        BY <1>4, <2>2 DEF Within
      <3>2. mid \in 0..Len(evsets)
        BY <1>4, <1>5, <2>2
      <3>3. /\ maps_to(target, first, mid) = "true" =>
                  \E i \in first..(mid - 1) : SetOf(i + 1) = place[target]
            /\ maps_to(target, first, mid) = "false" =>
                  \A i \in first..(mid - 1) : SetOf(i + 1) # place[target]
        BY <1>0, <1>4, <2>2, <3>2, RangeTells, Zenon
      <3>4. \A i \in first..(mid - 1) : i + 1 \in 1..Len(evsets)
        BY <1>4, <1>5, <3>2
      <3>5. k \in first..(mid - 1) \/ k \in mid..(last - 1)
        BY <1>4, <1>5
      <3>6. QED
        BY <2>2, <3>1, <3>3, <3>4, <3>5 DEF Within
    <2>3. CASE strategy = "eviction_set" /\ target \in seen_addresses
      BY <2>3 DEF Within
    <2>4. QED
      BY <1>0, <2>1, <2>2, <2>3
  <1>8. BisectInv'
    <2>1. /\ first' \in Nat /\ last' \in Nat
          /\ Within(first', last')
          /\ strategy = "eviction_set" => last' <= Len(evsets)
      BY <1>4, <1>5, <1>6, <1>7
    <2>2. QED
      BY <1>0, <1>1, <2>1 DEF BisectInv, Within
  <1>9. QED
    BY <1>1, <1>2, <1>3, <1>8

\* The eviction set that the target joins is the one of its cache set.
LEMMA LocatedStep ==
    ASSUME SearchInv, Located
    PROVE  SearchInv'
  <1> USE DEF SearchInv
  <1> DEFINE k == first + 1
             e == evsets[k]
             f == Append(e, target)
  <1>0. /\ pc = "bisect" /\ ~asking /\ target \in Addr /\ target \notin seen_addresses
        /\ cache \in Caches /\ strategy = "eviction_set" /\ last - first <= 1
        /\ seen_addresses' = seen_addresses \cup {target}
        /\ evsets' = [evsets EXCEPT ![k] = f]
        /\ pc' = "loop" /\ asking' = asking /\ cache' = cache /\ out' = out
    BY DEF Located, StateInv, found
  <1>1. /\ WaysOfLevel' = WaysOfLevel /\ place' = place /\ strategy' = strategy
        /\ WaysOfLevel \in Nat \ {0}
    BY <1>0, Geometry DEF WaysOfLevel, place, strategy
  <1>2. evsets \in Seq(Seq(Addr)) /\ k \in 1..Len(evsets) /\ SetOf(k) = place[target]
    <2>1. first \in Nat /\ last \in Nat /\ evsets \in Seq(Seq(Addr))
      BY <1>0 DEF BisectInv, EvsetsInv
    <2>2. PICK i \in first..(last - 1) : i + 1 \in 1..Len(evsets) /\ SetOf(i + 1) = place[target]
      BY <1>0 DEF BisectInv, Within
    <2>3. i = first
      BY <1>0, <2>1
    <2>4. QED
      BY <2>1, <2>2, <2>3
  <1> HIDE DEF k
  <1>3. /\ e \in Seq(Addr) /\ Len(e) > WaysOfLevel /\ Range(e) \subseteq seen_addresses
        /\ \A j, l \in 1..Len(e) : e[j] = e[l] => j = l
        /\ \A a \in Range(e) : place[a] = SetOf(k)
    BY <1>2 DEF EvsetsInv
  <1>4. /\ f \in Seq(Addr) /\ Len(f) > WaysOfLevel
        /\ Range(f) = Range(e) \cup {target} /\ Head(f) = Head(e)
        /\ \A j, l \in 1..Len(f) : f[j] = f[l] => j = l
    <2> HIDE DEF e
    <2>1. Len(e) \in Nat /\ Len(e) > 0 /\ target \notin Range(e)
      BY <1>0, <1>1, <1>3
    <2>2. /\ f \in Seq(Addr) /\ Len(f) = Len(e) + 1
          /\ Range(f) = Range(e) \cup {target}
          /\ Len(e) > 0 => Head(f) = Head(e)
          /\ (target \notin Range(e) /\ \A j, l \in 1..Len(e) : e[j] = e[l] => j = l) =>
                \A j, l \in 1..Len(f) : f[j] = f[l] => j = l
      BY <1>0, <1>3, AppendFacts
    <2> HIDE DEF f
    <2>3. QED
      BY <1>1, <1>3, <2>1, <2>2
  <1> HIDE DEF f
  <1>5. /\ evsets' \in Seq(Seq(Addr)) /\ Len(evsets') = Len(evsets)
        /\ evsets'[k] = f /\ \A i \in 1..Len(evsets) : i # k => evsets'[i] = evsets[i]
    BY <1>0, <1>2, <1>4
  <1>6. \A i \in 1..Len(evsets) : SetOf(i)' = SetOf(i)
    BY <1>1, <1>4, <1>5 DEF SetOf
  <1>7. EvsetsInv'
    <2>1. ASSUME NEW i \in 1..Len(evsets)
          PROVE  /\ Len(evsets'[i]) > WaysOfLevel
                 /\ Range(evsets'[i]) \subseteq seen_addresses'
                 /\ \A j, l \in 1..Len(evsets'[i]) : evsets'[i][j] = evsets'[i][l] => j = l
                 /\ \A a \in Range(evsets'[i]) : place[a] = SetOf(i)
      <3>1. CASE i = k
        <4> HIDE DEF e
        <4>1. \A a \in Range(f) : place[a] = SetOf(k)
          BY <1>2, <1>3, <1>4
        <4>2. Range(f) \subseteq seen_addresses'
          BY <1>0, <1>3, <1>4
        <4>3. QED
          BY <1>4, <1>5, <3>1, <4>1, <4>2
      <3>2. CASE i # k
        BY <1>0, <1>5, <3>2 DEF EvsetsInv
      <3>3. QED
        BY <3>1, <3>2
    <2>2. seen_addresses' \in SUBSET Addr
      BY <1>0 DEF EvsetsInv
    <2>3. \A i, j \in 1..Len(evsets) : SetOf(i)' = SetOf(j)' => i = j
      BY <1>6 DEF EvsetsInv
    <2>4. QED
      BY <1>1, <1>5, <1>6, <2>1, <2>2, <2>3 DEF EvsetsInv
  <1>8. StateInv'
    BY <1>0, <1>1 DEF StateInv
  <1>9. MissingInv' /\ BisectInv' /\ ReadyInv' /\ AnswerInv'
    BY <1>0 DEF MissingInv, BisectInv, ReadyInv, AnswerInv
  <1>10. QED
    BY <1>7, <1>8, <1>9

\* Addresses are drawn until they evict the target.
LEMMA FindStep ==
    ASSUME SearchInv, NEW set \in Draws, FindDraw(set)
    PROVE  SearchInv'
  <1> USE DEF SearchInv
  <1>1. set \in SUBSET (Addr \ {target})
    BY DEF Draws, kSubset
  <1>2. /\ pc = "find" /\ pc' \in {"find", "reduce"}
        /\ pc' = "find" => out' = out
        /\ pc' = "reduce" => out' = set
        /\ UNCHANGED <<cache, evsets, seen_addresses, target, asking, answer>>
    BY DEF FindDraw, search
  <1>3. /\ EvsetsInv' /\ place' = place /\ strategy' = strategy
        /\ \A i \in 1..Len(evsets) : SetOf(i)' = SetOf(i)
    BY <1>2, EvsetsKept
  <1>4. StateInv'
    BY <1>1, <1>2, <1>3 DEF StateInv
  <1>5. MissingInv'
    BY <1>1, <1>2, <1>3 DEF MissingInv
  <1>6. BisectInv' /\ ReadyInv' /\ AnswerInv'
    BY <1>2, <1>4 DEF BisectInv, ReadyInv, AnswerInv, StateInv
  <1>7. QED
    BY <1>3, <1>4, <1>5, <1>6

\* A reduction that gives up leaves everything as it was.
LEMMA FailsStep ==
    ASSUME SearchInv, ReduceFails
    PROVE  SearchInv'
  <1> USE DEF SearchInv
  <1>1. /\ pc = "reduce" /\ pc' = "loop" /\ out' = {}
        /\ UNCHANGED <<cache, evsets, seen_addresses, asking, answer>>
    BY DEF ReduceFails, search
  <1>2. EvsetsInv' /\ strategy' = strategy
    BY <1>1, EvsetsKept
  <1>3. StateInv'
    BY <1>1, <1>2 DEF StateInv
  <1>4. MissingInv' /\ BisectInv' /\ ReadyInv' /\ AnswerInv'
    BY <1>1, <1>3 DEF MissingInv, BisectInv, ReadyInv, AnswerInv, StateInv
  <1>5. QED
    BY <1>2, <1>3, <1>4

\* The new eviction set is pure, because all it has are as many congruent addresses
\* as there are ways, and new, because no other evicts the target.
LEMMA ReduceStep ==
    ASSUME SearchInv, NEW evset \in Arrangements(out, WaysOfLevel), Reduce(evset)
    PROVE  SearchInv'
  <1> USE DEF SearchInv
  <1> DEFINE f == Append(evset, target)
  <1>0. /\ pc = "reduce" /\ target \in Addr /\ target \notin seen_addresses
        /\ cache \in Caches /\ strategy = "eviction_set" /\ ~asking
        /\ Range(evset) \subseteq out /\ out \in SUBSET Addr
        /\ Len(evset) = WaysOfLevel
        /\ Cardinality(Congruent(Range(evset), target)) = WaysOfLevel
        /\ seen_addresses' = seen_addresses \cup Range(evset) \cup {target}
        /\ evsets' = Append(evsets, f)
        /\ pc' = "loop" /\ out' = {} /\ asking' = asking /\ cache' = cache
    BY DEF Reduce, StateInv
  <1>1. /\ WaysOfLevel' = WaysOfLevel /\ place' = place /\ strategy' = strategy
        /\ WaysOfLevel \in Nat \ {0}
    BY <1>0, Geometry DEF WaysOfLevel, place, strategy
  <1>2. evset \in Seq(Addr)
    <2>1. PICK s \in SUBSET out : evset \in SetToSeqs(s)
      BY DEF Arrangements, kSubset
    <2>2. Cardinality(s) \in Nat /\ s \in SUBSET Addr
      BY <1>0, <2>1, Finite
    <2>3. evset \in [1..Cardinality(s) -> s]
      BY <2>1 DEF SetToSeqs
    <2>4. QED
      BY <2>2, <2>3
  <1>3. /\ \A j, k \in 1..Len(evset) : evset[j] = evset[k] => j = k
        /\ \A a \in Range(evset) : place[a] = place[target]
    <2>1. Congruent(Range(evset), target) \in SUBSET Range(evset)
      BY DEF Congruent
    <2>2. /\ IsFiniteSet(Range(evset)) /\ Cardinality(Range(evset)) \in Nat
          /\ Cardinality(Range(evset)) <= Len(evset)
          /\ (\A j, k \in 1..Len(evset) : evset[j] = evset[k] => j = k)
                <=> Cardinality(Range(evset)) = Len(evset)
      BY <1>2, DistinctCount
    <2>3. /\ Cardinality(Congruent(Range(evset), target)) <= Cardinality(Range(evset))
          /\ Cardinality(Range(evset)) = Cardinality(Congruent(Range(evset), target)) =>
                Range(evset) = Congruent(Range(evset), target)
      BY <2>1, <2>2, FS_Subset
    <2>4. Cardinality(Range(evset)) = Len(evset)
      BY <1>0, <1>1, <2>2, <2>3
    <2>5. Range(evset) = Congruent(Range(evset), target)
      BY <1>0, <2>3, <2>4
    <2>6. \A a \in Congruent(Range(evset), target) : place[a] = place[target]
      BY DEF Congruent
    <2>7. QED
      BY <2>2, <2>4, <2>5, <2>6
  <1>4. /\ f \in Seq(Addr) /\ Len(f) > WaysOfLevel
        /\ Range(f) = Range(evset) \cup {target} /\ Head(f) \in Range(evset)
        /\ \A j, k \in 1..Len(f) : f[j] = f[k] => j = k
    <2>1. target \notin Range(evset)
      BY <1>0 DEF MissingInv
    <2>2. Len(evset) > 0
      BY <1>0, <1>1
    <2>3. QED
      <3>1. /\ f \in Seq(Addr) /\ Len(f) = Len(evset) + 1
            /\ Range(f) = Range(evset) \cup {target}
            /\ Head(f) = Head(evset) /\ Head(evset) \in Range(evset)
            /\ \A j, k \in 1..Len(f) : f[j] = f[k] => j = k
        BY <1>0, <1>2, <1>3, <2>1, <2>2, AppendFacts
      <3> HIDE DEF f
      <3>2. QED
        BY <1>0, <1>1, <3>1
  <1> HIDE DEF f
  <1>5. PICK n \in Nat : n = Len(evsets) /\ evsets \in Seq(Seq(Addr))
    BY DEF EvsetsInv
  <1>6. /\ evsets' \in Seq(Seq(Addr)) /\ Len(evsets') = n + 1
        /\ evsets'[n + 1] = f /\ \A i \in 1..n : evsets'[i] = evsets[i]
    BY <1>0, <1>4, <1>5
  <1>7. /\ \A i \in 1..n : SetOf(i)' = SetOf(i) /\ SetOf(i) # place[target]
        /\ SetOf(n + 1)' = place[target]
    <2>1. \A i \in 1..n : SetOf(i) # place[target]
      BY <1>0, <1>5 DEF MissingInv
    <2>2. \A i \in 1..n : SetOf(i)' = SetOf(i)
      BY <1>1, <1>6 DEF SetOf
    <2>3. SetOf(n + 1)' = place[target]
      BY <1>1, <1>3, <1>4, <1>6 DEF SetOf
    <2>4. QED
      BY <2>1, <2>2, <2>3
  <1>8. 1..(n + 1) = (1..n) \cup {n + 1}
    BY <1>5
  <1>9. EvsetsInv'
    <2>1. ASSUME NEW i \in 1..(n + 1)
          PROVE  /\ Len(evsets'[i]) > WaysOfLevel
                 /\ Range(evsets'[i]) \subseteq seen_addresses'
                 /\ \A j, k \in 1..Len(evsets'[i]) : evsets'[i][j] = evsets'[i][k] => j = k
                 /\ \A a \in Range(evsets'[i]) : place[a] = SetOf(i)'
      <3>1. CASE i = n + 1
        <4>1. \A a \in Range(f) : place[a] = place[target]
          BY <1>3, <1>4
        <4>2. Range(f) \subseteq seen_addresses'
          BY <1>0, <1>4
        <4>3. QED
          BY <1>4, <1>6, <1>7, <3>1, <4>1, <4>2
      <3>2. CASE i \in 1..n
        <4>1. evsets'[i] = evsets[i] /\ SetOf(i)' = SetOf(i)
          BY <1>6, <1>7, <3>2
        <4>2. /\ Len(evsets[i]) > WaysOfLevel
              /\ Range(evsets[i]) \subseteq seen_addresses
              /\ \A j, k \in 1..Len(evsets[i]) : evsets[i][j] = evsets[i][k] => j = k
              /\ \A a \in Range(evsets[i]) : place[a] = SetOf(i)
          BY <1>5, <3>2 DEF EvsetsInv
        <4>3. QED
          BY <1>0, <4>1, <4>2
      <3>3. QED
        BY <1>8, <3>1, <3>2
    <2>2. seen_addresses' \in SUBSET Addr
      BY <1>0 DEF EvsetsInv
    <2>3. \A i, j \in 1..(n + 1) : SetOf(i)' = SetOf(j)' => i = j
      BY <1>5, <1>7, <1>8 DEF EvsetsInv
    <2>4. QED
      BY <1>1, <1>6, <2>1, <2>2, <2>3 DEF EvsetsInv
  <1>10. StateInv'
    BY <1>0, <1>1 DEF StateInv
  <1>11. MissingInv' /\ BisectInv' /\ ReadyInv' /\ AnswerInv'
    BY <1>0 DEF MissingInv, BisectInv, ReadyInv, AnswerInv
  <1>12. QED
    BY <1>9, <1>10, <1>11

\* Sorting moves the eviction sets and loses none.
LEMMA ReorderStep ==
    ASSUME SearchInv, Reorder
    PROVE  SearchInv'
  <1> USE DEF SearchInv
  <1>0. /\ pc = "loop" /\ pc' = "ready" /\ Len(evsets) = Sets
        /\ UNCHANGED <<cache, seen_addresses, target, out, asking, answer>>
    BY DEF Reorder, found
  <1>1. /\ WaysOfLevel' = WaysOfLevel /\ place' = place /\ strategy' = strategy /\ Sets' = Sets
    BY <1>0 DEF WaysOfLevel, place, strategy, Sets, IndexBits
  <1>2. PICK n \in Nat : n = Len(evsets) /\ evsets \in [1..n -> Seq(Addr)] /\ DOMAIN evsets = 1..n
    BY DEF EvsetsInv
  <1>3. PICK p \in Bijection(1..n, 1..n) :
          /\ evsets' = [i \in 1..n |-> evsets[p[i]]]
          /\ \A i, j \in 1..n : i < j => Index(evsets'[i]) <= Index(evsets'[j])
    BY <1>2 DEF Reorder, Reordered
  <1>4. /\ p \in [1..n -> 1..n]
        /\ \A i, j \in 1..n : p[i] = p[j] => i = j
    BY <1>3 DEF Bijection, Injection, IsInjective
  <1>5. /\ evsets' \in Seq(Seq(Addr)) /\ Len(evsets') = n
        /\ \A i \in 1..n : evsets'[i] = evsets[p[i]]
    BY <1>2, <1>3, <1>4
  <1>6. \A i \in 1..n : p[i] \in 1..n /\ SetOf(i)' = SetOf(p[i])
    BY <1>1, <1>4, <1>5 DEF SetOf
  <1>7. EvsetsInv'
    <2>1. ASSUME NEW i \in 1..n
          PROVE  /\ Len(evsets'[i]) > WaysOfLevel
                 /\ Range(evsets'[i]) \subseteq seen_addresses
                 /\ \A j, k \in 1..Len(evsets'[i]) : evsets'[i][j] = evsets'[i][k] => j = k
                 /\ \A a \in Range(evsets'[i]) : place[a] = SetOf(i)'
      <3>1. evsets'[i] = evsets[p[i]] /\ p[i] \in 1..Len(evsets) /\ SetOf(i)' = SetOf(p[i])
        BY <1>2, <1>5, <1>6
      <3>2. /\ Len(evsets[p[i]]) > WaysOfLevel
            /\ Range(evsets[p[i]]) \subseteq seen_addresses
            /\ \A j, k \in 1..Len(evsets[p[i]]) : evsets[p[i]][j] = evsets[p[i]][k] => j = k
            /\ \A a \in Range(evsets[p[i]]) : place[a] = SetOf(p[i])
        BY <3>1 DEF EvsetsInv
      <3>3. QED
        BY <3>1, <3>2
    <2>2. \A i, j \in 1..n : SetOf(i)' = SetOf(j)' => i = j
      BY <1>2, <1>4, <1>6 DEF EvsetsInv
    <2>3. QED
      BY <1>0, <1>1, <1>5, <2>1, <2>2 DEF EvsetsInv
  <1>8. StateInv'
    BY <1>0, <1>1 DEF StateInv
  <1>9. ReadyInv'
    BY <1>0, <1>1, <1>2, <1>3, <1>5 DEF ReadyInv, Index
  <1>10. MissingInv' /\ BisectInv' /\ AnswerInv'
    BY <1>0 DEF MissingInv, BisectInv, AnswerInv
  <1>11. QED
    BY <1>7, <1>8, <1>9, <1>10

\* locate_set begins with all eviction sets in order.
LEMMA LocateStep ==
    ASSUME SearchInv, NEW t \in Addr, LocateSet(t)
    PROVE  SearchInv'
  <1> USE DEF SearchInv
  <1>1. /\ pc = "ready" /\ pc' = "exists" /\ target' = t /\ asking' = TRUE
        /\ UNCHANGED <<cache, evsets, seen_addresses, out>>
    BY DEF LocateSet, search, found
  <1>2. EvsetsInv' /\ strategy' = strategy /\ Sets' = Sets
    BY <1>1, EvsetsKept
  <1>3. StateInv'
    BY <1>1, <1>2 DEF StateInv
  <1>4. ReadyInv'
    BY <1>1, <1>2 DEF ReadyInv, Index
  <1>5. MissingInv' /\ BisectInv' /\ AnswerInv'
    BY <1>1 DEF MissingInv, BisectInv, AnswerInv
  <1>6. QED
    BY <1>2, <1>3, <1>4, <1>5

\* The range that is left is the answer.
LEMMA AnswerStep ==
    ASSUME SearchInv, Answer
    PROVE  SearchInv'
  <1> USE DEF SearchInv
  <1>1. /\ pc = "bisect" /\ pc' = "answered" /\ answer' = first /\ last - first <= 1 /\ asking
        /\ UNCHANGED <<cache, evsets, seen_addresses, target, out, asking>>
    BY DEF Answer, search, found
  <1>2. /\ EvsetsInv' /\ place' = place /\ strategy' = strategy /\ Sets' = Sets
        /\ \A i \in 1..Len(evsets) : SetOf(i)' = SetOf(i)
    BY <1>1, EvsetsKept
  <1>3. StateInv'
    BY <1>1, <1>2 DEF StateInv
  <1>4. ReadyInv'
    BY <1>1, <1>2 DEF ReadyInv, Index
  <1>5. first \in Nat /\ last \in Nat /\ Within(first, last)
    BY <1>1 DEF BisectInv
  <1>6. \A i \in first..(last - 1) : i \in first..((first + 1) - 1)
    BY <1>1, <1>5
  <1>7. Within(first, first + 1)
    BY <1>5, <1>6 DEF Within
  <1>8. AnswerInv'
    <2>1. first # Nowhere
      BY <1>5 DEF Nowhere
    <2>2. QED
      BY <1>1, <1>2, <1>5, <1>7, <2>1 DEF AnswerInv, Within
  <1>9. MissingInv' /\ BisectInv'
    BY <1>1 DEF MissingInv, BisectInv
  <1>10. QED
    BY <1>2, <1>3, <1>4, <1>8, <1>9

\* SearchInv is an invariant of the search and of locate_set.
LEMMA SearchHolds == SearchSpec => []SearchInv
  <1>1. SearchInv /\ [SearchNext]_search_vars => SearchInv'
    <2> SUFFICES ASSUME SearchInv, [SearchNext]_search_vars PROVE SearchInv'
      OBVIOUS
    <2>1. CASE SearchNext
      BY <2>1, DrawStep, TestAllStep, TestHalfStep, LocatedStep, FindStep, ReduceStep,
         FailsStep, ReorderStep, LocateStep, AnswerStep DEF SearchNext
    <2>2. CASE UNCHANGED search_vars
      <3>1. UNCHANGED <<cache, pc, evsets, seen_addresses, target, first, last, out, asking, answer>>
        BY <2>2 DEF search_vars, search, group, found
      <3>2. QED
        BY <3>1 DEF SearchInv, StateInv, EvsetsInv, MissingInv, BisectInv, ReadyInv, AnswerInv,
           Within, SetOf, Index, place, strategy, Sets, IndexBits, WaysOfLevel
    <2>3. QED
      BY <2>1, <2>2
  <1>2. QED
    BY <1>1, InitHolds, PTL DEF SearchSpec

-----------------------------------------------------------------------------
(* The theorems.                                                           *)

\* The search never makes two eviction sets for one cache set, nor an impure or
\* incomplete one, whatever the index function, the draws and the order of the
\* reduced sets, for every geometry of the cache.
THEOREM SetsDiffer == SearchSpec => []OnePerSet
  <1>1. SearchInv => OnePerSet
    <2> SUFFICES ASSUME SearchInv PROVE OnePerSet
      OBVIOUS
    <2>1. ASSUME NEW i \in 1..Len(evsets)
          PROVE  /\ Cardinality(Range(evsets[i])) = Len(evsets[i]) /\ Len(evsets[i]) > WaysOfLevel
                 /\ \A a \in Range(evsets[i]) : place[a] = place[Head(evsets[i])]
      <3>1. evsets[i] \in Seq(Addr)
        BY DEF SearchInv, EvsetsInv
      <3>2. /\ \A j, k \in 1..Len(evsets[i]) : evsets[i][j] = evsets[i][k] => j = k
            /\ Len(evsets[i]) > WaysOfLevel
            /\ \A a \in Range(evsets[i]) : place[a] = place[Head(evsets[i])]
        BY DEF SearchInv, EvsetsInv, SetOf
      <3>3. QED
        BY <3>1, <3>2, DistinctCount
    <2>2. \A i, j \in 1..Len(evsets) :
            i # j => place[Head(evsets[i])] # place[Head(evsets[j])]
      BY DEF SearchInv, EvsetsInv, SetOf
    <2>3. QED
      BY <2>1, <2>2 DEF OnePerSet
  <1>2. QED
    BY <1>1, SearchHolds, PTL

\* locate_set is right about every address that is in no eviction set: it names the
\* eviction set of its cache set, and with CISW, or when the placement is modular,
\* the number of the cache set itself.
THEOREM LocatedRight == SearchSpec => []LocatesRight
  <1>1. SearchInv => LocatesRight
    <2> SUFFICES ASSUME SearchInv, pc = "answered", target \notin seen_addresses
                 PROVE  /\ answer # Nowhere
                        /\ strategy = "eviction_set" => place[Head(evsets[answer + 1])] = place[target]
                        /\ (strategy = "cisw" \/ \A a \in Addr : place[a] = a % Sets) =>
                              answer = place[target]
      BY DEF LocatesRight
    <2> USE DEF SearchInv
    <2>1. cache \in Caches /\ target \in Addr /\ asking
      BY DEF StateInv
    <2>2. /\ Sets \in Nat \ {0} /\ place \in [Addr -> 0..(Sets - 1)]
          /\ strategy \in {"eviction_set", "cisw"}
      BY <2>1, Geometry
    <2>3. answer # Nowhere /\ answer \in Nat /\ Within(answer, answer + 1)
      BY DEF AnswerInv
    <2>4. answer..((answer + 1) - 1) = {answer}
      BY <2>3
    <2>5. CASE strategy = "cisw"
      BY <2>3, <2>4, <2>5 DEF Within
    <2>6. CASE strategy = "eviction_set"
      <3>1. answer + 1 \in 1..Len(evsets) /\ SetOf(answer + 1) = place[target]
        BY <2>3, <2>4, <2>6 DEF Within
      <3>2. ASSUME \A a \in Addr : place[a] = a % Sets PROVE answer = place[target]
        <4>1. /\ Len(evsets) = Sets
              /\ \A i, j \in 1..Sets : i < j => Index(evsets[i]) <= Index(evsets[j])
          BY <2>1, <2>6 DEF ReadyInv
        <4>2. \A i \in 1..Sets : Head(evsets[i]) \in Addr
          BY <2>1, <4>1, HeadsIn
        <4>3. \A i \in 1..Sets : Index(evsets[i]) = SetOf(i) /\ SetOf(i) \in 0..(Sets - 1)
          BY <2>2, <3>2, <4>2 DEF Index, SetOf
        <4>4. \A i, j \in 1..Sets : i < j => SetOf(i) < SetOf(j)
          <5> SUFFICES ASSUME NEW i \in 1..Sets, NEW j \in 1..Sets, i < j
                       PROVE  SetOf(i) < SetOf(j)
            OBVIOUS
          <5>1. SetOf(i) # SetOf(j)
            BY <2>2, <4>1 DEF EvsetsInv
          <5>2. SetOf(i) <= SetOf(j) /\ SetOf(i) \in Int /\ SetOf(j) \in Int
            BY <2>2, <4>1, <4>3
          <5>3. QED
            BY <5>1, <5>2
        <4> DEFINE f == [i \in 1..Sets |-> SetOf(i)]
        <4>5. f \in [1..Sets -> 0..(Sets - 1)] /\ \A i \in 1..Sets : f[i] = SetOf(i)
          BY <4>3
        <4> HIDE DEF f
        <4>6. \A i, j \in 1..Sets : i < j => f[i] < f[j]
          BY <4>4, <4>5
        <4>7. \A i \in 1..Sets : f[i] = i - 1
          BY <2>2, <4>5, <4>6, Ascending
        <4>8. f[answer + 1] = (answer + 1) - 1 /\ f[answer + 1] = place[target]
          BY <3>1, <4>1, <4>5, <4>7
        <4>9. QED
          BY <2>3, <4>8
      <3>3. QED
        BY <2>3, <2>6, <3>1, <3>2 DEF SetOf
    <2>7. QED
      BY <2>2, <2>5, <2>6
  <1>2. QED
    BY <1>1, SearchHolds, PTL
=============================================================================
