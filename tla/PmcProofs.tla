------------------------------ MODULE PmcProofs ------------------------------
(***************************************************************************)
(* The theorems about PerformanceCounters: the level that an instrumented  *)
(* access is told to have come from, and the selections that the agents    *)
(* leave behind, for counters and words of any width and any number of     *)
(* interrupts that a counter can tell apart.                               *)
(***************************************************************************)
EXTENDS PerformanceCounters, TLAPS

-----------------------------------------------------------------------------
(* The inductive invariant.                                                *)

EventNames == {"l1_hit", "l2_hit", "l3_hit", "l1_refill", "l2_refill", "l3_refill",
               None, Foreign}
Values == 0..(2^CounterBits - 1)

\* The counters that the method uses, whether one must count an access of a level,
\* and whether it may.
Used == 0..(Len(Events(method)) - 1)
Sees(i, level) == Events(method)[i + 1] \in Happens(level)
MaySee(i, level) == Events(method)[i + 1] \in Happens(level) \cup Overcounted

RegisterInv ==
    /\ method \in Methods /\ isolation \in Isolation
    /\ pc \in {"idle", "configure", "ready", "access", "after"}
    /\ sel \in [Counters -> EventNames]
    /\ enabled \in SUBSET Counters
    /\ count \in [Counters -> Values] /\ before \in [Read -> Values]
    /\ next \in 0..3 /\ served \in Serving
    /\ interrupts \in 0..MaxInterrupts

\* The selections of the other user are in the registers or in the agent's copy.
SavedInv ==
    /\ found \in [Counters -> EventNames]
    /\ pc = "idle" => sel = found
    /\ pc # "idle" => local_pmc = found

Programmed(i) == i \in enabled /\ sel[i] = Events(method)[i + 1]

\* The counters are programmed one after the other.
ConfigInv ==
    /\ ~IsArm => enabled = Counters /\ running = TRUE
    /\ pc = "configure" =>
          /\ next <= Len(Events(method))
          /\ next > 0 => running = TRUE
          /\ \A i \in 0..(next - 1) : Programmed(i)
    /\ pc \in {"ready", "access", "after"} => running = TRUE /\ \A i \in Used : Programmed(i)

\* The counter i has moved by k since the first reading: by the access, if it sees
\* it, and by some of the interrupts.
Accesses == IF pc = "after" THEN 1 ELSE 0
Moved(i, k) ==
    /\ count[i] = (before[i] + k) % 2^CounterBits
    /\ k <= interrupts + Accesses
    /\ (pc = "after" /\ Sees(i, served)) => k >= 1
    /\ (interrupts = 0 /\ ~(pc = "after" /\ MaySee(i, served))) => k = 0
CountInv == pc \in {"access", "after"} => \A i \in Used : \E k \in 0..(MaxInterrupts + 1) : Moved(i, k)

PmcInv == RegisterInv /\ SavedInv /\ ConfigInv /\ CountInv /\ LevelTold

-----------------------------------------------------------------------------
(* Arithmetic of counters.                                                 *)

\* A product with a positive factor.
LEMMA Multiples ==
    ASSUME NEW m \in Nat \ {0}, NEW q \in Int
    PROVE  /\ q * m \in Int
           /\ q >= 1 => q * m >= m
           /\ q >= 2 => q * m >= 2 * m
           /\ q <= -1 => q * m <= -m
           /\ q <= -2 => q * m <= -(2 * m)
           /\ q = 0 => q * m = 0
           /\ q = 1 => q * m = m
           /\ q = -1 => q * m = -m
  OBVIOUS

\* Quotient and remainder.
LEMMA Remainder ==
    ASSUME NEW n \in Int, NEW m \in Nat \ {0}
    PROVE  n \div m \in Int /\ n % m \in 0..(m - 1) /\ n = (n \div m) * m + (n % m)
  OBVIOUS

\* A sum of two values wraps around at most once.
LEMMA WrapOnce ==
    ASSUME NEW m \in Nat \ {0}, NEW x \in Int, NEW r, r = x % m
    PROVE  /\ r \in 0..(m - 1)
           /\ x \in 0..(m - 1) => r = x
           /\ x \in m..(2 * m - 1) => r = x - m
           /\ x \in (-m)..(-1) => r = x + m
  <1>1. PICK q \in Int : r \in 0..(m - 1) /\ x = q * m + r
    <2>1. x \div m \in Int /\ x % m \in 0..(m - 1) /\ x = (x \div m) * m + (x % m)
      BY Remainder
    <2>2. QED
      BY <2>1, Zenon
  <1>2. /\ q * m \in Int
        /\ q >= 1 => q * m >= m
        /\ q >= 2 => q * m >= 2 * m
        /\ q <= -1 => q * m <= -m
        /\ q <= -2 => q * m <= -(2 * m)
        /\ q = 0 => q * m = 0
        /\ q = 1 => q * m = m
        /\ q = -1 => q * m = -m
    BY Multiples
  <1>3. x \in Int /\ r \in Int
    BY <1>1
  <1> DEFINE p == q * m
  <1>4. x = p + r
    BY <1>1
  <1> HIDE DEF p
  <1>5. QED
    BY <1>1, <1>2, <1>3, <1>4 DEF p

\* A counter that moved by fewer steps than it has values differs from what it was
\* exactly when it moved, and so does the difference in a word.
LEMMA DeltaTells ==
    ASSUME NEW m \in Nat \ {0}, NEW w \in Nat \ {0}, m <= w,
           NEW b \in 0..(m - 1), NEW k \in 0..(m - 1), NEW a, a = (b + k) % m
    PROVE  (a - b) % w # 0 <=> k # 0
  <1>1. /\ a \in 0..(m - 1)
        /\ b + k \in 0..(m - 1) => a = b + k
        /\ b + k \in m..(2 * m - 1) => a = b + k - m
    <2>1. PICK x \in Int : x = b + k
      OBVIOUS
    <2>2. /\ a \in 0..(m - 1)
          /\ x \in 0..(m - 1) => a = x
          /\ x \in m..(2 * m - 1) => a = x - m
      BY <2>1, WrapOnce, Zenon
    <2>3. QED
      BY <2>1, <2>2
  <1>2. PICK d : d = (a - b) % w
    OBVIOUS
  <1>3. /\ d \in 0..(w - 1)
        /\ a - b \in 0..(w - 1) => d = a - b
        /\ a - b \in (-w)..(-1) => d = (a - b) + w
    BY <1>1, <1>2, WrapOnce
  <1>4. k = 0 => d = 0
    BY <1>1, <1>3
  <1>5. k # 0 => d # 0
    BY <1>1, <1>3
  <1>6. QED
    BY <1>2, <1>4, <1>5

\* One more step.
LEMMA OneMore ==
    ASSUME NEW m \in Nat \ {0}, NEW b \in 0..(m - 1), NEW k \in 0..(m - 1),
           NEW a, a = (b + k) % m
    PROVE  a \in 0..(m - 1) /\ (a + 1) % m = (b + (k + 1)) % m
  <1>1. /\ a \in 0..(m - 1)
        /\ b + k \in 0..(m - 1) => a = b + k
        /\ b + k \in m..(2 * m - 1) => a = b + k - m
    <2>1. PICK x \in Int : x = b + k
      OBVIOUS
    <2>2. /\ a \in 0..(m - 1)
          /\ x \in 0..(m - 1) => a = x
          /\ x \in m..(2 * m - 1) => a = x - m
      BY <2>1, WrapOnce, Zenon
    <2>3. QED
      BY <2>1, <2>2
  <1>2. CASE b + k \in 0..(m - 1)
    <2>1. a + 1 = b + (k + 1)
      BY <1>1, <1>2
    <2>2. QED
      BY <1>1, <2>1
  <1>3. CASE b + k \in m..(2 * m - 1)
    <2>1. PICK x \in Int, y \in Int : x = a + 1 /\ y = b + (k + 1)
      BY <1>1
    <2>2. x = y - m /\ x \in 0..(m - 1) /\ y \in m..(2 * m - 1)
      BY <1>1, <1>3, <2>1
    <2>3. x % m = x
      BY <2>2, WrapOnce, Zenon
    <2>4. y % m = y - m
      BY <2>2, WrapOnce, Zenon
    <2>5. x % m = y % m
      BY <2>2, <2>3, <2>4
    <2>6. QED
      BY <2>1, <2>5
  <1>4. QED
    BY <1>1, <1>2, <1>3

\* The widths.
LEMMA Widths ==
    /\ 2^CounterBits \in Nat \ {0} /\ 2^WordBits \in Nat \ {0}
    /\ 2^CounterBits <= 2^WordBits
    /\ MaxInterrupts \in Nat /\ MaxInterrupts + 1 <= 2^CounterBits - 1
  <1>1. /\ CounterBits \in Nat /\ WordBits \in Nat /\ 2^CounterBits <= 2^WordBits
        /\ MaxInterrupts \in Nat /\ MaxInterrupts + 1 < 2^CounterBits
    BY PmcAssumption
  <1>2. 2^CounterBits \in Int /\ 2^WordBits \in Int
    BY <1>1
  <1>3. QED
    BY <1>1, <1>2

-----------------------------------------------------------------------------
(* The events and the handlers.                                            *)

\* The least and the greatest of a few levels.
LEMMA MinMax ==
    ASSUME NEW S \in SUBSET (0..3), NEW x \in S
    PROVE  /\ Min(S) \in S /\ \A y \in S : Min(S) <= y
           /\ Max(S) \in S /\ \A y \in S : Max(S) >= y
  <1>1. \E z \in S : \A y \in S : z <= y
    OBVIOUS
  <1>2. \E z \in S : \A y \in S : z >= y
    OBVIOUS
  <1>3. Min(S) \in S /\ \A y \in S : Min(S) <= y
    BY <1>1, Zenon DEF Min
  <1>4. Max(S) \in S /\ \A y \in S : Max(S) >= y
    BY <1>2, Zenon DEF Max
  <1>5. QED
    BY <1>3, <1>4

\* How many counters a method uses and which levels each of them sees.
LEMMA WhatIsSeen ==
    ASSUME method \in Methods, NEW level \in Serving
    PROVE  /\ method = "intel" => /\ Used = 0..2 /\ level \in 0..3
                                  /\ \A i \in Used : Sees(i, level) <=> i = level
           /\ method = "amd-zen2" => /\ Used = 0..1 /\ level \in 0..3
                                     /\ Sees(0, level) <=> level >= 1
                                     /\ Sees(1, level) <=> level = 1
           /\ method = "rpi5" => /\ Used = 0..2 /\ level \in 0..3
                                 /\ \A i \in Used : Sees(i, level) <=> i < level
           /\ method = "a64fx" => /\ Used = 0..1 /\ level \in 0..2
                                  /\ \A i \in Used : Sees(i, level) <=> i < level
  <1>1. CASE method = "intel"
    <2>1. Events(method) = <<"l1_hit", "l2_hit", "l3_hit">> /\ level \in 0..3
      BY <1>1 DEF Events, Serving
    <2>2. Used = 0..2
      BY <2>1 DEF Used
    <2>3. \A i \in 0..2 : Sees(i, level) <=> i = level
      BY <2>1 DEF Sees, Happens, None, Foreign
    <2>4. QED
      BY <1>1, <2>1, <2>2, <2>3
  <1>2. CASE method = "amd-zen2"
    <2>1. Events(method) = <<"l1_refill", "l2_hit">> /\ level \in 0..3
      BY <1>2 DEF Events, Serving
    <2>2. Used = 0..1
      BY <2>1 DEF Used
    <2>3. (Sees(0, level) <=> level >= 1) /\ (Sees(1, level) <=> level = 1)
      BY <2>1 DEF Sees, Happens, None, Foreign
    <2>4. QED
      BY <1>2, <2>1, <2>2, <2>3
  <1>3. CASE method = "rpi5"
    <2>1. Events(method) = <<"l1_refill", "l2_refill", "l3_refill">> /\ level \in 0..3
      BY <1>3 DEF Events, Serving
    <2>2. Used = 0..2
      BY <2>1 DEF Used
    <2>3. \A i \in 0..2 : Sees(i, level) <=> i < level
      BY <2>1 DEF Sees, Happens, None, Foreign
    <2>4. QED
      BY <1>3, <2>1, <2>2, <2>3
  <1>4. CASE method = "a64fx"
    <2>1. Events(method) = <<"l1_refill", "l2_refill">> /\ level \in 0..2
      BY <1>4 DEF Events, Serving
    <2>2. Used = 0..1
      BY <2>1 DEF Used
    <2>3. \A i \in 0..1 : Sees(i, level) <=> i < level
      BY <2>1 DEF Sees, Happens, None, Foreign
    <2>4. QED
      BY <1>4, <2>1, <2>2, <2>3
  <1>5. QED
    BY <1>1, <1>2, <1>3, <1>4

\* A counter that must see an access may see it; only the second one of the A64FX may
\* see an access that it must not.
LEMMA WhatMayBeSeen ==
    ASSUME method \in Methods, NEW i \in Used, NEW level
    PROVE  /\ Sees(i, level) => MaySee(i, level)
           /\ MaySee(i, level) => Sees(i, level) \/ (method = "a64fx" /\ i = 1)
  <1>1. CASE method # "a64fx"
    BY <1>1 DEF Sees, MaySee, Overcounted
  <1>2. CASE method = "a64fx"
    <2>1. Events(method) = <<"l1_refill", "l2_refill">>
      BY <1>2 DEF Events
    <2>2. i = 0 \/ i = 1
      BY <2>1 DEF Used
    <2>3. i = 0 => Events(method)[i + 1] = "l1_refill"
      BY <2>1
    <2>4. QED
      BY <1>2, <2>2, <2>3 DEF Sees, MaySee, Overcounted
  <1>3. QED
    BY <1>1, <1>2

\* The smaller of a level and a bound on the levels.
LEMMA MinOfTwo ==
    ASSUME NEW x \in 0..3, NEW y \in 0..3
    PROVE  Min({x, y}) = IF x <= y THEN x ELSE y
  <1>1. {x, y} \in SUBSET (0..3)
    OBVIOUS
  <1>2. Min({x, y}) \in {x, y} /\ \A z \in {x, y} : Min({x, y}) <= z
    BY <1>1, MinMax
  <1>3. QED
    BY <1>2

\* When the counters that must see an access have moved, the handler errs to one
\* side; when no other has moved but those that may see it, it is right, or an A64FX
\* is told that memory was accessed.
LEMMA HandlerTells ==
    ASSUME method \in Methods, NEW level \in Serving, NEW d,
           \A i \in Used : Sees(i, level) => d[i] # 0
    PROVE  /\ method = "intel" => pmu_handler(d) <= level
           /\ method \in {"rpi5", "a64fx"} => pmu_handler(d) >= level
           /\ method = "amd-zen2" => (pmu_handler(d) = 0 => level = 0)
           /\ (\A i \in Used : d[i] # 0 => MaySee(i, level))
                 => \/ pmu_handler(d) = Min({level, IF method = "amd-zen2" THEN 2 ELSE 3})
                    \/ method = "a64fx" /\ pmu_handler(d) = 2
  <1>1. CASE method = "intel"
    <2>1. /\ Used = 0..2 /\ level \in 0..3
          /\ \A i \in Used : Sees(i, level) <=> i = level
      BY <1>1, WhatIsSeen
    <2> DEFINE S == {l \in Read : d[l] # 0} \cup {3}
    <2>2. pmu_handler(d) = Min(S)
      BY <1>1 DEF pmu_handler
    <2>3. S \in SUBSET (0..3) /\ 3 \in S /\ level \in S
      BY <2>1 DEF Read
    <2>4. Min(S) <= level
      BY <2>3, MinMax
    <2>5. ASSUME \A i \in Used : d[i] # 0 => MaySee(i, level)
          PROVE  Min(S) = Min({level, 3})
      <3>1. \A i \in Used : d[i] # 0 => Sees(i, level)
        BY <1>1, <2>5, WhatMayBeSeen
      <3>2. S = {level, 3}
        BY <2>1, <2>3, <3>1 DEF Read
      <3>3. QED
        BY <3>2
    <2> HIDE DEF S
    <2>6. QED
      BY <1>1, <2>2, <2>4, <2>5
  <1>2. CASE method = "amd-zen2"
    <2>1. /\ Used = 0..1 /\ level \in 0..3
          /\ Sees(0, level) <=> level >= 1
          /\ Sees(1, level) <=> level = 1
      BY <1>2, WhatIsSeen
    <2>2. pmu_handler(d) = IF d[0] = 0 THEN 0 ELSE IF d[1] # 0 THEN 1 ELSE 2
      BY <1>2 DEF pmu_handler
    <2>3. 0 \in Used /\ 1 \in Used
      BY <2>1
    <2>4. /\ level >= 1 => d[0] # 0
          /\ level = 1 => d[1] # 0
      BY <2>1, <2>3
    <2>5. ASSUME \A i \in Used : d[i] # 0 => MaySee(i, level)
          PROVE  pmu_handler(d) = Min({level, 2})
      <3>1. /\ d[0] # 0 => level >= 1
            /\ d[1] # 0 => level = 1
        <4>1. \A i \in Used : d[i] # 0 => Sees(i, level)
          BY <1>2, <2>5, WhatMayBeSeen
        <4>2. QED
          BY <2>1, <2>3, <4>1
      <3>2. Min({level, 2}) = IF level <= 2 THEN level ELSE 2
        BY <2>1, MinOfTwo
      <3>3. QED
        BY <2>1, <2>2, <2>4, <3>1, <3>2
    <2>6. QED
      BY <1>2, <2>1, <2>2, <2>4, <2>5
  <1>3. CASE method \in {"rpi5", "a64fx"}
    <2> DEFINE n == IF method = "rpi5" THEN 3 ELSE 2
               S == {l \in 1..n : d[l - 1] # 0} \cup {0}
    <2>1. /\ Used = 0..(n - 1) /\ level \in 0..n
          /\ \A i \in Used : Sees(i, level) <=> i < level
      <3>1. CASE method = "rpi5"
        <4>1. n = 3 /\ 3 - 1 = 2
          BY <3>1
        <4>2. QED
          BY <3>1, <4>1, WhatIsSeen
      <3>2. CASE method = "a64fx"
        <4>1. n = 2 /\ 2 - 1 = 1
          BY <3>2
        <4>2. QED
          BY <3>2, <4>1, WhatIsSeen
      <3>3. QED
        BY <1>3, <3>1, <3>2
    <2>2. pmu_handler(d) = Max(S)
      BY <1>3 DEF pmu_handler
    <2>3. n \in 2..3
      OBVIOUS
    <2> HIDE DEF n
    <2>4. \A l \in 1..level : l - 1 \in Used /\ Sees(l - 1, level)
      BY <2>1, <2>3
    <2>5. S \in SUBSET (0..3) /\ 0 \in S /\ level \in S
      BY <2>1, <2>3, <2>4
    <2>6. Max(S) \in S /\ Max(S) >= level
      BY <2>5, MinMax
    <2>7. ASSUME \A i \in Used : d[i] # 0 => Sees(i, level)
          PROVE  Max(S) = Min({level, 3})
      <3>1. \A l \in 1..n : d[l - 1] # 0 => l <= level
        <4>1. \A l \in 1..n : l - 1 \in Used
          BY <2>1, <2>3
        <4>2. QED
          BY <2>1, <2>3, <2>7, <4>1
      <3>2. Max(S) <= level
        BY <2>1, <2>3, <2>6, <3>1
      <3>3. Min({level, 3}) = level
        <4>1. level \in 0..3 /\ 3 \in 0..3 /\ level <= 3
          BY <2>1, <2>3
        <4>2. Min({level, 3}) = IF level <= 3 THEN level ELSE 3
          BY <4>1, MinOfTwo
        <4>3. QED
          BY <4>1, <4>2
      <3>4. QED
        BY <2>1, <2>3, <2>5, <2>6, <3>2, <3>3
    <2>8. ASSUME method = "a64fx", d[1] # 0
          PROVE  Max(S) = 2
      <3>1. n = 2
        BY <2>8 DEF n
      <3>2. 2 \in S /\ \A l \in S : l <= 2
        BY <2>8, <3>1
      <3>3. QED
        BY <2>5, <2>6, <3>2, MinMax
    <2> HIDE DEF S
    <2>9. ASSUME \A i \in Used : d[i] # 0 => MaySee(i, level)
          PROVE  Max(S) = Min({level, 3}) \/ (method = "a64fx" /\ Max(S) = 2)
      <3>1. CASE \A i \in Used : d[i] # 0 => Sees(i, level)
        BY <2>7, <3>1
      <3>2. CASE ~(\A i \in Used : d[i] # 0 => Sees(i, level))
        <4>1. PICK i \in Used : d[i] # 0 /\ ~Sees(i, level)
          BY <3>2
        <4>2. method = "a64fx" /\ i = 1
          BY <2>9, <4>1, WhatMayBeSeen
        <4>3. QED
          BY <2>8, <4>1, <4>2
      <3>3. QED
        BY <3>1, <3>2
    <2>10. QED
      BY <1>3, <2>2, <2>6, <2>9
  <1>4. QED
    BY <1>1, <1>2, <1>3, PmcAssumption

-----------------------------------------------------------------------------
(* The invariant holds at the start and is kept by every step.             *)

\* No access is told to have come from level 0.
LEMMA NothingTold ==
    ASSUME last = NoAccess
    PROVE  LevelTold
  <1>1. Min({0, IF method = "amd-zen2" THEN 2 ELSE 3}) = 0
    BY MinOfTwo
  <1>2. last.interrupted = FALSE /\ last.served = 0 /\ last.answer = 0
    BY DEF NoAccess
  <1>3. QED
    BY <1>1, <1>2 DEF LevelTold

\* The number of events of a method, each of which is one.
LEMMA EventsType ==
    ASSUME method \in Methods
    PROVE  /\ Len(Events(method)) \in 2..3
           /\ \A i \in Used : i \in Read /\ Events(method)[i + 1] \in EventNames \ {None}
  <1>1. CASE method = "intel"
    <2>1. Events(method) = <<"l1_hit", "l2_hit", "l3_hit">>
      BY <1>1 DEF Events
    <2>2. QED
      BY <2>1 DEF Used, Read, EventNames, None
  <1>2. CASE method = "amd-zen2"
    <2>1. Events(method) = <<"l1_refill", "l2_hit">>
      BY <1>2 DEF Events
    <2>2. QED
      BY <2>1 DEF Used, Read, EventNames, None
  <1>3. CASE method = "rpi5"
    <2>1. Events(method) = <<"l1_refill", "l2_refill", "l3_refill">>
      BY <1>3 DEF Events
    <2>2. QED
      BY <2>1 DEF Used, Read, EventNames, None
  <1>4. CASE method = "a64fx"
    <2>1. Events(method) = <<"l1_refill", "l2_refill">>
      BY <1>4 DEF Events
    <2>2. QED
      BY <2>1 DEF Used, Read, EventNames, None
  <1>5. QED
    BY <1>1, <1>2, <1>3, <1>4, PmcAssumption

\* Before the first agent.
LEMMA InvInit == Init => PmcInv
  <1> SUFFICES ASSUME Init PROVE PmcInv
    OBVIOUS
  <1>1. found \in [Counters -> EventNames]
    BY DEF Init, EventNames
  <1>2. RegisterInv
    <2>1. 0 \in Values /\ 0 \in 0..MaxInterrupts
      BY Widths DEF Values
    <2>2. count \in [Counters -> Values] /\ before \in [Read -> Values]
      BY <2>1 DEF Init, Unread
    <2>3. enabled \in SUBSET Counters /\ served \in Serving
      BY DEF Init, Counters, Serving
    <2>4. QED
      BY <1>1, <2>1, <2>2, <2>3 DEF Init, RegisterInv
  <1>3. SavedInv
    BY <1>1 DEF Init, SavedInv
  <1>4. ConfigInv /\ CountInv
    BY DEF Init, ConfigInv, CountInv
  <1>5. LevelTold
    BY NothingTold DEF Init
  <1>6. QED
    BY <1>2, <1>3, <1>4, <1>5 DEF PmcInv

\* What an access of a level does to a counter of the method.
LEMMA CountsAccess ==
    ASSUME PmcInv, pc \in {"ready", "access", "after"}, NEW level \in Serving,
           NEW also \in SUBSET Overcounted
    PROVE  /\ Counted(level, also) \in [Counters -> Values]
           /\ \A i \in Used :
                 LET one == (count[i] + 1) % 2^CounterBits
                 IN  /\ Sees(i, level) => Counted(level, also)[i] = one
                     /\ ~MaySee(i, level) => Counted(level, also)[i] = count[i]
                     /\ Counted(level, also)[i] \in {count[i], one}
  <1>1. count \in [Counters -> Values] /\ running = TRUE /\ \A i \in Used : Programmed(i)
    BY DEF PmcInv, RegisterInv, ConfigInv
  <1>2. \A i \in Used : i \in Counters /\ Events(method)[i + 1] # None
    BY EventsType DEF PmcInv, RegisterInv, Read, Counters
  <1>3. \A i \in Counters : (count[i] + 1) % 2^CounterBits \in Values
    <2>1. TAKE i \in Counters
    <2>2. PICK x \in Int : x = count[i] + 1
      <3>1. count[i] \in Int
        BY <1>1, Widths DEF Values
      <3>2. QED
        BY <3>1
    <2>3. x % 2^CounterBits \in 0..(2^CounterBits - 1)
      BY Widths, Remainder
    <2>4. QED
      BY <2>2, <2>3 DEF Values
  <1>4. Counted(level, also) \in [Counters -> Values]
    BY <1>1, <1>3, Zenon DEF Counted
  <1> DEFINE One(i)   == (count[i] + 1) % 2^CounterBits
             Steps(i) == Events(method)[i + 1] \in Happens(level) \cup also
  <1>5. ASSUME NEW i \in Used
        PROVE  Counted(level, also)[i] = IF Steps(i) THEN One(i) ELSE count[i]
    BY <1>1, <1>2, Zenon DEF Counted, Programmed
  <1>6. ASSUME NEW i \in Used
        PROVE  (Sees(i, level) => Steps(i)) /\ (Steps(i) => MaySee(i, level))
    BY DEF Sees, MaySee
  <1> HIDE DEF One, Steps
  <1>7. ASSUME NEW i \in Used
        PROVE  /\ Sees(i, level) => Counted(level, also)[i] = One(i)
               /\ ~MaySee(i, level) => Counted(level, also)[i] = count[i]
               /\ Counted(level, also)[i] \in {count[i], One(i)}
    BY <1>5, <1>6
  <1>8. QED
    BY <1>4, <1>7 DEF One

\* What stays as it is while the method, the registers and the agent do.
LEMMA SameSetup ==
    ASSUME PmcInv, UNCHANGED <<method, isolation, found, sel, enabled, running, local_pmc>>
    PROVE  /\ IsArm' = IsArm /\ Used' = Used /\ Serving' = Serving
           /\ \A i : Programmed(i)' = Programmed(i)
           /\ \A i, level : Sees(i, level)' = Sees(i, level)
           /\ \A i, level : MaySee(i, level)' = MaySee(i, level)
           /\ ~IsArm => enabled = Counters /\ running = TRUE
           /\ Events(method') = Events(method)
  BY DEF PmcInv, ConfigInv, IsArm, Used, Serving, Programmed, Sees, MaySee, Overcounted

\* An answer stays as right as it was.
LEMMA SameAnswer ==
    ASSUME LevelTold, UNCHANGED <<method, last>>
    PROVE  LevelTold'
  BY DEF LevelTold

\* The agent saves the selections.
LEMMA SaveStep ==
    ASSUME PmcInv, Save
    PROVE  PmcInv'
  <1>1. /\ pc = "idle" /\ pc' = "configure" /\ next' = 0 /\ local_pmc' = sel
        /\ UNCHANGED <<method, isolation, found, enabled, running, count, before, served,
                       interrupts, last>>
        /\ sel' = IF IsArm THEN sel ELSE [i \in Counters |-> None]
    BY DEF Save, ch_local_pmc_save
  <1>2. sel' \in [Counters -> EventNames]
    BY <1>1 DEF PmcInv, RegisterInv, EventNames
  <1>3. RegisterInv'
    BY <1>1, <1>2 DEF PmcInv, RegisterInv, Serving
  <1>4. SavedInv'
    BY <1>1 DEF PmcInv, SavedInv
  <1>5. ConfigInv'
    <2>1. 0 <= Len(Events(method))
      BY EventsType DEF PmcInv, RegisterInv
    <2>2. \A i \in 0..(next' - 1) : FALSE
      BY <1>1
    <2>3. QED
      BY <1>1, <2>1, <2>2 DEF PmcInv, ConfigInv, IsArm
  <1>6. CountInv' /\ LevelTold'
    BY <1>1, SameAnswer DEF PmcInv, CountInv
  <1>7. QED
    BY <1>3, <1>4, <1>5, <1>6 DEF PmcInv

\* The agent programs the next counter, or has programmed all.
LEMMA ConfigureStep ==
    ASSUME PmcInv, Configure
    PROVE  PmcInv'
  <1>1. /\ pc = "configure"
        /\ UNCHANGED <<method, isolation, found, count, local_pmc, before, served, interrupts,
                       last>>
    BY DEF Configure
  <1>2. /\ method \in Methods /\ Len(Events(method)) \in 2..3 /\ next \in 0..3
        /\ next <= Len(Events(method)) /\ Events(method') = Events(method)
        /\ Used = 0..(Len(Events(method)) - 1)
    BY <1>1, EventsType DEF PmcInv, RegisterInv, ConfigInv, Used
  <1>3. LevelTold'
    BY <1>1, SameAnswer DEF PmcInv
  <1>4. CASE next < Len(Events(method))
    <2>1. /\ sel' = [sel EXCEPT ![next] = Events(method)[next + 1]]
          /\ next' = next + 1 /\ pc' = "configure"
          /\ IF IsArm THEN enabled' = enabled \cup {next} /\ running' = TRUE
                      ELSE enabled' = enabled /\ running' = running
      BY <1>1, <1>4 DEF Configure, ch_local_pmc_configure
    <2>2. next \in Used /\ next \in Counters /\ next' \in 0..3 /\ next' <= Len(Events(method))
      <3>1. next' = next + 1
        BY <2>1
      <3>2. PICK n \in 2..3 : n = Len(Events(method))
        BY <1>2
      <3>3. next \in 0..(n - 1) /\ next + 1 <= n /\ next \in 0..3 /\ next + 1 \in 0..3
        BY <1>2, <1>4, <3>2
      <3>4. QED
        BY <1>2, <3>1, <3>2, <3>3 DEF Counters
    <2>3. Events(method)[next + 1] \in EventNames
      BY <1>2, <2>2, EventsType
    <2>4. sel' \in [Counters -> EventNames] /\ enabled' \in SUBSET Counters
      BY <2>1, <2>2, <2>3 DEF PmcInv, RegisterInv
    <2>5. RegisterInv'
      BY <1>1, <2>1, <2>2, <2>4 DEF PmcInv, RegisterInv, Serving
    <2>6. SavedInv' /\ CountInv'
      BY <1>1, <2>1 DEF PmcInv, SavedInv, CountInv
    <2>7. /\ ~IsArm => enabled = Counters /\ running = TRUE
          /\ IsArm' = IsArm
      BY <1>1 DEF PmcInv, ConfigInv, IsArm
    <2>8. next \in enabled' /\ running' = TRUE /\ enabled \subseteq enabled'
      BY <2>1, <2>2, <2>7
    <2>9. ASSUME NEW i \in 0..next PROVE Programmed(i)'
      <3>1. sel \in [Counters -> EventNames] /\ i \in Counters
        BY <2>2 DEF PmcInv, RegisterInv, Counters
      <3>2. CASE i = next
        <4>1. sel'[i] = Events(method)[i + 1]
          BY <2>1, <3>1, <3>2
        <4>2. QED
          BY <1>2, <2>8, <3>2, <4>1 DEF Programmed
      <3>3. CASE i # next
        <4>1. i \in 0..(next - 1)
          BY <1>2, <3>3
        <4>2. Programmed(i)
          BY <1>1, <4>1 DEF PmcInv, ConfigInv
        <4>3. sel'[i] = sel[i]
          BY <2>1, <3>1, <3>3
        <4>4. QED
          BY <1>2, <2>8, <4>2, <4>3 DEF Programmed
      <3>4. QED
        BY <3>2, <3>3
    <2>10. next' - 1 = next
      BY <1>2, <2>1
    <2>11. ~IsArm => enabled' = Counters /\ running' = TRUE
      BY <2>1, <2>7
    <2>12. ConfigInv'
      BY <1>2, <2>1, <2>2, <2>7, <2>8, <2>9, <2>10, <2>11 DEF ConfigInv
    <2>13. QED
      BY <1>3, <2>5, <2>6, <2>12 DEF PmcInv
  <1>5. CASE ~(next < Len(Events(method)))
    <2>1. pc' = "ready" /\ UNCHANGED <<sel, enabled, running, next>>
      BY <1>5 DEF Configure
    <2>2. RegisterInv' /\ SavedInv' /\ CountInv'
      BY <1>1, <2>1 DEF PmcInv, RegisterInv, SavedInv, CountInv, Serving
    <2>3. /\ IsArm' = IsArm /\ Used' = Used
          /\ \A i : Programmed(i)' = Programmed(i)
          /\ ~IsArm => enabled = Counters /\ running = TRUE
      BY <1>1, <2>1, SameSetup
    <2>4. running = TRUE /\ \A i \in Used : Programmed(i)
      <3>1. next = Len(Events(method)) /\ next > 0
        BY <1>2, <1>5
      <3>2. QED
        BY <1>1, <1>2, <3>1 DEF PmcInv, ConfigInv
    <2>5. ConfigInv'
      BY <2>1, <2>3, <2>4 DEF ConfigInv
    <2>6. QED
      BY <1>3, <2>2, <2>5 DEF PmcInv
  <1>6. QED
    BY <1>4, <1>5

\* The registers and the agent's copy stay, and the agent stays where the counters
\* are programmed.
LEMMA ReadyStep ==
    ASSUME PmcInv, pc \in {"ready", "access", "after"}, pc' \in {"ready", "access", "after"},
           UNCHANGED <<method, isolation, found, sel, enabled, running, local_pmc>>
    PROVE  SavedInv' /\ ConfigInv'
  <1>1. /\ IsArm' = IsArm /\ Used' = Used
        /\ \A i : Programmed(i)' = Programmed(i)
        /\ ~IsArm => enabled = Counters /\ running = TRUE
    BY SameSetup
  <1>2. SavedInv'
    BY DEF PmcInv, SavedInv
  <1>3. ConfigInv'
    BY <1>1 DEF PmcInv, ConfigInv
  <1>4. QED
    BY <1>2, <1>3

\* An access that is not instrumented.
LEMMA PlainStep ==
    ASSUME PmcInv, NEW level \in Serving, NEW also \in SUBSET Overcounted,
           PlainAccess(level, also)
    PROVE  PmcInv'
  <1>1. /\ pc = "ready" /\ pc' = "ready" /\ count' = Counted(level, also)
        /\ UNCHANGED <<method, isolation, found, sel, enabled, running, local_pmc>>
        /\ UNCHANGED <<next, before, served, interrupts, last>>
    BY DEF PlainAccess
  <1>2. Counted(level, also) \in [Counters -> Values]
    BY <1>1, CountsAccess
  <1>3. RegisterInv'
    BY <1>1, <1>2 DEF PmcInv, RegisterInv, Serving
  <1>4. SavedInv' /\ ConfigInv'
    BY <1>1, ReadyStep
  <1>5. CountInv' /\ LevelTold'
    BY <1>1, SameAnswer DEF PmcInv, CountInv
  <1>6. QED
    BY <1>3, <1>4, <1>5 DEF PmcInv

\* The first reading.
LEMMA BeforeStep ==
    ASSUME PmcInv, ReadBefore
    PROVE  PmcInv'
  <1>1. /\ pc = "ready" /\ pc' = "access" /\ interrupts' = 0
        /\ before' = [i \in Read |-> count[i]] /\ count' = count
        /\ UNCHANGED <<method, isolation, found, sel, enabled, running, local_pmc>>
        /\ UNCHANGED <<next, served, last>>
    BY DEF ReadBefore, cpu
  <1>2. count \in [Counters -> Values] /\ method \in Methods
    BY DEF PmcInv, RegisterInv
  <1>3. before' \in [Read -> Values] /\ \A i \in Read : before'[i] = count[i]
    BY <1>1, <1>2 DEF Read, Counters
  <1>4. RegisterInv'
    <2>1. 0 \in 0..MaxInterrupts
      BY Widths
    <2>2. QED
      BY <1>1, <1>3, <2>1 DEF PmcInv, RegisterInv, Serving
  <1>5. SavedInv' /\ ConfigInv'
    BY <1>1, ReadyStep
  <1>6. CountInv'
    <2>1. Used' = Used
      BY <1>1, SameSetup
    <2>2. ASSUME NEW i \in Used PROVE Moved(i, 0)'
      <3>1. i \in Read /\ count[i] \in Values
        BY <1>2, EventsType DEF Read, Counters
      <3>2. (count[i] + 0) % 2^CounterBits = count[i]
        <4>1. PICK x \in Int : x = count[i] /\ x \in 0..(2^CounterBits - 1) /\ count[i] + 0 = x
          BY <3>1, Widths DEF Values
        <4>2. x % 2^CounterBits = x
          BY <4>1, Widths, WrapOnce
        <4>3. QED
          BY <4>1, <4>2
      <3>3. (interrupts + Accesses)' = 0
        BY <1>1 DEF Accesses
      <3>4. QED
        BY <1>1, <1>3, <3>1, <3>2, <3>3 DEF Moved
    <2>3. 0 \in 0..(MaxInterrupts + 1)
      BY Widths
    <2>4. QED
      BY <2>1, <2>2, <2>3 DEF CountInv
  <1>7. LevelTold'
    BY <1>1, SameAnswer DEF PmcInv
  <1>8. QED
    BY <1>4, <1>5, <1>6, <1>7 DEF PmcInv

\* An access between the two readings, of the agent or of an interrupt handler,
\* moves the counters that must see it by one, and none but those that may.
LEMMA MovedOn ==
    ASSUME PmcInv, pc \in {"access", "after"}, NEW level \in Serving,
           NEW also \in SUBSET Overcounted, NEW i \in Used,
           NEW k \in 0..(MaxInterrupts + 1), Moved(i, k)
    PROVE  \E j \in {k, k + 1} :
              /\ Counted(level, also)[i] = (before[i] + j) % 2^CounterBits
              /\ Sees(i, level) => j = k + 1
              /\ ~MaySee(i, level) => j = k
  <1>1. i \in Read /\ before[i] \in 0..(2^CounterBits - 1) /\ k \in 0..(2^CounterBits - 1)
    <2>1. i \in Read /\ before \in [Read -> Values]
      BY EventsType DEF PmcInv, RegisterInv
    <2>2. k \in 0..(2^CounterBits - 1)
      BY Widths
    <2>3. QED
      BY <2>1, <2>2 DEF Values
  <1>2. count[i] = (before[i] + k) % 2^CounterBits
    BY DEF Moved
  <1>3. (count[i] + 1) % 2^CounterBits = (before[i] + (k + 1)) % 2^CounterBits
    BY <1>1, <1>2, Widths, OneMore
  <1>4. /\ Sees(i, level) => Counted(level, also)[i] = (count[i] + 1) % 2^CounterBits
        /\ ~MaySee(i, level) => Counted(level, also)[i] = count[i]
        /\ Counted(level, also)[i] \in {count[i], (count[i] + 1) % 2^CounterBits}
    BY CountsAccess
  <1>5. Sees(i, level) => MaySee(i, level)
    BY WhatMayBeSeen DEF PmcInv, RegisterInv
  <1>6. CASE Sees(i, level)
    BY <1>3, <1>4, <1>5, <1>6
  <1>7. CASE ~MaySee(i, level)
    BY <1>2, <1>4, <1>5, <1>7
  <1>8. CASE ~Sees(i, level) /\ MaySee(i, level)
    BY <1>2, <1>3, <1>4, <1>8
  <1>9. QED
    BY <1>6, <1>7, <1>8

\* The instrumented access.
LEMMA AccessStep ==
    ASSUME PmcInv, NEW level \in Serving, NEW also \in SUBSET Overcounted,
           InstrumentedAccess(level, also)
    PROVE  PmcInv'
  <1>1. /\ pc = "access" /\ pc' = "after" /\ count' = Counted(level, also) /\ served' = level
        /\ UNCHANGED <<method, isolation, found, sel, enabled, running, local_pmc>>
        /\ UNCHANGED <<next, before, interrupts, last>>
    BY DEF InstrumentedAccess
  <1>2. Counted(level, also) \in [Counters -> Values]
    BY <1>1, CountsAccess
  <1>3. RegisterInv'
    BY <1>1, <1>2 DEF PmcInv, RegisterInv, Serving
  <1>4. SavedInv' /\ ConfigInv'
    BY <1>1, ReadyStep
  <1>5. CountInv'
    <2>1. /\ Used' = Used
          /\ \A i, l : Sees(i, l)' = Sees(i, l)
          /\ \A i, l : MaySee(i, l)' = MaySee(i, l)
      BY <1>1, SameSetup
    <2>2. ASSUME NEW i \in Used
          PROVE  \E j \in 0..(MaxInterrupts + 1) : Moved(i, j)'
      <3>1. PICK k \in 0..(MaxInterrupts + 1) : Moved(i, k)
        BY <1>1 DEF PmcInv, CountInv
      <3>2. PICK j \in {k, k + 1} :
               /\ Counted(level, also)[i] = (before[i] + j) % 2^CounterBits
               /\ Sees(i, level) => j = k + 1
               /\ ~MaySee(i, level) => j = k
        BY <1>1, <3>1, MovedOn
      <3>3. /\ k <= interrupts /\ interrupts \in 0..MaxInterrupts
            /\ interrupts = 0 => k = 0
        BY <1>1, <3>1, Widths DEF Moved, Accesses, PmcInv, RegisterInv
      <3>4. Sees(i, served)' = Sees(i, level) /\ MaySee(i, served)' = MaySee(i, level)
        BY <1>1, <2>1 DEF Sees, MaySee, Happens, Overcounted
      <3>5. Accesses' = 1
        BY <1>1 DEF Accesses
      <3>6. j \in 0..(MaxInterrupts + 1) /\ j <= interrupts + 1
        BY <3>2, <3>3, Widths
      <3>7. Moved(i, j)'
        <4>1. count'[i] = (before'[i] + j) % 2^CounterBits
          BY <1>1, <3>2
        <4>2. j <= interrupts' + Accesses'
          BY <1>1, <3>5, <3>6
        <4>3. Sees(i, served)' => j >= 1
          BY <3>2, <3>3, <3>4, Widths
        <4>4. (interrupts' = 0 /\ ~MaySee(i, served)') => j = 0
          BY <1>1, <3>2, <3>3, <3>4
        <4>5. QED
          BY <1>1, <4>1, <4>2, <4>3, <4>4 DEF Moved
      <3>8. QED
        BY <3>6, <3>7
    <2>3. QED
      BY <2>1, <2>2 DEF CountInv
  <1>6. LevelTold'
    BY <1>1, SameAnswer DEF PmcInv
  <1>7. QED
    BY <1>3, <1>4, <1>5, <1>6 DEF PmcInv

\* An interrupt between the readings.
LEMMA InterruptStep ==
    ASSUME PmcInv, NEW level \in Serving, NEW also \in SUBSET Overcounted,
           Interrupt(level, also)
    PROVE  PmcInv'
  <1>1. /\ pc \in {"access", "after"} /\ pc' = pc /\ count' = Counted(level, also)
        /\ interrupts < MaxInterrupts /\ interrupts' = interrupts + 1
        /\ UNCHANGED <<method, isolation, found, sel, enabled, running, local_pmc>>
        /\ UNCHANGED <<next, before, served, last>>
    BY DEF Interrupt
  <1>2. Counted(level, also) \in [Counters -> Values]
    BY <1>1, CountsAccess
  <1>3. interrupts \in Nat /\ interrupts' \in 0..MaxInterrupts /\ interrupts' # 0
    BY <1>1, Widths DEF PmcInv, RegisterInv
  <1>4. RegisterInv'
    BY <1>1, <1>2, <1>3 DEF PmcInv, RegisterInv, Serving
  <1>5. SavedInv' /\ ConfigInv'
    BY <1>1, ReadyStep
  <1>6. CountInv'
    <2>1. /\ Used' = Used
          /\ \A i, l : Sees(i, l)' = Sees(i, l)
          /\ \A i, l : MaySee(i, l)' = MaySee(i, l)
      BY <1>1, SameSetup
    <2>2. ASSUME NEW i \in Used
          PROVE  \E j \in 0..(MaxInterrupts + 1) : Moved(i, j)'
      <3>1. PICK k \in 0..(MaxInterrupts + 1) : Moved(i, k)
        BY <1>1 DEF PmcInv, CountInv
      <3>2. PICK j \in {k, k + 1} :
               /\ Counted(level, also)[i] = (before[i] + j) % 2^CounterBits
               /\ Sees(i, level) => j = k + 1
               /\ ~MaySee(i, level) => j = k
        BY <1>1, <3>1, MovedOn
      <3>3. /\ k <= interrupts + Accesses /\ Accesses \in 0..1
            /\ (pc = "after" /\ Sees(i, served)) => k >= 1
        BY <3>1 DEF Moved, Accesses
      <3>4. Sees(i, served)' = Sees(i, served) /\ Accesses' = Accesses
        BY <1>1 DEF Sees, Happens, Accesses
      <3>5. /\ j \in 0..(MaxInterrupts + 1) /\ j <= interrupts' + Accesses
            /\ k >= 1 => j >= 1
        BY <1>1, <1>3, <3>2, <3>3, Widths
      <3>6. Moved(i, j)'
        <4>1. count'[i] = (before'[i] + j) % 2^CounterBits
          BY <1>1, <3>2
        <4>2. (pc' = "after" /\ Sees(i, served)') => j >= 1
          BY <1>1, <3>3, <3>4, <3>5
        <4>3. QED
          BY <1>3, <3>4, <3>5, <4>1, <4>2 DEF Moved
      <3>7. QED
        BY <3>5, <3>6
    <2>3. QED
      BY <2>1, <2>2 DEF CountInv
  <1>7. LevelTold'
    BY <1>1, SameAnswer DEF PmcInv
  <1>8. QED
    BY <1>4, <1>5, <1>6, <1>7 DEF PmcInv

\* The second reading, and the answer.
LEMMA AfterStep ==
    ASSUME PmcInv, ReadAfter
    PROVE  PmcInv'
  <1> DEFINE now == [i \in Read |-> count[i]]
             d   == Deltas(before, now)
  <1>1. /\ pc = "after" /\ pc' = "ready" /\ before' = Unread /\ served' = 0
        /\ interrupts' = 0 /\ count' = count
        /\ UNCHANGED <<method, isolation, found, sel, enabled, running, local_pmc>>
        /\ UNCHANGED next
        /\ last' = [served |-> served, answer |-> pmu_handler(d),
                    interrupted |-> interrupts > 0]
    BY DEF ReadAfter, cpu
  <1>2. RegisterInv'
    <2>1. 0 \in Values /\ 0 \in 0..MaxInterrupts /\ 0 \in Serving
      BY Widths DEF Values, Serving
    <2>2. Unread \in [Read -> Values]
      BY <2>1 DEF Unread
    <2>3. QED
      BY <1>1, <2>1, <2>2 DEF PmcInv, RegisterInv, Serving
  <1>3. SavedInv' /\ ConfigInv'
    BY <1>1, ReadyStep
  <1>4. CountInv'
    BY <1>1 DEF CountInv
  <1>5. method \in Methods /\ served \in Serving /\ interrupts \in Nat
    BY Widths DEF PmcInv, RegisterInv
  <1>6. ASSUME NEW i \in Used
        PROVE  /\ Sees(i, served) => d[i] # 0
               /\ interrupts = 0 => (d[i] # 0 => MaySee(i, served))
    <2>1. PICK k \in 0..(MaxInterrupts + 1) : Moved(i, k)
      BY <1>1 DEF PmcInv, CountInv
    <2>2. /\ i \in Read /\ before[i] \in 0..(2^CounterBits - 1)
          /\ k \in 0..(2^CounterBits - 1)
      <3>1. i \in Read /\ before \in [Read -> Values]
        BY <1>5, EventsType DEF PmcInv, RegisterInv
      <3>2. k \in 0..(2^CounterBits - 1)
        BY Widths
      <3>3. QED
        BY <3>1, <3>2 DEF Values
    <2>3. d[i] = (count[i] - before[i]) % 2^WordBits
      BY <2>2 DEF Deltas
    <2>4. /\ count[i] = (before[i] + k) % 2^CounterBits
          /\ Sees(i, served) => k >= 1
          /\ interrupts = 0 => (~MaySee(i, served) => k = 0)
      BY <1>1, <2>1 DEF Moved
    <2>5. (count[i] - before[i]) % 2^WordBits # 0 <=> k # 0
      BY <2>2, <2>4, Widths, DeltaTells
    <2> HIDE DEF d
    <2>6. d[i] # 0 <=> k # 0
      BY <2>3, <2>5
    <2>7. k >= 1 => k # 0
      BY <2>2
    <2>8. QED
      BY <2>4, <2>6, <2>7
  <1> HIDE DEF d
  <1>7. /\ method = "intel" => pmu_handler(d) <= served
        /\ method \in {"rpi5", "a64fx"} => pmu_handler(d) >= served
        /\ method = "amd-zen2" => (pmu_handler(d) = 0 => served = 0)
        /\ interrupts = 0
              => \/ pmu_handler(d) = Min({served, IF method = "amd-zen2" THEN 2 ELSE 3})
                 \/ method = "a64fx" /\ pmu_handler(d) = 2
    BY <1>5, <1>6, HandlerTells
  <1>8. LevelTold'
    <2>1. /\ last'.served = served /\ last'.answer = pmu_handler(d)
          /\ last'.interrupted = (interrupts > 0)
      BY <1>1
    <2>2. ~last'.interrupted => interrupts = 0
      <3>1. interrupts > 0 \/ interrupts = 0
        BY <1>5
      <3>2. QED
        BY <2>1, <3>1, Zenon
    <2>3. QED
      BY <1>1, <1>7, <2>1, <2>2, Zenon DEF LevelTold
  <1>9. QED
    BY <1>2, <1>3, <1>4, <1>8 DEF PmcInv

\* The agent puts the selections back.
LEMMA RestoreStep ==
    ASSUME PmcInv, Restore
    PROVE  PmcInv'
  <1>1. /\ pc = "ready" /\ pc' = "idle" /\ sel' = local_pmc /\ last' = NoAccess
        /\ UNCHANGED <<method, isolation, found, enabled, running, count, local_pmc, next,
                       before, served, interrupts>>
    BY DEF Restore, ch_local_pmc_restore
  <1>2. local_pmc = found /\ found \in [Counters -> EventNames]
    BY <1>1 DEF PmcInv, SavedInv
  <1>3. RegisterInv'
    BY <1>1, <1>2 DEF PmcInv, RegisterInv, Serving
  <1>4. SavedInv' /\ CountInv'
    BY <1>1, <1>2 DEF SavedInv, CountInv
  <1>5. ConfigInv'
    BY <1>1 DEF PmcInv, ConfigInv, IsArm
  <1>6. LevelTold'
    <2>1. Min({0, IF method' = "amd-zen2" THEN 2 ELSE 3}) = 0
      BY MinOfTwo
    <2>2. last'.interrupted = FALSE /\ last'.served = 0 /\ last'.answer = 0
      BY <1>1 DEF NoAccess
    <2>3. QED
      BY <2>1, <2>2 DEF LevelTold
  <1>7. QED
    BY <1>3, <1>4, <1>5, <1>6 DEF PmcInv

\* No step.
LEMMA StutterStep ==
    ASSUME PmcInv, UNCHANGED vars
    PROVE  PmcInv'
  <1>1. /\ UNCHANGED <<method, isolation, found, sel, enabled, running, local_pmc>>
        /\ UNCHANGED <<pc, count, next, before, served, interrupts, last>>
    BY DEF vars, cpu
  <1>2. RegisterInv' /\ SavedInv'
    BY <1>1 DEF PmcInv, RegisterInv, SavedInv, Serving
  <1>3. /\ IsArm' = IsArm /\ Used' = Used
        /\ \A i : Programmed(i)' = Programmed(i)
        /\ \A i, level : MaySee(i, level)' = MaySee(i, level)
    BY <1>1, SameSetup
  <1>4. ConfigInv'
    BY <1>1, <1>3 DEF PmcInv, ConfigInv
  <1>5. CountInv'
    <2>1. ASSUME NEW i, NEW k, Moved(i, k) PROVE Moved(i, k)'
      <3>1. /\ Sees(i, served)' = Sees(i, served) /\ MaySee(i, served)' = MaySee(i, served)
            /\ Accesses' = Accesses
        BY <1>1 DEF Sees, MaySee, Happens, Overcounted, Accesses
      <3>2. QED
        BY <1>1, <2>1, <3>1 DEF Moved
    <2>2. QED
      BY <1>1, <1>3, <2>1 DEF PmcInv, CountInv
  <1>6. LevelTold'
    BY <1>1, SameAnswer DEF PmcInv
  <1>7. QED
    BY <1>2, <1>4, <1>5, <1>6 DEF PmcInv

-----------------------------------------------------------------------------
(* The theorems.                                                           *)

\* The invariant holds in every state of every execution.
LEMMA Invariant == Spec => []PmcInv
  <1>1. PmcInv /\ [Next]_vars => PmcInv'
    BY SaveStep, ConfigureStep, PlainStep, BeforeStep, AccessStep, AfterStep, InterruptStep,
       RestoreStep, StutterStep DEF Next
  <1>2. QED
    BY InvInit, <1>1, PTL DEF Spec

\* For every width of the counters and of the words, an access that no interrupt met
\* is told right, but that an A64FX may be told memory, and interrupts move the answer
\* of a handler one way only.
THEOREM LevelsTold == Spec => []LevelTold
  <1>1. PmcInv => LevelTold
    BY DEF PmcInv
  <1>2. QED
    BY Invariant, <1>1, PTL

\* Whenever no agent runs, the selections are the ones that the first agent found,
\* however many agents have saved and restored them.
THEOREM SelectionsRestored == Spec => []Restored
  <1>1. PmcInv => Restored
    BY DEF PmcInv, SavedInv, Restored
  <1>2. QED
    BY Invariant, <1>1, PTL
=============================================================================
